---------------------------- MODULE SearchProofs ----------------------------
(***************************************************************************)
(* Proofs about the exact search, for every chunk size, pattern, alignment *)
(* and layout, and about the blocks of a candidate file, for every value   *)
(* width and every number and size of blocks, and the pages read from it.  *)
(***************************************************************************)
EXTENDS ExactScan, SearchStore, FiniteSetTheorems, SequenceTheorems, NaturalsInduction, WellFoundedInduction,
        TLAPS

-----------------------------------------------------------------------------
(* Ascending.                                                              *)

Below(S, x) == {y \in S : y < x}

\* An interval from 1 has as many numbers as its upper end.
LEMMA IntervalSize ==
    ASSUME NEW n \in Nat
    PROVE  IsFiniteSet(1 .. n) /\ Cardinality(1 .. n) = n
  BY FS_Interval

\* Different elements of a finite set have different numbers of elements below them.
LEMMA BelowIsInjective ==
    ASSUME NEW S \in SUBSET Int, IsFiniteSet(S)
    PROVE  /\ Cardinality(S) \in Nat
           /\ \A x \in S : Cardinality(Below(S, x)) \in 0 .. Cardinality(S) - 1
           /\ \A x, y \in S : x < y => Cardinality(Below(S, x)) < Cardinality(Below(S, y))
<1>1. Cardinality(S) \in Nat
  BY FS_CardinalityType
<1>2. ASSUME NEW x \in S
      PROVE  /\ IsFiniteSet(Below(S, x)) /\ Cardinality(Below(S, x)) \in Nat
             /\ Cardinality(Below(S, x)) < Cardinality(S)
  <2>1. Below(S, x) \in SUBSET S /\ x \notin Below(S, x)
    BY DEF Below
  <2>2. /\ IsFiniteSet(Below(S, x)) /\ Cardinality(Below(S, x)) <= Cardinality(S)
        /\ Cardinality(S) = Cardinality(Below(S, x)) => S = Below(S, x)
    BY <2>1, FS_Subset
  <2>3. Cardinality(Below(S, x)) \in Nat
    BY <2>2, FS_CardinalityType
  <2>4. Cardinality(S) # Cardinality(Below(S, x))
    BY <2>1, <2>2, Zenon
  <2>5. Cardinality(Below(S, x)) < Cardinality(S)
    BY <2>2, <2>3, <2>4, <1>1
  <2> QED
    BY <2>2, <2>3, <2>5
<1>3. ASSUME NEW x \in S, NEW y \in S, x < y
      PROVE  Cardinality(Below(S, x)) < Cardinality(Below(S, y))
  <2>1. x \in Below(S, y) /\ x \notin Below(S, x) /\ Below(S, x) \in SUBSET Below(S, y)
    <3>1. x \in Int /\ y \in Int /\ \A z \in S : z \in Int
      OBVIOUS
    <3>2. ~(x < x) /\ \A z \in S : z < x => z < y
      BY <3>1, <1>3
    <3> QED
      BY <3>1, <3>2, <1>3 DEF Below
  <2>2. IsFiniteSet(Below(S, y)) /\ Cardinality(Below(S, y)) \in Nat
        /\ Cardinality(Below(S, x)) \in Nat
    BY <1>2
  <2>3. /\ Cardinality(Below(S, x)) <= Cardinality(Below(S, y))
        /\ Cardinality(Below(S, y)) = Cardinality(Below(S, x)) => Below(S, y) = Below(S, x)
    BY <2>1, <2>2, FS_Subset
  <2> QED
    BY <2>1, <2>2, <2>3
<1> QED
  BY <1>1, <1>2, <1>3

\* There is an element with any number of elements below it.
LEMMA BelowIsOnto ==
    ASSUME NEW S \in SUBSET Int, IsFiniteSet(S), NEW i \in 1 .. Cardinality(S)
    PROVE  \E x \in S : Cardinality(Below(S, x)) = i - 1
<1> DEFINE R == 1 .. Cardinality(S)
           r == [x \in S |-> Cardinality(Below(S, x)) + 1]
<1>1. Cardinality(S) \in Nat
  BY BelowIsInjective
<1>2. \A x \in S : Cardinality(Below(S, x)) \in Nat /\ r[x] \in R
  BY <1>1, BelowIsInjective
<1>3. \A x, y \in S : r[x] = r[y] => x = y
  <2> SUFFICES ASSUME NEW x \in S, NEW y \in S, r[x] = r[y] PROVE x = y
    OBVIOUS
  <2>1. Cardinality(Below(S, x)) = Cardinality(Below(S, y))
    BY <1>2
  <2>2. ~(x < y) /\ ~(y < x)
    BY <2>1, <1>2, BelowIsInjective
  <2> QED
    BY <2>2
<1>4. r \in Injection(S, R)
  BY <1>2, <1>3 DEF Injection, IsInjective
<1>5. IsFiniteSet(R) /\ Cardinality(R) = Cardinality(S)
  BY <1>1, IntervalSize
<1>6. r \in Surjection(S, R)
  <2> HIDE DEF R, r
  <2> QED
    BY <1>4, <1>5, FS_Injection
<1>7. PICK x \in S : r[x] = i
  BY <1>6 DEF Surjection
<1> QED
  BY <1>2, <1>7

\* Ascending lists the set, each element once and in ascending order.
LEMMA AscendingLists ==
    ASSUME NEW S \in SUBSET Int, IsFiniteSet(S)
    PROVE  /\ Ascending(S) \in Seq(S) /\ Len(Ascending(S)) = Cardinality(S)
           /\ Cardinality(S) \in Nat
           /\ \A i \in 1 .. Cardinality(S) :
                  Ascending(S)[i] \in S /\ Cardinality(Below(S, Ascending(S)[i])) = i - 1
           /\ \A x \in S : \E i \in 1 .. Cardinality(S) : Ascending(S)[i] = x
           /\ \A i, j \in 1 .. Cardinality(S) : i < j => Ascending(S)[i] < Ascending(S)[j]
<1> DEFINE n == Cardinality(S)
           at(i) == CHOOSE x \in S : Cardinality(Below(S, x)) = i - 1
<1>1. n \in Nat
  BY BelowIsInjective
<1>2. Ascending(S) = [i \in 1 .. n |-> at(i)]
  BY DEF Ascending, Below
<1>3. \A i \in 1 .. n : at(i) \in S /\ Cardinality(Below(S, at(i))) = i - 1
  <2> TAKE i \in 1 .. n
  <2>1. \E x \in S : Cardinality(Below(S, x)) = i - 1
    BY BelowIsOnto
  <2> QED
    BY <2>1
<1>4. \A i \in 1 .. n : Ascending(S)[i] = at(i)
  BY <1>2
<1> HIDE DEF at
<1>5. Ascending(S) \in Seq(S) /\ Len(Ascending(S)) = n
  BY <1>1, <1>2, <1>3
<1>6. ASSUME NEW x \in S PROVE \E i \in 1 .. n : at(i) = x
  <2> DEFINE c == Cardinality(Below(S, x))
             i == c + 1
  <2>1. c \in 0 .. n - 1
    BY BelowIsInjective
  <2>2. i \in 1 .. n /\ i - 1 = c
    <3> HIDE DEF c, n
    <3> QED
      BY <2>1, <1>1
  <2>3. at(i) \in S /\ Cardinality(Below(S, at(i))) = c
    BY <2>2, <1>3
  <2> HIDE DEF i
  <2>4. ~(x < at(i)) /\ ~(at(i) < x)
    <3>1. x < at(i) => Cardinality(Below(S, x)) < Cardinality(Below(S, at(i)))
      BY <2>3, BelowIsInjective
    <3>2. at(i) < x => Cardinality(Below(S, at(i))) < Cardinality(Below(S, x))
      BY <2>3, BelowIsInjective
    <3>3. c \in Int
      <4> HIDE DEF c
      <4> QED
        BY <2>1
    <3> HIDE DEF c
    <3> QED
      BY <2>3, <3>1, <3>2, <3>3 DEF c
  <2>5. at(i) = x
    <3>1. at(i) \in Int /\ x \in Int
      BY <2>3
    <3> QED
      BY <3>1, <2>4
  <2> QED
    BY <2>2, <2>5
<1>7. ASSUME NEW i \in 1 .. n, NEW j \in 1 .. n, i < j PROVE at(i) < at(j)
  <2>1. /\ at(i) \in S /\ Cardinality(Below(S, at(i))) = i - 1
        /\ at(j) \in S /\ Cardinality(Below(S, at(j))) = j - 1
    BY <1>3
  <2>2. at(j) # at(i)
    BY <2>1, <1>7
  <2>3. ~(at(j) < at(i))
    <3>1. SUFFICES ASSUME at(j) < at(i) PROVE FALSE
      OBVIOUS
    <3>2. Cardinality(Below(S, at(j))) < Cardinality(Below(S, at(i)))
      BY <2>1, <3>1, BelowIsInjective
    <3> QED
      BY <2>1, <3>2, <1>7
  <2>4. at(i) \in Int /\ at(j) \in Int
    BY <2>1
  <2> QED
    BY <2>2, <2>3, <2>4
<1> HIDE DEF n
<1>8. QED
  BY <1>1, <1>3, <1>4, <1>5, <1>6, <1>7 DEF n

\* An ascending sequence is the enumeration of its elements.
LEMMA AscendingIsUnique ==
    ASSUME NEW S \in SUBSET Int, NEW q \in Seq(S),
           \A x \in S : \E i \in 1 .. Len(q) : q[i] = x,
           \A i, j \in 1 .. Len(q) : i < j => q[i] < q[j]
    PROVE  IsFiniteSet(S) /\ Cardinality(S) = Len(q) /\ q = Ascending(S)
<1> DEFINE n == Len(q)
           D == 1 .. n
<1>1. n \in Nat /\ (\A i \in D : q[i] \in S) /\ q = [i \in D |-> q[i]]
  OBVIOUS
<1>2. IsFiniteSet(D) /\ Cardinality(D) = n
  BY <1>1, IntervalSize
<1>3. \A i, j \in D : q[i] < q[j] <=> i < j
  <2> SUFFICES ASSUME NEW i \in D, NEW j \in D, q[i] < q[j], ~(i < j) PROVE FALSE
    OBVIOUS
  <2>1. i \in Int /\ j \in Int /\ q[i] \in Int /\ q[j] \in Int
    BY <1>1
  <2>2. i = j \/ j < i
    BY <2>1
  <2>3. j < i => q[j] < q[i]
    OBVIOUS
  <2> QED
    BY <2>1, <2>2, <2>3
<1>4. \A i, j \in D : q[i] = q[j] => i = j
  <2> SUFFICES ASSUME NEW i \in D, NEW j \in D, q[i] = q[j], i # j PROVE FALSE
    OBVIOUS
  <2>1. q[i] \in Int
    BY <1>1
  <2>2. i < j \/ j < i
    BY <1>1
  <2>3. q[i] < q[j] \/ q[j] < q[i]
    BY <2>2
  <2> QED
    BY <2>1, <2>3
<1> HIDE DEF n, D
\* The first i - 1 elements are those below element i.
<1>5. ASSUME NEW i \in D PROVE Cardinality(Below(S, q[i])) = i - 1
  <2> DEFINE F == 1 .. i - 1
             b == [k \in F |-> q[k]]
  <2>1. i \in Nat /\ 1 <= i /\ i - 1 \in Nat /\ F \subseteq D /\ \A k \in F : k < i
    BY <1>1 DEF D
  <2>2. IsFiniteSet(F) /\ Cardinality(F) = i - 1
    BY <2>1, IntervalSize
  <2>3. \A k \in F : b[k] \in Below(S, q[i])
    BY <2>1, <1>1, <1>3 DEF Below
  <2>4. \A y \in Below(S, q[i]) : \E k \in F : b[k] = y
    <3> TAKE y \in Below(S, q[i])
    <3>1. PICK k \in D : q[k] = y
      BY DEF Below, D, n
    <3>2. k < i
      BY <3>1, <1>3 DEF Below
    <3>3. k \in F
      BY <3>2, <2>1 DEF D
    <3> QED
      BY <3>1, <3>3
  <2>5. \A k, l \in F : b[k] = b[l] => k = l
    BY <2>1, <1>4
  <2>6. b \in Bijection(F, Below(S, q[i]))
    <3> HIDE DEF F
    <3>1. b \in Injection(F, Below(S, q[i]))
      BY <2>3, <2>5 DEF Injection, IsInjective
    <3>2. b \in Surjection(F, Below(S, q[i]))
      BY <2>3, <2>4 DEF Surjection
    <3> QED
      BY <3>1, <3>2 DEF Bijection
  <2> HIDE DEF b, F
  <2>7. ExistsBijection(F, Below(S, q[i]))
    BY <2>6 DEF ExistsBijection
  <2> QED
    BY <2>2, <2>7, FS_Bijection
<1>6. IsFiniteSet(S) /\ Cardinality(S) = n
  <2>1. q \in Injection(D, S)
    BY <1>1, <1>4 DEF Injection, IsInjective, D, n
  <2>2. q \in Surjection(D, S)
    BY <1>1 DEF Surjection, D, n
  <2>3. ExistsBijection(D, S)
    BY <2>1, <2>2 DEF Bijection, ExistsBijection
  <2> QED
    BY <1>2, <2>3, FS_Bijection
<1>7. \A i \in D : Ascending(S)[i] = q[i]
  <2> TAKE i \in D
  <2>1. Ascending(S)[i] \in S /\ Cardinality(Below(S, Ascending(S)[i])) = i - 1
    BY <1>6, AscendingLists DEF D
  <2>2. q[i] \in S /\ Cardinality(Below(S, q[i])) = i - 1
    BY <1>1, <1>5
  <2>3. ~(q[i] < Ascending(S)[i]) /\ ~(Ascending(S)[i] < q[i])
    <3>1. i - 1 \in Int
      BY <1>1 DEF D
    <3>2. ~(i - 1 < i - 1)
      BY <3>1
    <3>3. \A x, y \in S : x < y => Cardinality(Below(S, x)) < Cardinality(Below(S, y))
      BY <1>6, BelowIsInjective
    <3> QED
      BY <2>1, <2>2, <3>2, <3>3
  <2>4. q[i] \in Int /\ Ascending(S)[i] \in Int
    BY <2>1, <2>2
  <2> QED
    BY <2>3, <2>4
<1>8. Ascending(S) \in Seq(S) /\ Len(Ascending(S)) = n
  BY <1>6, AscendingLists
<1>9. Ascending(S) = [i \in D |-> Ascending(S)[i]]
  BY <1>8 DEF D
<1> QED
  BY <1>1, <1>6, <1>7, <1>9 DEF n

\* What is found later lies behind what was found before.
LEMMA AscendingUnion ==
    ASSUME NEW S \in SUBSET Int, NEW T \in SUBSET Int, IsFiniteSet(S), IsFiniteSet(T),
           \A x \in S, y \in T : x < y
    PROVE  Ascending(S \cup T) = Ascending(S) \o Ascending(T)
<1> DEFINE a == Ascending(S)
           b == Ascending(T)
           U == S \cup T
           q == a \o b
<1>1. /\ a \in Seq(S) /\ Len(a) \in Nat
      /\ \A i \in 1 .. Len(a) : a[i] \in S
      /\ \A x \in S : \E i \in 1 .. Len(a) : a[i] = x
      /\ \A i, j \in 1 .. Len(a) : i < j => a[i] < a[j]
  BY AscendingLists
<1>2. /\ b \in Seq(T) /\ Len(b) \in Nat
      /\ \A i \in 1 .. Len(b) : b[i] \in T
      /\ \A x \in T : \E i \in 1 .. Len(b) : b[i] = x
      /\ \A i, j \in 1 .. Len(b) : i < j => b[i] < b[j]
  BY AscendingLists
<1> HIDE DEF a, b
<1>3. /\ q \in Seq(U) /\ Len(q) = Len(a) + Len(b)
      /\ \A i \in 1 .. Len(a) : q[i] = a[i]
      /\ \A i \in 1 .. Len(b) : q[Len(a) + i] = b[i]
  <2>1. a \in Seq(U) /\ b \in Seq(U)
    BY <1>1, <1>2
  <2> QED
    BY <2>1, <1>1, <1>2
<1> HIDE DEF q
<1>4. \A i \in 1 .. Len(q) : i \in 1 .. Len(a) \/ \E k \in 1 .. Len(b) : i = Len(a) + k
  <2> TAKE i \in 1 .. Len(q)
  <2>1. i \in 1 .. Len(a) \/ (i - Len(a) \in 1 .. Len(b) /\ i = Len(a) + (i - Len(a)))
    BY <1>1, <1>2, <1>3
  <2> QED
    BY <2>1
<1>5. ASSUME NEW x \in U PROVE \E i \in 1 .. Len(q) : q[i] = x
  <2>1. CASE x \in S
    <3>1. PICK i \in 1 .. Len(a) : a[i] = x
      BY <1>1, <2>1
    <3>2. i \in 1 .. Len(q)
      BY <1>1, <1>2, <1>3
    <3> QED
      BY <1>3, <3>1, <3>2
  <2>2. CASE x \in T
    <3>1. PICK i \in 1 .. Len(b) : b[i] = x
      BY <1>2, <2>2
    <3>2. Len(a) + i \in 1 .. Len(q)
      BY <1>1, <1>2, <1>3
    <3> QED
      BY <1>3, <3>1, <3>2
  <2> QED
    BY <2>1, <2>2
<1>6. ASSUME NEW i \in 1 .. Len(q), NEW j \in 1 .. Len(q), i < j PROVE q[i] < q[j]
  <2>1. CASE i \in 1 .. Len(a) /\ j \in 1 .. Len(a)
    BY <2>1, <1>1, <1>3, <1>6
  <2>2. ASSUME i \in 1 .. Len(a), NEW k \in 1 .. Len(b), j = Len(a) + k PROVE q[i] < q[j]
    <3>1. q[i] \in S /\ q[j] \in T
      BY <2>2, <1>1, <1>2, <1>3
    <3> QED
      BY <3>1
  <2>3. ASSUME NEW l \in 1 .. Len(b), i = Len(a) + l, NEW k \in 1 .. Len(b), j = Len(a) + k
        PROVE  q[i] < q[j]
    <3>1. l < k
      BY <2>3, <1>1, <1>6
    <3> QED
      BY <3>1, <2>3, <1>2, <1>3
  <2>4. ASSUME NEW l \in 1 .. Len(b), i = Len(a) + l, j \in 1 .. Len(a) PROVE FALSE
    BY <2>4, <1>1, <1>6
  <2> QED
    BY <1>4, <2>1, <2>2, <2>3, <2>4
<1> HIDE DEF U
<1>7. U \in SUBSET Int
  BY DEF U
<1>8. q = Ascending(U)
  BY <1>3, <1>5, <1>6, <1>7, AscendingIsUnique
<1> QED
  BY <1>8 DEF q, U, a, b

-----------------------------------------------------------------------------
(* Numbers.                                                                *)

\* What quotient and remainder are.
LEMMA Division ==
    ASSUME NEW x \in Int, NEW d \in Int, d > 0
    PROVE  /\ x \div d \in Int /\ x % d \in Int
           /\ x = (x \div d) * d + (x % d)
           /\ 0 <= x % d /\ x % d < d
<1>1. x = d * (x \div d) + (x % d)
  OBVIOUS
<1>2. x \div d \in Int /\ x % d \in Int /\ 0 <= x % d /\ x % d < d
  OBVIOUS
<1>3. d * (x \div d) = (x \div d) * d
  BY <1>2
<1>4. QED
  BY <1>1, <1>2, <1>3

\* The order of the naturals as a relation.
Less == {p \in Nat \X Nat : p[1] < p[2]}

\* A set of naturals that is not empty has a least element.
LEMMA LeastElement ==
    ASSUME NEW T \in SUBSET Nat, T # {}
    PROVE  \E n \in T : \A m \in T : n <= m
<1>1. IsWellFoundedOn(Less, Nat)
  BY NatLessThanWellFounded, Zenon DEF Less, OpToRel
<1>2. PICK n \in T : \A m \in T : ~(<<m, n>> \in Less)
  BY <1>1, WFMin
<1>3. ASSUME NEW m \in T PROVE n <= m
  <2>1. m \in Nat /\ n \in Nat
    OBVIOUS
  <2>2. <<m, n>> \notin Less
    BY <1>2
  <2>3. QED
    BY <2>1, <2>2 DEF Less
<1>4. QED
  BY <1>3

-----------------------------------------------------------------------------
(* The request and its mappings.                                           *)

\* An address lies in mapping i.
Holds(i, a) == layout[i].addr <= a /\ a < layout[i].addr + layout[i].size

\* What is known of the request.
LEMMA RequestFacts ==
    ASSUME TypeOK
    PROVE  /\ start \in Nat /\ end \in Nat /\ start < end
           /\ cursor \in start .. end /\ mappingEnd \in start .. end
           /\ cursor \in Nat /\ mappingEnd \in Nat
           /\ pattern \in Seq(Bytes) /\ Len(pattern) \in Nat \ {0}
           /\ DOMAIN pattern = 1 .. Len(pattern)
           /\ buffer \in Seq(Bytes) /\ Len(buffer) \in Nat /\ DOMAIN buffer = 1 .. Len(buffer)
           /\ Run = cursor - Len(buffer) /\ Run \in Int
           /\ Chunk \in Nat \ {0} /\ MaxResults \in Nat
           /\ AddressLimit \in Nat \ {0}
<1>1. start \in Addresses /\ end \in Addresses
  <2>1. <<start, end>> \in Addresses \X Addresses
    BY ExactAssumption DEF TypeOK
  <2> QED
    BY <2>1
<1>2. AddressLimit \in Nat \ {0} /\ Chunk \in Nat \ {0} /\ MaxResults \in Nat
  BY RangeAssumption, ExactAssumption
<1>3. start \in Nat /\ end \in Nat /\ start < end
  BY <1>1, <1>2 DEF Addresses, TypeOK
<1>4. pattern \in Seq(Bytes) /\ Len(pattern) > 0
  BY ExactAssumption DEF TypeOK
<1>5. buffer \in Seq(Bytes) /\ cursor \in start .. end /\ mappingEnd \in start .. end
  BY DEF TypeOK
<1> QED
  BY <1>2, <1>3, <1>4, <1>5 DEF Run

\* What is known of the layout.
LEMMA LayoutFacts ==
    ASSUME TypeOK
    PROVE  /\ DOMAIN layout \subseteq Nat
           /\ \A i \in DOMAIN layout :
                  /\ layout[i].addr \in Nat /\ layout[i].addr < AddressLimit
                  /\ layout[i].size \in Nat \ {0} /\ layout[i].size <= AddressLimit
                  /\ layout[i].readable \in BOOLEAN
           /\ \A i, j \in DOMAIN layout :
                  i < j => layout[i].addr + layout[i].size <= layout[j].addr
           /\ \E i \in DOMAIN layout : end <= layout[i].addr + layout[i].size
<1>1. layout \in Layouts /\ <<start, end>> \in Ranges
  BY DEF TypeOK
<1>2. /\ layout \in Seq(Mapping)
      /\ \A i, j \in DOMAIN layout : i < j => layout[i].addr + layout[i].size <= layout[j].addr
      /\ \E i \in DOMAIN layout : <<start, end>>[2] <= layout[i].addr + layout[i].size
  BY <1>1, ExactAssumption
<1>3. DOMAIN layout \subseteq Nat
  BY <1>2
<1>4. ASSUME NEW i \in DOMAIN layout
      PROVE  /\ layout[i].addr \in Nat /\ layout[i].addr < AddressLimit
             /\ layout[i].size \in Nat \ {0} /\ layout[i].size <= AddressLimit
             /\ layout[i].readable \in BOOLEAN
  <2>1. layout[i] \in Mapping
    BY <1>2
  <2> QED
    BY <2>1, RangeAssumption DEF Mapping, Addresses
<1> QED
  BY <1>2, <1>3, <1>4

\* No address lies in two mappings.
LEMMA OneMapping ==
    ASSUME TypeOK, NEW a \in Nat, NEW i \in DOMAIN layout, NEW j \in DOMAIN layout,
           Holds(i, a), Holds(j, a)
    PROVE  i = j
<1>1. i \in Nat /\ j \in Nat /\ layout[i].addr \in Nat /\ layout[j].addr \in Nat
      /\ layout[i].size \in Nat /\ layout[j].size \in Nat
      /\ (i < j => layout[i].addr + layout[i].size <= layout[j].addr)
      /\ (j < i => layout[j].addr + layout[j].size <= layout[i].addr)
  BY LayoutFacts
<1>2. QED
  BY <1>1 DEF Holds

\* The memory query finds the first mapping that ends behind the cursor.
LEMMA QueryFacts ==
    ASSUME TypeOK, cursor < end
    PROVE  \E i \in DOMAIN layout :
               /\ queryMapping(layout, cursor) = layout[i]
               /\ cursor < layout[i].addr + layout[i].size
               /\ \A j \in DOMAIN layout :
                      cursor < layout[j].addr + layout[j].size => i <= j
<1> DEFINE T == {i \in DOMAIN layout : cursor < layout[i].addr + layout[i].size}
<1>1. T \in SUBSET Nat
  BY LayoutFacts
<1>2. T # {}
  <2>1. PICK i \in DOMAIN layout : end <= layout[i].addr + layout[i].size
    BY LayoutFacts
  <2>2. layout[i].addr \in Nat /\ layout[i].size \in Nat
    BY LayoutFacts
  <2>3. cursor \in Nat /\ end \in Nat
    BY RequestFacts
  <2>4. QED
    BY <2>1, <2>2, <2>3
<1> HIDE DEF T
<1>3. PICK g \in T : \A j \in T : g <= j
  BY <1>1, <1>2, LeastElement
<1>4. g \in DOMAIN layout /\ cursor < layout[g].addr + layout[g].size
      /\ \A j \in DOMAIN layout : cursor < layout[j].addr + layout[j].size => g <= j
  BY <1>3 DEF T
<1>5. QED
  BY <1>4, Zenon DEF queryMapping

\* The end of a mapping that does not reach the end of the address space.
LEMMA EndFacts ==
    ASSUME TypeOK, NEW i \in DOMAIN layout, EndOf(layout[i]) > layout[i].addr
    PROVE  EndOf(layout[i]) = layout[i].addr + layout[i].size
<1> DEFINE a == layout[i].addr
           n == layout[i].size
           q == (a + n) \div AddressLimit
           r == (a + n) % AddressLimit
<1>1. a \in Nat /\ a < AddressLimit /\ n \in Nat /\ n <= AddressLimit
  BY LayoutFacts
<1>2. AddressLimit \in Nat \ {0}
  BY RangeAssumption
<1>3. EndOf(layout[i]) = r
  BY DEF EndOf
<1> HIDE DEF a, n
<1>4. q \in Int /\ r \in Int /\ a + n = q * AddressLimit + r /\ 0 <= r /\ r < AddressLimit
  <2>1. a + n \in Int /\ AddressLimit \in Int /\ AddressLimit > 0
    BY <1>1, <1>2
  <2>2. QED
    BY <2>1, Division
<1> HIDE DEF q, r
<1>5. q = 0 \/ q = 1
  <2>1. CASE q < 0
    <3>1. q * AddressLimit <= -AddressLimit
      BY <2>1, <1>2, <1>4, Z3
    <3>2. QED
      BY <3>1, <1>1, <1>2, <1>4
  <2>2. CASE q > 1
    <3>1. q * AddressLimit >= 2 * AddressLimit
      BY <2>2, <1>2, <1>4, Z3
    <3>2. QED
      BY <3>1, <1>1, <1>2, <1>4
  <2>3. QED
    BY <2>1, <2>2, <1>4
<1>6. q # 1
  <2>1. SUFFICES ASSUME q = 1 PROVE FALSE
    OBVIOUS
  <2>2. a + n = AddressLimit + r
    BY <2>1, <1>2, <1>4
  <2>3. r > a
    BY <1>3 DEF a
  <2>4. QED
    BY <2>2, <2>3, <1>1, <1>2, <1>4
<1>7. a + n = r
  BY <1>2, <1>4, <1>5, <1>6
<1>8. QED
  BY <1>3, <1>7 DEF a, n


\* Where a mapping begins or ends no mapping has been begun but not finished.
LEMMA EdgeIsBetween ==
    ASSUME TypeOK, NEW i \in DOMAIN layout, NEW c,
           c = layout[i].addr \/ c = layout[i].addr + layout[i].size
    PROVE  \A j \in DOMAIN layout :
               c <= layout[j].addr \/ layout[j].addr + layout[j].size <= c
<1> TAKE j \in DOMAIN layout
<1>1. /\ i \in Nat /\ layout[i].addr \in Nat /\ layout[i].size \in Nat
      /\ j \in Nat /\ layout[j].addr \in Nat /\ layout[j].size \in Nat
      /\ (i < j => layout[i].addr + layout[i].size <= layout[j].addr)
      /\ (j < i => layout[j].addr + layout[j].size <= layout[i].addr)
  BY LayoutFacts
<1>2. CASE i < j
  BY <1>1, <1>2
<1>3. CASE j < i
  BY <1>1, <1>3
<1>4. CASE i = j
  BY <1>1, <1>4
<1> QED
  BY <1>1, <1>2, <1>3, <1>4

(***************************************************************************)
(* searchPlanMapping: a part of the range that is skipped has no readable  *)
(* byte and ends between mappings; a mapping that is read holds the        *)
(* cursor.                                                                 *)
(***************************************************************************)
LEMMA PlanFacts ==
    ASSUME TypeOK, cursor < end, NEW p,
           p = searchPlanMapping(cursor, end, queryMapping(layout, cursor))
    PROVE  /\ p.action # "invalid" => p.end \in Nat /\ cursor < p.end /\ p.end <= end
           /\ p.action = "skip" =>
                  /\ \A a \in Nat, j \in DOMAIN layout :
                         cursor <= a /\ a < p.end /\ Holds(j, a) => ~layout[j].readable
                  /\ \/ p.end = end
                     \/ \A j \in DOMAIN layout :
                            p.end <= layout[j].addr \/ layout[j].addr + layout[j].size <= p.end
           /\ p.action = "read" =>
                  \E i \in DOMAIN layout :
                      /\ layout[i].readable /\ Holds(i, cursor)
                      /\ p.end = Least(layout[i].addr + layout[i].size, end)
<1>1. PICK i \in DOMAIN layout :
          /\ queryMapping(layout, cursor) = layout[i]
          /\ cursor < layout[i].addr + layout[i].size
          /\ \A j \in DOMAIN layout :
                 cursor < layout[j].addr + layout[j].size => i <= j
  BY QueryFacts
<1> DEFINE m == layout[i]
<1>2. m.addr \in Nat /\ m.addr < AddressLimit /\ m.size \in Nat \ {0} /\ m.readable \in BOOLEAN
  BY LayoutFacts
<1>3. cursor \in Nat /\ end \in Nat
  BY RequestFacts
<1>4. ASSUME NEW a \in Nat, cursor <= a, NEW j \in DOMAIN layout, Holds(j, a)
      PROVE  j = i \/ m.addr + m.size <= layout[j].addr
  <2>1. layout[j].addr \in Nat /\ layout[j].size \in Nat
    BY LayoutFacts
  <2>2. cursor < layout[j].addr + layout[j].size
    BY <1>3, <1>4, <2>1 DEF Holds
  <2>3. i <= j /\ i \in Nat /\ j \in Nat
    BY <1>1, <2>2, LayoutFacts
  <2>4. i < j => m.addr + m.size <= layout[j].addr
    BY LayoutFacts
  <2> QED
    BY <2>3, <2>4
<1>5. CASE EndOf(m) <= m.addr
  <2>1. p = [action |-> "invalid", end |-> cursor]
    BY <1>1, <1>5 DEF searchPlanMapping
  <2>2. p.action = "invalid"
    BY <2>1
  <2> QED
    BY <2>2
<1>6. CASE EndOf(m) > m.addr /\ m.addr > cursor
  <2>1. p = [action |-> "skip", end |-> Least(m.addr, end)]
    <3>1. ~(cursor >= end \/ m.size = 0 \/ EndOf(m) <= m.addr)
      <4>1. EndOf(m) \in Int
        BY <1>2, <1>6, EndFacts
      <4> QED
        BY <4>1, <1>2, <1>3, <1>6
    <3> QED
      BY <3>1, <1>1, <1>6 DEF searchPlanMapping
  <2>2. p.action = "skip" /\ p.end = Least(m.addr, end)
    BY <2>1
  <2>3. p.end \in Nat /\ cursor < p.end /\ p.end <= end /\ p.end <= m.addr
        /\ (p.end = m.addr \/ p.end = end)
    BY <2>2, <1>2, <1>3, <1>6 DEF Least
  <2>4. ASSUME NEW a \in Nat, cursor <= a, a < p.end, NEW j \in DOMAIN layout, Holds(j, a)
        PROVE  FALSE
    <3>1. j = i \/ m.addr + m.size <= layout[j].addr
      BY <2>4, <1>4
    <3>2. layout[j].addr <= a /\ layout[j].addr \in Nat
      BY <2>4, LayoutFacts DEF Holds
    <3> QED
      BY <3>1, <3>2, <2>3, <2>4, <1>2
  <2>5. \/ p.end = end
        \/ \A j \in DOMAIN layout :
               p.end <= layout[j].addr \/ layout[j].addr + layout[j].size <= p.end
    BY <2>3, EdgeIsBetween
  <2> QED
    BY <2>2, <2>3, <2>4, <2>5
<1>7. CASE EndOf(m) > m.addr /\ m.addr <= cursor
  <2> DEFINE e == Least(m.addr + m.size, end)
  <2>1. EndOf(m) = m.addr + m.size
    BY <1>7, EndFacts
  <2>2. e \in Nat /\ cursor < e /\ e <= end /\ e <= m.addr + m.size
        /\ (e = m.addr + m.size \/ e = end)
    BY <1>1, <1>2, <1>3 DEF Least
  <2>3. p = [action |-> IF m.readable THEN "read" ELSE "skip", end |-> e]
    <3>1. ~(cursor >= end \/ m.size = 0 \/ EndOf(m) <= m.addr) /\ ~(m.addr > cursor)
          /\ ~(e <= cursor)
      BY <2>1, <2>2, <1>2, <1>3, <1>7
    <3> QED
      BY <3>1, <2>1, <1>1 DEF searchPlanMapping
  <2>4. p.end = e /\ p.action = IF m.readable THEN "read" ELSE "skip"
    BY <2>3
  <2>5. ASSUME ~m.readable, NEW a \in Nat, cursor <= a, a < e, NEW j \in DOMAIN layout, Holds(j, a)
        PROVE  ~layout[j].readable
    <3>1. j = i \/ m.addr + m.size <= layout[j].addr
      BY <2>5, <1>4
    <3>2. layout[j].addr <= a /\ layout[j].addr \in Nat
      BY <2>5, LayoutFacts DEF Holds
    <3>3. j = i
      BY <3>1, <3>2, <2>2, <2>5, <1>2
    <3> QED
      BY <3>3, <2>5
  <2>6. \/ e = end
        \/ \A j \in DOMAIN layout :
               e <= layout[j].addr \/ layout[j].addr + layout[j].size <= e
    <3> HIDE DEF e
    <3> QED
      BY <2>2, EdgeIsBetween
  <2> HIDE DEF e
  <2>7. CASE m.readable
    <3>1. p.action = "read" /\ p.end = e
      BY <2>4, <2>7
    <3>2. Holds(i, cursor)
      BY <1>1, <1>7 DEF Holds
    <3> QED
      BY <3>1, <3>2, <2>2, <2>7 DEF e
  <2>8. CASE ~m.readable
    <3>1. p.action = "skip" /\ p.end = e
      BY <2>4, <2>8
    <3> QED
      BY <3>1, <2>2, <2>5, <2>6, <2>8
  <2> QED
    BY <2>7, <2>8
<1> QED
  <2>1. EndOf(m) \in Int
    BY <1>2, RangeAssumption DEF EndOf
  <2> QED
    BY <2>1, <1>2, <1>3, <1>5, <1>6, <1>7


-----------------------------------------------------------------------------
(* What has been found.                                                    *)

Found    == {a \in start .. end - 1 : Occurs(a, cursor)}
Listed   == /\ totalMatches = Len(Ascending(Found))
            /\ results = SubSeq(Ascending(Found), 1, Least(MaxResults, Len(Ascending(Found))))
            /\ truncated <=> Len(Ascending(Found)) > MaxResults

\* What a chunk is combined with the carried bytes to, and the matches in it.
Combined == buffer \o [i \in 1 .. amount |-> memory[cursor + i - 1]]
Hits     == {a \in Run .. Run + Len(Combined) - Len(pattern) :
                 /\ a % alignment = 0
                 /\ \A i \in DOMAIN pattern : Combined[a - Run + i] = pattern[i]}

LEMMA ExactIsListed == ResultsAreExact <=> Listed
  BY DEF ResultsAreExact, Listed, Found

\* The occurrences are finitely many numbers.
LEMMA FoundFinite ==
    ASSUME TypeOK
    PROVE  Found \in SUBSET Int /\ IsFiniteSet(Found)
<1>1. start \in Int /\ end - 1 \in Int
  BY RequestFacts
<1>2. Found \in SUBSET (start .. end - 1) /\ IsFiniteSet(start .. end - 1)
  BY <1>1, FS_Interval DEF Found
<1>3. IsFiniteSet(Found)
  BY <1>2, FS_Subset
<1> QED
  BY <1>2, <1>3

\* The bytes of an occurrence were read, and lie in one readable mapping.
LEMMA OccurrenceFacts ==
    ASSUME TypeOK, NEW a \in start .. end - 1, NEW c \in Int, Occurs(a, c),
           NEW b \in a .. a + Len(pattern) - 1
    PROVE  /\ a \in Nat /\ b \in Nat /\ b \notin unread /\ b < c
           /\ \E i \in DOMAIN layout : layout[i].readable /\ Holds(i, b) /\ Holds(i, a)
<1>1. start \in Nat /\ end \in Nat /\ Len(pattern) \in Nat \ {0}
      /\ DOMAIN pattern = 1 .. Len(pattern)
  BY RequestFacts
<1>2. a \in Nat /\ b \in Nat
  BY <1>1
<1>3. b - a + 1 \in DOMAIN pattern /\ a + (b - a + 1) - 1 = b
  BY <1>1, <1>2
<1>4. b \notin unread
  BY <1>3 DEF Occurs
<1>5. b < c
  BY <1>1, <1>2 DEF Occurs
<1>6. PICK i \in DOMAIN layout :
          /\ layout[i].readable /\ layout[i].addr <= a
          /\ a + Len(pattern) <= layout[i].addr + layout[i].size
  BY DEF Occurs
<1>7. layout[i].addr \in Nat /\ layout[i].size \in Nat
  BY LayoutFacts
<1>8. Holds(i, b) /\ Holds(i, a)
  BY <1>1, <1>2, <1>6, <1>7 DEF Holds
<1> QED
  BY <1>2, <1>4, <1>5, <1>6, <1>8

\* The last byte of an occurrence that is found by one step lies in what the step passes.
LEMMA LastByte ==
    ASSUME TypeOK, NEW a \in start .. end - 1, NEW c \in Int, Occurs(a, c), ~Occurs(a, cursor)
    PROVE  /\ a + Len(pattern) - 1 \in a .. a + Len(pattern) - 1
           /\ cursor <= a + Len(pattern) - 1 /\ a + Len(pattern) - 1 < c
<1>1. start \in Nat /\ end \in Nat /\ Len(pattern) \in Nat \ {0} /\ cursor \in Nat
  BY RequestFacts
<1>2. a + Len(pattern) <= c
  BY DEF Occurs
<1>3. ~(a + Len(pattern) <= cursor)
  BY DEF Occurs
<1> QED
  BY <1>1, <1>2, <1>3

\* What is found stays found when the cursor moves on.
LEMMA OccursLater ==
    ASSUME TypeOK, NEW a \in start .. end - 1, NEW c \in Int, cursor <= c, Occurs(a, cursor)
    PROVE  Occurs(a, c)
<1>1. a + Len(pattern) \in Int /\ cursor \in Int
  BY RequestFacts
<1>2. a + Len(pattern) <= cursor
  BY DEF Occurs
<1>3. a + Len(pattern) <= c
  BY <1>1, <1>2
<1> QED
  BY <1>3 DEF Occurs


-----------------------------------------------------------------------------
(* The steps.                                                              *)

\* If nothing new is found and nothing is reported, the report stays exact.
LEMMA ListedKept ==
    ASSUME Listed, Found' = Found, UNCHANGED <<results, totalMatches, truncated>>
    PROVE  Listed'
<1>1. /\ totalMatches' = Len(Ascending(Found))
      /\ results' = SubSeq(Ascending(Found), 1, Least(MaxResults, Len(Ascending(Found))))
      /\ truncated' <=> Len(Ascending(Found)) > MaxResults
  BY DEF Listed
<1> QED
  BY <1>1 DEF Listed

\* Occurs speaks of the request and the failed reads.
LEMMA OccursSame ==
    ASSUME UNCHANGED <<request, unread>>, NEW a, NEW c
    PROVE  Occurs(a, c)' <=> Occurs(a, c)
<1>1. UNCHANGED <<memory, layout, pattern, alignment, unread>>
  BY DEF request
<1> QED
  BY <1>1 DEF Occurs

LEMMA Start == Init => IndInv
<1> SUFFICES ASSUME Init PROVE IndInv
  OBVIOUS
<1>1. PICK r \in Ranges : start = r[1] /\ end = r[2] /\ Len(pattern) <= r[2] - r[1]
  BY DEF Init
<1>2. layout \in Layouts /\ pattern \in Patterns /\ alignment \in Alignments
      /\ memory \in [start .. end - 1 -> Bytes]
      /\ cursor = start /\ mappingEnd = start /\ buffer = <<>> /\ unread = {}
  BY DEF Init
<1>3. r \in Addresses \X Addresses /\ AddressLimit \in Nat \ {0}
  BY ExactAssumption, RangeAssumption
<1>4. r = <<start, end>> /\ start \in Nat /\ end \in Nat
  BY <1>1, <1>3 DEF Addresses
<1>5. pattern \in Seq(Bytes) /\ Len(pattern) > 0
  BY <1>2, ExactAssumption
<1>6. start < end
  <2>1. Len(pattern) \in Nat
    BY <1>5
  <2> QED
    BY <1>1, <1>4, <1>5, <2>1
<1>7. TypeOK
  <2>1. <<start, end>> \in Ranges
    BY <1>4
  <2>2. cursor \in start .. end /\ mappingEnd \in start .. end
    BY <1>2, <1>4, <1>6
  <2> QED
    BY <1>2, <1>6, <2>1, <2>2 DEF TypeOK
<1>8. Position
  BY <1>2, <1>4 DEF Position, Between
<1>9. Found = {}
  <2>1. SUFFICES ASSUME NEW a \in start .. end - 1, Occurs(a, cursor) PROVE FALSE
    BY DEF Found
  <2>2. a + Len(pattern) <= start /\ Len(pattern) \in Nat
    BY <2>1, <1>2, <1>5 DEF Occurs
  <2> QED
    BY <2>2, <1>4, <1>5
<1>10. Ascending(Found) = <<>>
  <2>1. <<>> \in Seq({}) /\ Len(<<>>) = 0
    OBVIOUS
  <2>2. {} \in SUBSET Int /\ <<>> \in Seq({}) /\ (\A x \in {} : \E i \in 1 .. Len(<<>>) : <<>>[i] = x)
        /\ \A i, j \in 1 .. Len(<<>>) : i < j => <<>>[i] < <<>>[j]
    BY <2>1
  <2>3. <<>> = Ascending({})
    BY <2>2, AscendingIsUnique
  <2> QED
    BY <2>3, <1>9
<1>11. Listed
  <2>1. results = <<>> /\ totalMatches = 0 /\ ~truncated
    BY DEF Init
  <2>2. MaxResults \in Nat
    BY ExactAssumption
  <2>3. Least(MaxResults, 0) = 0
    BY <2>2 DEF Least
  <2>4. SubSeq(<<>>, 1, 0) = <<>> /\ Len(<<>>) = 0
    OBVIOUS
  <2> QED
    BY <1>10, <2>1, <2>2, <2>3, <2>4 DEF Listed
<1> QED
  BY <1>7, <1>8, <1>11, ExactIsListed DEF IndInv

\* The head of the outer loop.
LEMMA PlanKeeps ==
    ASSUME IndInv, Plan
    PROVE  IndInv'
<1> DEFINE p == searchPlanMapping(cursor, end, queryMapping(layout, cursor))
<1>1. TypeOK /\ Position /\ Listed
  BY ExactIsListed DEF IndInv
<1>2. /\ cursor < end /\ cursor >= mappingEnd
      /\ UNCHANGED <<request, output>>
      /\ UNCHANGED <<memory, layout, pattern, alignment, start, end, results, totalMatches,
                     truncated, unread>>
  BY DEF Plan, proceeding, request, output
<1>3. /\ start \in Nat /\ end \in Nat /\ cursor \in start .. end /\ mappingEnd \in start .. end
      /\ cursor \in Nat
  BY <1>1, RequestFacts
<1>4. Between
  BY <1>1, <1>2, <1>3 DEF Position
<1>5. CASE UNCHANGED <<cursor, mappingEnd, buffer>>
  <2>1. TypeOK'
    BY <1>1, <1>2, <1>5 DEF TypeOK
  <2>2. Position'
    BY <1>2, <1>3, <1>4, <1>5 DEF Position, Between
  <2>3. Found' = Found
    BY <1>2, <1>5, OccursSame DEF Found
  <2>4. Listed'
    BY <1>1, <1>2, <2>3, ListedKept
  <2>5. ResultsAreExact'
    BY <2>4, ExactIsListed, PTL
  <2> QED
    BY <2>1, <2>2, <2>5 DEF IndInv
<1>6. CASE p.action = "skip" /\ PassOver(p.end)
  <2>1. cursor' = p.end /\ UNCHANGED <<mappingEnd, buffer>>
    BY <1>6 DEF PassOver
  <2>2. /\ p.end \in Nat /\ cursor < p.end /\ p.end <= end
        /\ \A a \in Nat, j \in DOMAIN layout :
               cursor <= a /\ a < p.end /\ Holds(j, a) => ~layout[j].readable
        /\ \/ p.end = end
           \/ \A j \in DOMAIN layout :
                  p.end <= layout[j].addr \/ layout[j].addr + layout[j].size <= p.end
    BY <1>1, <1>2, <1>6, PlanFacts
  <2> HIDE DEF p
  <2>3. TypeOK'
    <3>1. cursor' \in start .. end
      BY <2>1, <2>2, <1>3
    <3>2. unread \subseteq start .. p.end - 1
      BY <1>1, <1>3, <2>2 DEF TypeOK
    <3> QED
      BY <1>1, <1>2, <2>1, <3>1, <3>2 DEF TypeOK
  <2>4. Position'
    <3>1. ~(cursor' < mappingEnd')
      BY <1>2, <1>3, <2>1, <2>2
    <3>2. Between'
      BY <1>2, <2>1, <2>2 DEF Between
    <3> QED
      BY <3>1, <3>2 DEF Position
  <2>5. \A a \in start .. end - 1 : Occurs(a, cursor)' <=> Occurs(a, cursor)
    <3> TAKE a \in start .. end - 1
    <3>1. Occurs(a, cursor)' <=> Occurs(a, p.end)
      BY <1>2, <2>1 DEF Occurs
    <3>2. Occurs(a, cursor) => Occurs(a, p.end)
      BY <1>1, <1>3, <2>2, OccursLater
    <3>3. ASSUME Occurs(a, p.end), ~Occurs(a, cursor) PROVE FALSE
      <4> DEFINE b == a + Len(pattern) - 1
      <4>1. b \in a .. a + Len(pattern) - 1 /\ cursor <= b /\ b < p.end
        BY <1>1, <2>2, <3>3, LastByte
      <4>2. /\ b \in Nat
            /\ \E i \in DOMAIN layout : layout[i].readable /\ Holds(i, b)
        BY <1>1, <2>2, <3>3, <4>1, OccurrenceFacts
      <4> HIDE DEF b
      <4> QED
        BY <2>2, <4>1, <4>2
    <3> QED
      BY <3>1, <3>2, <3>3
  <2>6. Found' = Found
    BY <1>2, <2>5 DEF Found
  <2>7. Listed'
    BY <1>1, <1>2, <2>6, ListedKept
  <2>8. ResultsAreExact'
    BY <2>7, ExactIsListed, PTL
  <2> QED
    BY <2>3, <2>4, <2>8 DEF IndInv
<1>7. CASE p.action = "read" /\ mappingEnd' = p.end /\ buffer' = <<>> /\ UNCHANGED cursor
  <2>1. p.end \in Nat /\ cursor < p.end /\ p.end <= end
    BY <1>1, <1>2, <1>7, PlanFacts
  <2>2. PICK i \in DOMAIN layout :
            /\ layout[i].readable /\ Holds(i, cursor)
            /\ p.end = Least(layout[i].addr + layout[i].size, end)
    BY <1>1, <1>2, <1>7, PlanFacts
  <2> HIDE DEF p
  <2>3. layout[i].addr \in Nat /\ layout[i].size \in Nat
    BY <1>1, LayoutFacts
  <2>4. cursor = start \/ cursor = layout[i].addr
    BY <1>2, <1>3, <1>4, <2>2, <2>3 DEF Between, Holds
  <2>5. TypeOK'
    <3>1. mappingEnd' \in start .. end /\ <<>> \in Seq(Bytes)
      BY <2>1, <1>7, <1>3
    <3> QED
      BY <1>1, <1>2, <1>7, <3>1 DEF TypeOK
  <2>6. Run' = cursor
    BY <1>7, <1>3 DEF Run
  <2>7. Carries(i)'
    <3>1. Len(pattern) \in Nat \ {0}
      BY <1>1, RequestFacts
    <3>2. buffer' = <<>> /\ Len(<<>>) = 0 /\ DOMAIN <<>> = {}
      BY <1>7
    <3>3. start <= cursor /\ layout[i].addr <= cursor
      BY <1>3, <2>2, <2>3 DEF Holds
    <3> QED
      BY <1>2, <1>7, <2>2, <2>4, <2>6, <3>1, <3>2, <3>3 DEF Carries
  <2>8. Position'
    <3>1. i \in (DOMAIN layout)' /\ cursor' < mappingEnd'
      BY <1>2, <1>7, <2>1
    <3> QED
      BY <3>1, <2>7 DEF Position
  <2>9. Found' = Found
    BY <1>2, <1>7, OccursSame DEF Found
  <2>10. Listed'
    BY <1>1, <1>2, <2>9, ListedKept
  <2>11. ResultsAreExact'
    BY <2>10, ExactIsListed, PTL
  <2> QED
    BY <2>5, <2>8, <2>11 DEF IndInv
<1> QED
  BY <1>5, <1>6, <1>7 DEF Plan


\* What is known of a chunk.
LEMMA ChunkFacts ==
    ASSUME TypeOK, Position, cursor < mappingEnd
    PROVE  /\ amount \in Nat \ {0} /\ cursor + amount <= mappingEnd
           /\ cursor + amount \in start .. end
           /\ \E i \in DOMAIN layout :
                  /\ Carries(i)
                  /\ layout[i].addr \in Nat /\ layout[i].size \in Nat
                  /\ mappingEnd <= layout[i].addr + layout[i].size
                  /\ \A b \in cursor .. cursor + amount - 1 : Holds(i, b)
<1>1. /\ start \in Nat /\ end \in Nat /\ cursor \in start .. end /\ mappingEnd \in start .. end
      /\ cursor \in Nat /\ mappingEnd \in Nat /\ Chunk \in Nat \ {0}
      /\ Run = cursor - Len(buffer) /\ Len(buffer) \in Nat
  BY RequestFacts
<1>2. amount \in Nat \ {0} /\ cursor + amount <= mappingEnd
  BY <1>1 DEF amount, Least
<1>3. PICK i \in DOMAIN layout : Carries(i)
  BY DEF Position
<1>4. layout[i].addr \in Nat /\ layout[i].size \in Nat
  BY LayoutFacts
<1>5. mappingEnd <= layout[i].addr + layout[i].size
  BY <1>1, <1>3, <1>4 DEF Carries, Least
<1>6. layout[i].addr <= cursor
  BY <1>1, <1>3, <1>4 DEF Carries
<1>7. \A b \in cursor .. cursor + amount - 1 : Holds(i, b)
  <2> TAKE b \in cursor .. cursor + amount - 1
  <2> QED
    BY <1>1, <1>2, <1>4, <1>5, <1>6 DEF Holds
<1>8. cursor + amount \in start .. end
  BY <1>1, <1>2
<1> QED
  BY <1>2, <1>3, <1>4, <1>5, <1>7, <1>8

\* The end of a mapping, reached, is between mappings.
LEMMA MappingFinished ==
    ASSUME TypeOK, NEW i \in DOMAIN layout, Carries(i)
    PROVE  \/ mappingEnd = end
           \/ \A j \in DOMAIN layout :
                  mappingEnd <= layout[j].addr \/ layout[j].addr + layout[j].size <= mappingEnd
<1>1. mappingEnd = Least(layout[i].addr + layout[i].size, end)
  BY DEF Carries
<1>2. mappingEnd = layout[i].addr + layout[i].size \/ mappingEnd = end
  BY <1>1 DEF Least
<1> QED
  BY <1>2, EdgeIsBetween

\* A chunk that cannot be read.
LEMMA SkipChunkKeeps ==
    ASSUME IndInv, SkipChunk
    PROVE  IndInv'
<1> DEFINE c == cursor + amount
           G == cursor .. cursor + amount - 1
<1>1. TypeOK /\ Position /\ Listed
  BY ExactIsListed DEF IndInv
<1>2. /\ cursor < mappingEnd
      /\ cursor' = c /\ buffer' = <<>> /\ unread' = unread \cup G
      /\ UNCHANGED <<memory, layout, pattern, alignment, start, end, mappingEnd, results,
                     totalMatches, truncated>>
  <2>1. UNCHANGED <<memory, layout, pattern, alignment, start, end>>
    BY DEF SkipChunk, request
  <2>2. /\ cursor < mappingEnd
        /\ cursor' = cursor + amount /\ buffer' = <<>>
        /\ unread' = unread \cup cursor .. cursor + amount - 1
        /\ UNCHANGED <<mappingEnd, results, totalMatches, truncated>>
    BY DEF SkipChunk
  <2> QED
    BY <2>1, <2>2
<1>3. /\ start \in Nat /\ end \in Nat /\ cursor \in start .. end /\ cursor \in Nat
      /\ mappingEnd \in Nat /\ Len(pattern) \in Nat \ {0}
  BY <1>1, RequestFacts
<1>4. PICK i \in DOMAIN layout :
          /\ Carries(i)
          /\ layout[i].addr \in Nat /\ layout[i].size \in Nat
          /\ \A b \in G : Holds(i, b)
  <2>1. PICK i \in DOMAIN layout :
            /\ Carries(i)
            /\ layout[i].addr \in Nat /\ layout[i].size \in Nat
            /\ mappingEnd <= layout[i].addr + layout[i].size
            /\ \A b \in cursor .. cursor + amount - 1 : Holds(i, b)
    BY <1>1, <1>2, ChunkFacts, Zenon
  <2> QED
    BY <2>1
<1>5. /\ c \in start .. end /\ c \in Nat /\ cursor < c /\ c <= mappingEnd
      /\ G = cursor .. c - 1
  <2>1. amount \in Nat \ {0} /\ cursor + amount <= mappingEnd /\ cursor + amount \in start .. end
    BY <1>1, <1>2, ChunkFacts
  <2> QED
    BY <2>1, <1>3
<1> HIDE DEF c, G
<1>6. TypeOK'
  <2>1. unread' \subseteq start .. c - 1
    BY <1>1, <1>2, <1>3, <1>5 DEF TypeOK
  <2> QED
    BY <1>1, <1>2, <1>5, <2>1 DEF TypeOK
<1>7. Run' = c
  <2>1. Len(<<>>) = 0
    OBVIOUS
  <2> QED
    BY <1>2, <1>5, <2>1 DEF Run
<1>8. Position'
  <2>1. CASE c < mappingEnd
    <3>1. start <= c /\ layout[i].addr <= c
      <4>1. cursor \in G
        BY <1>3, <1>5
      <4>2. layout[i].addr <= cursor
        BY <1>4, <4>1 DEF Holds
      <4> QED
        BY <1>3, <1>4, <1>5, <4>2
    <3>2. buffer' = <<>> /\ Len(<<>>) = 0 /\ DOMAIN <<>> = {}
      BY <1>2
    <3>3. Run' - 1 \in unread'
      <4>1. c - 1 \in G
        BY <1>3, <1>5
      <4> QED
        BY <4>1, <1>2, <1>7
    <3>4. mappingEnd = Least(layout[i].addr + layout[i].size, end) /\ layout[i].readable
      BY <1>4 DEF Carries
    <3>5. Carries(i)'
      BY <1>2, <1>3, <1>7, <3>1, <3>2, <3>3, <3>4 DEF Carries
    <3> QED
      BY <1>2, <2>1, <3>5 DEF Position
  <2>2. CASE c = mappingEnd
    <3>1. Between'
      BY <1>1, <1>2, <1>4, <2>2, MappingFinished DEF Between
    <3>2. ~(cursor' < mappingEnd')
      BY <1>2, <1>3, <2>2
    <3> QED
      BY <3>1, <3>2 DEF Position
  <2> QED
    BY <1>3, <1>5, <2>1, <2>2
<1>9. \A a \in start .. end - 1 : Occurs(a, cursor)' <=> Occurs(a, cursor)
  <2> TAKE a \in start .. end - 1
  <2>1. Occurs(a, cursor)' =
            /\ Occurs(a, c)
            /\ \A k \in DOMAIN pattern : a + k - 1 \notin G
    BY <1>2 DEF Occurs
  <2>2. ASSUME Occurs(a, cursor) PROVE Occurs(a, cursor)'
    <3>1. Occurs(a, c)
      BY <1>1, <1>3, <1>5, <2>2, OccursLater
    <3>2. ASSUME NEW k \in DOMAIN pattern PROVE a + k - 1 \notin G
      <4>1. a + Len(pattern) <= cursor /\ a \in Nat /\ k \in 1 .. Len(pattern)
        BY <1>1, <1>3, <2>2, RequestFacts DEF Occurs
      <4> QED
        BY <4>1, <1>3, <1>5
    <3> QED
      BY <2>1, <3>1, <3>2
  <2>3. ASSUME Occurs(a, cursor)', ~Occurs(a, cursor) PROVE FALSE
    <3>1. Occurs(a, c) /\ \A k \in DOMAIN pattern : a + k - 1 \notin G
      BY <2>1, <2>3
    <3>2. cursor <= a + Len(pattern) - 1 /\ a + Len(pattern) - 1 < c
      BY <1>1, <1>5, <2>3, <3>1, LastByte
    <3>3. Len(pattern) \in DOMAIN pattern
      BY <1>1, <1>3, RequestFacts
    <3>4. a + Len(pattern) - 1 \in G
      BY <3>2, <1>3, <1>5
    <3> QED
      BY <3>1, <3>3, <3>4
  <2> QED
    BY <2>2, <2>3
<1>10. Found' = Found
  BY <1>2, <1>9 DEF Found
<1>11. Listed'
  BY <1>1, <1>2, <1>10, ListedKept
<1>12. ResultsAreExact'
  BY <1>11, ExactIsListed, PTL
<1> QED
  BY <1>6, <1>8, <1>12 DEF IndInv

\* Cancelling, losing the process and finishing leave the scan where it is.
LEMMA OthersKeep ==
    ASSUME IndInv, UNCHANGED <<request, cursor, mappingEnd, buffer, output>>
    PROVE  IndInv'
<1>1. TypeOK /\ Position /\ Listed
  BY ExactIsListed DEF IndInv
<1>2. /\ UNCHANGED <<request, unread>>
      /\ UNCHANGED <<memory, layout, pattern, alignment, start, end, cursor, mappingEnd, buffer,
                     results, totalMatches, truncated, unread>>
  BY DEF request, output
<1>3. TypeOK'
  BY <1>1, <1>2 DEF TypeOK
<1>4. Position'
  BY <1>1, <1>2 DEF Position, Between, Carries, Run
<1>5. Found' = Found
  BY <1>2, OccursSame DEF Found
<1>6. Listed'
  BY <1>1, <1>2, <1>5, ListedKept
<1>7. ResultsAreExact'
  BY <1>6, ExactIsListed, PTL
<1> QED
  BY <1>3, <1>4, <1>7 DEF IndInv


LEMMA SeqOfInts == ASSUME NEW S \in SUBSET Int, NEW q \in Seq(S) PROVE q \in Seq(Int)
<1>1. Len(q) \in Nat /\ q = [i \in 1 .. Len(q) |-> q[i]] /\ \A i \in 1 .. Len(q) : q[i] \in S
  OBVIOUS
<1>2. \A i \in 1 .. Len(q) : q[i] \in Int
  BY <1>1
<1> DEFINE n == Len(q)
<1>3. n \in Nat /\ q \in [1 .. n -> Int]
  BY <1>1, <1>2
<1> QED
  BY <1>3

\* recordMatch keeps the first MaxResults of all matches.
LEMMA Recording ==
    ASSUME NEW A \in Seq(Int), NEW F \in Seq(Int), MaxResults \in Nat,
           results = SubSeq(A, 1, Least(MaxResults, Len(A)))
    PROVE  /\ Len(A \o F) = Len(A) + Len(F)
           /\ Len(results) = Least(MaxResults, Len(A))
           /\ SubSeq(results \o F, 1, Least(MaxResults, Len(results) + Len(F)))
                  = SubSeq(A \o F, 1, Least(MaxResults, Len(A \o F)))
           /\ (Len(A) > MaxResults \/ Len(results) + Len(F) > MaxResults) <=> Len(A \o F) > MaxResults
<1>1. Len(A) \in Nat /\ Len(F) \in Nat
  OBVIOUS
<1>2. A \o F \in Seq(Int) /\ Len(A \o F) = Len(A) + Len(F)
  OBVIOUS
<1>3. CASE Len(A) <= MaxResults
  <2>1. Least(MaxResults, Len(A)) = Len(A)
    BY <1>1, <1>3 DEF Least
  <2>2. results = A
    <3>1. SubSeq(A, 1, Len(A)) = A
      OBVIOUS
    <3> QED
      BY <2>1, <3>1
  <2>3. ~(Len(A) > MaxResults)
    BY <1>1, <1>3
  <2> QED
    BY <1>2, <2>1, <2>2, <2>3
<1>4. CASE Len(A) > MaxResults
  <2> DEFINE k == Least(MaxResults, Len(results) + Len(F))
             l == Least(MaxResults, Len(A) + Len(F))
  <2>1. Least(MaxResults, Len(A)) = MaxResults /\ results = SubSeq(A, 1, MaxResults)
    BY <1>1, <1>4 DEF Least
  <2>2. results \in Seq(Int) /\ Len(results) = MaxResults /\ \A i \in 1 .. MaxResults : results[i] = A[i]
    BY <1>1, <1>4, <2>1
  <2>3. k = MaxResults /\ l = MaxResults
    BY <1>1, <1>4, <2>2 DEF Least
  <2>4. results \o F \in Seq(Int) /\ Len(results \o F) = MaxResults + Len(F)
        /\ \A i \in 1 .. MaxResults : (results \o F)[i] = results[i] /\ (A \o F)[i] = A[i]
    BY <1>1, <1>4, <2>2
  <2>5. SubSeq(results \o F, 1, MaxResults) = [i \in 1 .. MaxResults |-> (results \o F)[i]]
    BY <1>1, <2>4
  <2>6. SubSeq(A \o F, 1, MaxResults) = [i \in 1 .. MaxResults |-> (A \o F)[i]]
    BY <1>1, <1>2, <1>4
  <2>7. SubSeq(results \o F, 1, MaxResults) = SubSeq(A \o F, 1, MaxResults)
    BY <2>2, <2>4, <2>5, <2>6, ZenonT(40)
  <2>8. Len(A) + Len(F) > MaxResults
    BY <1>1, <1>4
  <2>9. Least(MaxResults, Len(results) + Len(F)) = MaxResults /\ Least(MaxResults, Len(A \o F)) = MaxResults
    BY <1>2, <2>3
  <2>10. Len(A \o F) > MaxResults
    BY <1>2, <2>8
  <2>11. Len(results) = Least(MaxResults, Len(A))
    BY <2>1, <2>2
  <2> QED
    BY <1>2, <1>4, <2>7, <2>9, <2>10, <2>11, Zenon
<1>5. Len(A) <= MaxResults \/ Len(A) > MaxResults
  BY <1>1
<1> QED
  BY <1>3, <1>4, <1>5

\* The combined buffer is what the memory holds from bufferAddress to the end of the chunk.
LEMMA CombinedFacts ==
    ASSUME TypeOK, Position, cursor < mappingEnd, NEW i \in DOMAIN layout, Carries(i)
    PROVE  /\ Combined \in Seq(Bytes) /\ Len(Combined) = Len(buffer) + amount
           /\ Run + Len(Combined) = cursor + amount
           /\ \A k \in 1 .. Len(Combined) :
                  Combined[k] = memory[Run + k - 1] /\ Run + k - 1 \notin unread
<1>1. /\ amount \in Nat \ {0} /\ cursor + amount \in start .. end
  BY ChunkFacts
<1>2. /\ start \in Nat /\ end \in Nat /\ cursor \in start .. end /\ cursor \in Nat
      /\ buffer \in Seq(Bytes) /\ Len(buffer) \in Nat /\ DOMAIN buffer = 1 .. Len(buffer)
      /\ Run = cursor - Len(buffer)
  BY RequestFacts
<1> DEFINE new == [k \in 1 .. amount |-> memory[cursor + k - 1]]
<1>3. \A k \in 1 .. amount : cursor + k - 1 \in start .. end - 1
  BY <1>1, <1>2
<1>4. new \in Seq(Bytes) /\ Len(new) = amount
  <2>1. \A k \in 1 .. amount : memory[cursor + k - 1] \in Bytes
    BY <1>3 DEF TypeOK
  <2> QED
    BY <1>1, <2>1
<1>5. \A k \in 1 .. amount : new[k] = memory[cursor + k - 1]
  OBVIOUS
<1> HIDE DEF new
<1>6. Combined = buffer \o new
  BY DEF Combined, new
<1>7. Combined \in Seq(Bytes) /\ Len(Combined) = Len(buffer) + amount
  <2>1. buffer \in Seq(Bytes) /\ new \in Seq(Bytes)
    BY <1>2, <1>4
  <2>2. buffer \o new \in Seq(Bytes) /\ Len(buffer \o new) = Len(buffer) + Len(new)
    BY <2>1
  <2> QED
    BY <2>2, <1>4, <1>6
<1>8. Run + Len(Combined) = cursor + amount
  BY <1>1, <1>2, <1>7
<1>9. ASSUME NEW k \in 1 .. Len(Combined)
      PROVE  Combined[k] = memory[Run + k - 1] /\ Run + k - 1 \notin unread
  <2>1. CASE k <= Len(buffer)
    <3>1. k \in DOMAIN buffer /\ Combined[k] = buffer[k]
      BY <2>1, <1>1, <1>2, <1>4, <1>6, <1>7
    <3> QED
      BY <3>1 DEF Carries
  <2>2. CASE k > Len(buffer)
    <3> DEFINE l == k - Len(buffer)
    <3>1. l \in 1 .. amount /\ k = Len(buffer) + l /\ Run + k - 1 = cursor + l - 1
          /\ cursor + l - 1 > cursor - 1
      BY <2>2, <1>1, <1>2, <1>7
    <3> HIDE DEF l
    <3>2. Combined[Len(buffer) + l] = new[l]
      BY <3>1, <1>1, <1>2, <1>4, <1>6
    <3>3. Combined[k] = memory[Run + k - 1]
      BY <3>1, <3>2, <1>5
    <3>4. \A u \in unread : u \in Int /\ u <= cursor - 1
      BY <1>2 DEF TypeOK
    <3>5. Run + k - 1 \notin unread
      <4>1. cursor + l - 1 \in Int /\ cursor - 1 \in Int
        BY <3>1, <1>2
      <4> QED
        BY <3>1, <3>4, <4>1, <1>2
    <3> QED
      BY <3>3, <3>5
  <2> QED
    BY <1>1, <1>2, <1>7, <2>1, <2>2
<1> QED
  BY <1>7, <1>8, <1>9

\* A match in the buffer is an occurrence, found by this chunk and not before.
LEMMA HitsAreNew ==
    ASSUME TypeOK, Position, cursor < mappingEnd, NEW i \in DOMAIN layout, Carries(i),
           layout[i].addr \in Nat, layout[i].size \in Nat,
           mappingEnd <= layout[i].addr + layout[i].size, NEW a \in Hits
    PROVE  /\ a \in start .. end - 1 /\ a \in Nat
           /\ Occurs(a, cursor + amount) /\ a + Len(pattern) > cursor
<1> DEFINE n == Len(pattern)
           c == cursor + amount
<1>1. /\ amount \in Nat \ {0} /\ c <= mappingEnd /\ c \in start .. end
  BY ChunkFacts
<1>2. /\ start \in Nat /\ end \in Nat /\ cursor \in Nat /\ mappingEnd \in Nat /\ Run \in Int
      /\ Run = cursor - Len(buffer) /\ Len(buffer) \in Nat
      /\ n \in Nat \ {0} /\ DOMAIN pattern = 1 .. n
  BY RequestFacts
<1>3. /\ Len(Combined) = Len(buffer) + amount /\ Run + Len(Combined) = c
      /\ \A k \in 1 .. Len(Combined) :
             Combined[k] = memory[Run + k - 1] /\ Run + k - 1 \notin unread
  BY CombinedFacts
<1>4. start <= Run /\ layout[i].addr <= Run /\ layout[i].readable /\ Len(buffer) < n
  BY DEF Carries
<1>5. /\ a \in Run .. Run + Len(Combined) - n
      /\ a % alignment = 0
      /\ \A k \in DOMAIN pattern : Combined[a - Run + k] = pattern[k]
  BY DEF Hits
<1> HIDE DEF n, c
<1>6. a \in Int /\ Run <= a /\ a + n <= c
  BY <1>1, <1>2, <1>3, <1>5
<1>7. a \in start .. end - 1 /\ a \in Nat
  BY <1>1, <1>2, <1>4, <1>6
<1>8. a + n > cursor
  BY <1>2, <1>4, <1>6
<1>9. ASSUME NEW k \in DOMAIN pattern
      PROVE  memory[a + k - 1] = pattern[k] /\ a + k - 1 \notin unread
  <2>1. a - Run + k \in 1 .. Len(Combined) /\ Run + (a - Run + k) - 1 = a + k - 1
    <3>1. k \in Int /\ 1 <= k /\ k <= n
      BY <1>2
    <3>2. Len(Combined) \in Int /\ Run + Len(Combined) = c /\ c \in Int
      BY <1>1, <1>2, <1>3
    <3>3. a \in Int /\ Run \in Int /\ n \in Int /\ Run <= a /\ a + n <= Run + Len(Combined)
      BY <3>2, <1>2, <1>6
    <3>4. a - Run + k \in 1 .. Len(Combined)
      BY <3>1, <3>2, <3>3, SMT
    <3>5. Run + (a - Run + k) - 1 = a + k - 1
      BY <3>1, <3>3, SMT
    <3> QED
      BY <3>4, <3>5
  <2> QED
    BY <2>1, <1>3, <1>5
<1>10. layout[i].addr <= a /\ a + n <= layout[i].addr + layout[i].size
  BY <1>1, <1>2, <1>4, <1>6
<1>11. Occurs(a, c)
  BY <1>4, <1>5, <1>6, <1>9, <1>10 DEF Occurs, n
<1> QED
  BY <1>7, <1>8, <1>11 DEF n, c

\* An occurrence that this chunk completes is a match in the buffer.
LEMMA NewAreHits ==
    ASSUME TypeOK, Position, cursor < mappingEnd, NEW i \in DOMAIN layout, Carries(i),
           \A b \in cursor .. cursor + amount - 1 : Holds(i, b),
           NEW a \in start .. end - 1, Occurs(a, cursor + amount), ~Occurs(a, cursor)
    PROVE  a \in Hits
<1> DEFINE n == Len(pattern)
           c == cursor + amount
           b == a + n - 1
<1>1. /\ amount \in Nat \ {0} /\ c <= mappingEnd /\ c \in start .. end
  BY ChunkFacts
<1>2. /\ start \in Nat /\ end \in Nat /\ cursor \in Nat /\ mappingEnd \in Nat /\ Run \in Int
      /\ Run = cursor - Len(buffer) /\ Len(buffer) \in Nat
      /\ n \in Nat \ {0} /\ DOMAIN pattern = 1 .. n
  BY RequestFacts
<1>3. /\ Len(Combined) = Len(buffer) + amount /\ Run + Len(Combined) = c
      /\ \A k \in 1 .. Len(Combined) : Combined[k] = memory[Run + k - 1]
  BY CombinedFacts
<1>4. b \in a .. a + n - 1 /\ cursor <= b /\ b < c
  <2>1. c \in Int
    BY <1>1
  <2> QED
    BY <2>1, LastByte
<1>5. /\ a \in Nat /\ b \in Nat
      /\ \A d \in a .. a + n - 1 : d \notin unread
      /\ \E j \in DOMAIN layout : layout[j].readable /\ Holds(j, b) /\ Holds(j, a)
  <2>1. c \in Int
    BY <1>1
  <2> QED
    BY <2>1, <1>4, OccurrenceFacts
<1>6. Holds(i, b) /\ Holds(i, a)
  <2>1. PICK j \in DOMAIN layout : Holds(j, b) /\ Holds(j, a)
    BY <1>5
  <2>2. b \in cursor .. cursor + amount - 1
    BY <1>1, <1>2, <1>4, <1>5
  <2>3. Holds(i, b)
    BY <2>2
  <2>4. i = j
    BY <1>5, <2>1, <2>3, OneMapping
  <2> QED
    BY <2>1, <2>4
<1>7. Occurs(a, c)
  OBVIOUS
<1>8. a + n <= c /\ a % alignment = 0 /\ \A k \in DOMAIN pattern : memory[a + k - 1] = pattern[k]
  BY <1>7 DEF Occurs
<1>9. /\ Len(buffer) = n - 1 \/ Run = start \/ Run = layout[i].addr \/ Run - 1 \in unread
  BY DEF Carries
<1> HIDE DEF b, c, n
<1>10. Run <= a
  <2>1. CASE Len(buffer) = n - 1
    BY <2>1, <1>2, <1>4, <1>5 DEF b
  <2>2. CASE Run = start
    BY <2>2, <1>2, <1>5
  <2>3. CASE Run = layout[i].addr
    BY <2>3, <1>6 DEF Holds
  <2>4. CASE Run - 1 \in unread
    <3>1. SUFFICES ASSUME ~(Run <= a) PROVE FALSE
      OBVIOUS
    <3>2. Run - 1 \in a .. a + n - 1
      BY <3>1, <1>2, <1>4, <1>5 DEF b
    <3> QED
      BY <3>2, <2>4, <1>5
  <2> QED
    BY <1>9, <2>1, <2>2, <2>3, <2>4
<1>11. a \in Run .. Run + Len(Combined) - n
  BY <1>1, <1>2, <1>3, <1>5, <1>8, <1>10
<1>12. \A k \in DOMAIN pattern : Combined[a - Run + k] = pattern[k]
  <2> TAKE k \in DOMAIN pattern
  <2>1. a - Run + k \in 1 .. Len(Combined) /\ Run + (a - Run + k) - 1 = a + k - 1
    <3>1. k \in Int /\ 1 <= k /\ k <= n
      BY <1>2
    <3>2. Len(Combined) \in Int /\ Run + Len(Combined) = c /\ c \in Int
      BY <1>1, <1>2, <1>3
    <3>3. a \in Int /\ Run \in Int /\ n \in Int /\ Run <= a /\ a + n <= Run + Len(Combined)
      BY <3>2, <1>2, <1>5, <1>8, <1>10
    <3>4. a - Run + k \in 1 .. Len(Combined)
      BY <3>1, <3>2, <3>3, SMT
    <3>5. Run + (a - Run + k) - 1 = a + k - 1
      BY <3>1, <3>3, SMT
    <3> QED
      BY <3>4, <3>5
  <2> QED
    BY <2>1, <1>3, <1>8
<1> QED
  BY <1>8, <1>11, <1>12 DEF Hits, n


\* The bytes carried to the next chunk are the last ones of the buffer.
LEMMA OverlapFacts ==
    ASSUME NEW q \in Seq(Bytes), TypeOK
    PROVE  /\ Overlap(q) \in Seq(Bytes) /\ Len(Overlap(q)) = Least(Len(q), Len(pattern) - 1)
           /\ \A k \in 1 .. Len(Overlap(q)) :
                  /\ Len(q) - Len(Overlap(q)) + k \in 1 .. Len(q)
                  /\ Overlap(q)[k] = q[Len(q) - Len(Overlap(q)) + k]
<1> DEFINE l == Len(q)
           n == Len(pattern)
           carry == Least(l, n - 1)
<1>1. l \in Nat /\ n \in Nat \ {0}
  BY RequestFacts
<1>2. Overlap(q) = SubSeq(q, l - carry + 1, l)
  BY DEF Overlap
<1> HIDE DEF l, n
<1>3. carry \in 0 .. l
  BY <1>1 DEF Least
<1> HIDE DEF carry
<1>4. l - carry + 1 \in 1 .. l + 1 /\ l - carry + 1 >= 1
  BY <1>1, <1>3
<1>5. /\ Overlap(q) \in Seq(Bytes) /\ Len(Overlap(q)) = carry
      /\ \A k \in 1 .. carry : Overlap(q)[k] = q[l - carry + k]
  <2> DEFINE m == l - carry + 1
  <2>1. m \in Int /\ 1 <= m /\ l - m + 1 = carry /\ (m <= l \/ carry = 0) /\ (m > l => carry = 0)
    BY <1>1, <1>3
  <2>2. \A i \in m .. l : q[i] \in Bytes
    BY <1>1, <2>1 DEF l
  <2>3. \A k \in 1 .. carry : m + k - 1 = l - carry + k
    BY <1>1, <1>3
  <2> HIDE DEF m
  <2>4. /\ SubSeq(q, m, l) \in Seq(Bytes)
        /\ Len(SubSeq(q, m, l)) = IF m <= l THEN l - m + 1 ELSE 0
        /\ \A k \in 1 .. l - m + 1 : SubSeq(q, m, l)[k] = q[m + k - 1]
    BY <1>1, <2>1, <2>2, SubSeqProperties
  <2>5. Overlap(q) = SubSeq(q, m, l)
    BY <1>2 DEF m
  <2>6. Len(SubSeq(q, m, l)) = carry
    BY <2>1, <2>4, <1>1
  <2> QED
    BY <2>1, <2>3, <2>4, <2>5, <2>6
<1>6. \A k \in 1 .. carry : l - carry + k \in 1 .. l
  BY <1>1, <1>3
<1> QED
  BY <1>5, <1>6 DEF l, n, carry

\* What is found after a chunk is what was found before and the matches in the buffer.
LEMMA ChunkFinds ==
    ASSUME TypeOK, Position, cursor < mappingEnd, UNCHANGED <<request, unread>>,
           cursor' = cursor + amount
    PROVE  /\ Found' = Found \cup Hits
           /\ Hits \in SUBSET Int /\ IsFiniteSet(Hits)
           /\ \A x \in Found, y \in Hits : x < y
<1>1. PICK i \in DOMAIN layout :
          /\ Carries(i)
          /\ layout[i].addr \in Nat /\ layout[i].size \in Nat
          /\ mappingEnd <= layout[i].addr + layout[i].size
          /\ \A b \in cursor .. cursor + amount - 1 : Holds(i, b)
  BY ChunkFacts, Zenon
<1>2. /\ amount \in Nat \ {0} /\ cursor + amount \in start .. end
      /\ start \in Nat /\ end \in Nat /\ cursor \in Nat
      /\ Len(pattern) \in Nat \ {0}
  BY ChunkFacts, RequestFacts
<1>3. cursor + amount \in Int /\ cursor <= cursor + amount
  BY <1>2
<1>4. ASSUME NEW a \in Hits
      PROVE  a \in start .. end - 1 /\ a \in Nat /\ Occurs(a, cursor + amount)
             /\ a + Len(pattern) > cursor
  BY <1>1, HitsAreNew, Zenon
<1>5. Hits \in SUBSET Int /\ IsFiniteSet(Hits)
  <2>1. Hits \in SUBSET (start .. end - 1) /\ start \in Int /\ end - 1 \in Int
    BY <1>2, <1>4
  <2>2. IsFiniteSet(Hits)
    BY <2>1, FS_Interval, FS_Subset
  <2> QED
    BY <2>1, <2>2
<1>6. ASSUME NEW x \in Found, NEW y \in Hits PROVE x < y
  <2>1. x \in Int /\ x + Len(pattern) <= cursor
    BY <1>2 DEF Found, Occurs
  <2>2. y \in Int /\ y + Len(pattern) > cursor
    BY <1>4
  <2> QED
    BY <2>1, <2>2, <1>2
<1>7. \A a \in start .. end - 1 :
          Occurs(a, cursor)' <=> Occurs(a, cursor) \/ a \in Hits
  <2> TAKE a \in start .. end - 1
  <2>1. Occurs(a, cursor)' <=> Occurs(a, cursor + amount)
    BY DEF Occurs, request
  <2>2. Occurs(a, cursor) => Occurs(a, cursor + amount)
    BY <1>3, OccursLater
  <2>3. a \in Hits => Occurs(a, cursor + amount)
    BY <1>4
  <2>4. Occurs(a, cursor + amount) /\ ~Occurs(a, cursor) => a \in Hits
    BY <1>1, NewAreHits
  <2> QED
    BY <2>1, <2>2, <2>3, <2>4
<1>8. Found' = Found \cup Hits
  <2>1. Found' = {a \in start .. end - 1 : Occurs(a, cursor)'}
    BY DEF Found, request
  <2>2. \A a \in Hits : a \in start .. end - 1
    BY <1>4
  <2> QED
    BY <2>1, <2>2, <1>7 DEF Found
<1> QED
  BY <1>5, <1>6, <1>8


\* Inside the mapping the carried bytes are again enough for the next chunk.
LEMMA ChunkCarries ==
    ASSUME TypeOK, Position, cursor < mappingEnd, NEW i \in DOMAIN layout, Carries(i),
           layout[i].addr \in Nat,
           UNCHANGED <<request, unread, mappingEnd>>,
           cursor' = cursor + amount, buffer' = Overlap(Combined)
    PROVE  buffer' \in Seq(Bytes) /\ Carries(i)'
<1> DEFINE n == Len(pattern)
           l == Len(Combined)
           v == Len(buffer')
<1>1. UNCHANGED <<memory, layout, pattern, start, end, unread, mappingEnd>>
  BY DEF request
<1>2. /\ start \in Nat /\ cursor \in Nat /\ Run \in Int /\ Run = cursor - Len(buffer)
      /\ Len(buffer) \in Nat /\ n \in Nat \ {0} /\ amount \in Nat \ {0}
  BY RequestFacts, ChunkFacts
<1>3. /\ Combined \in Seq(Bytes) /\ l = Len(buffer) + amount /\ Run + l = cursor + amount
      /\ \A k \in 1 .. l : Combined[k] = memory[Run + k - 1] /\ Run + k - 1 \notin unread
  BY CombinedFacts
<1>4. /\ buffer' \in Seq(Bytes) /\ v = Least(l, n - 1)
      /\ \A k \in 1 .. v : l - v + k \in 1 .. l /\ buffer'[k] = Combined[l - v + k]
  BY <1>3, OverlapFacts
<1>5. /\ layout[i].readable /\ start <= Run /\ layout[i].addr <= Run
      /\ mappingEnd = Least(layout[i].addr + layout[i].size, end)
      /\ Len(buffer) = n - 1 \/ Run = start \/ Run = layout[i].addr \/ Run - 1 \in unread
  BY DEF Carries
<1>6. Run' = (cursor + amount) - v
  BY DEF Run
<1>7. DOMAIN buffer' = 1 .. v
  BY <1>4
<1> HIDE DEF n, l, v
<1>8. v \in Nat /\ v < n /\ v <= l /\ l \in Nat
  BY <1>2, <1>3, <1>4 DEF Least
<1>9. Run' = Run + l - v /\ Run' \in Int /\ Run <= Run'
  <2>1. Run' = Run + l - v
    <3>1. (cursor + amount) - v = Run + l - v
      BY <1>2, <1>3, <1>8
    <3> QED
      BY <3>1, <1>6
  <2> QED
    BY <2>1, <1>2, <1>8
<1>10. start <= Run' /\ layout[i].addr <= Run'
  BY <1>2, <1>5, <1>9
<1>11. ASSUME NEW k \in 1 .. v
       PROVE  buffer'[k] = memory[Run' + k - 1] /\ Run' + k - 1 \notin unread
  <2>1. l - v + k \in 1 .. l /\ buffer'[k] = Combined[l - v + k]
    BY <1>4
  <2>2. Run + (l - v + k) - 1 = Run' + k - 1
    BY <1>2, <1>8, <1>9
  <2> QED
    BY <2>1, <2>2, <1>3
<1>12. v = n - 1 \/ Run' = start \/ Run' = layout[i].addr \/ Run' - 1 \in unread
  <2>1. CASE n - 1 <= l
    BY <2>1, <1>2, <1>4, <1>8 DEF Least
  <2>2. CASE l < n - 1
    <3>1. v = l
      BY <2>2, <1>2, <1>4, <1>8 DEF Least
    <3>2. Run' = Run /\ Len(buffer) # n - 1
      <4>1. l - v = 0
        BY <3>1, <1>8
      <4>2. Run' = Run
        BY <4>1, <1>2, <1>9
      <4>3. Len(buffer) <= l
        BY <1>2, <1>3
      <4>4. Len(buffer) # n - 1
        BY <4>3, <2>2, <1>2, <1>8
      <4> QED
        BY <4>2, <4>4
    <3> QED
      BY <3>2, <1>5
  <2> QED
    BY <2>1, <2>2, <1>2, <1>8
<1> QED
  BY <1>1, <1>4, <1>5, <1>7, <1>8, <1>10, <1>11, <1>12 DEF Carries, n, v

\* A chunk that is read.
LEMMA ReadChunkKeeps ==
    ASSUME IndInv, ReadChunk
    PROVE  IndInv'
<1> DEFINE A == Ascending(Found)
           F == Ascending(Hits)
<1>1. TypeOK /\ Position /\ Listed
  BY ExactIsListed DEF IndInv
<1>2. /\ cursor < mappingEnd
      /\ recordMatches(F) /\ buffer' = Overlap(Combined)
      /\ cursor' = cursor + amount
      /\ UNCHANGED <<request, unread, mappingEnd>>
  BY DEF ReadChunk, searchExactBufferAligned, Hits, Combined, Run
<1>3. UNCHANGED <<memory, layout, pattern, alignment, start, end, unread, mappingEnd>>
  BY <1>2 DEF request
<1>4. /\ start \in Nat /\ end \in Nat /\ cursor \in Nat /\ mappingEnd \in Nat
      /\ MaxResults \in Nat /\ amount \in Nat \ {0}
      /\ cursor + amount <= mappingEnd /\ cursor + amount \in start .. end
  BY <1>1, <1>2, RequestFacts, ChunkFacts
<1>5. PICK i \in DOMAIN layout : Carries(i) /\ layout[i].addr \in Nat
  BY <1>1, <1>2, ChunkFacts
<1>6. buffer' \in Seq(Bytes) /\ Carries(i)'
  BY <1>1, <1>2, <1>5, ChunkCarries
<1>7. TypeOK'
  <2>1. unread \subseteq start .. cursor + amount - 1
    BY <1>1, <1>4 DEF TypeOK
  <2> QED
    BY <1>1, <1>2, <1>3, <1>4, <1>6, <2>1 DEF TypeOK
<1>8. Position'
  <2>1. CASE cursor + amount < mappingEnd
    BY <2>1, <1>2, <1>3, <1>6 DEF Position
  <2>2. CASE cursor + amount = mappingEnd
    <3>1. Between'
      BY <1>1, <1>2, <1>3, <1>5, <2>2, MappingFinished DEF Between
    <3>2. ~(cursor' < mappingEnd')
      BY <1>2, <1>3, <1>4, <2>2
    <3> QED
      BY <3>1, <3>2 DEF Position
  <2> QED
    BY <1>4, <2>1, <2>2
<1>9. /\ Found' = Found \cup Hits
      /\ Hits \in SUBSET Int /\ IsFiniteSet(Hits)
      /\ \A x \in Found, y \in Hits : x < y
  BY <1>1, <1>2, ChunkFinds
<1>10. Ascending(Found') = A \o F
  BY <1>1, <1>9, FoundFinite, AscendingUnion
<1>11. A \in Seq(Int) /\ F \in Seq(Int)
  <2>1. Found \in SUBSET Int /\ A \in Seq(Found) /\ F \in Seq(Hits)
    BY <1>1, <1>9, FoundFinite, AscendingLists
  <2> HIDE DEF A, F
  <2> QED
    BY <2>1, <1>9, SeqOfInts
<1>12. Listed'
  <2>1. /\ totalMatches = Len(A) /\ results = SubSeq(A, 1, Least(MaxResults, Len(A)))
        /\ truncated <=> Len(A) > MaxResults
    BY <1>1 DEF Listed
  <2>2. /\ totalMatches' = totalMatches + Len(F)
        /\ results' = SubSeq(results \o F, 1, Least(MaxResults, Len(results) + Len(F)))
        /\ truncated' = (truncated \/ Len(results) + Len(F) > MaxResults)
    BY <1>2 DEF recordMatches
  <2> HIDE DEF A, F
  <2>3. /\ Len(A \o F) = Len(A) + Len(F)
        /\ SubSeq(results \o F, 1, Least(MaxResults, Len(results) + Len(F)))
               = SubSeq(A \o F, 1, Least(MaxResults, Len(A \o F)))
        /\ (Len(A) > MaxResults \/ Len(results) + Len(F) > MaxResults) <=> Len(A \o F) > MaxResults
    <3>1. MaxResults \in Nat /\ A \in Seq(Int) /\ F \in Seq(Int)
          /\ results = SubSeq(A, 1, Least(MaxResults, Len(A)))
      BY <2>1, <1>4, <1>11
    <3> QED
      BY <3>1, Recording, Zenon
  <2>4. totalMatches' = Len(A \o F)
    BY <2>1, <2>2, <2>3
  <2>5. results' = SubSeq(A \o F, 1, Least(MaxResults, Len(A \o F)))
    BY <2>2, <2>3
  <2>6. truncated' <=> Len(A \o F) > MaxResults
    BY <2>1, <2>2, <2>3, Zenon
  <2>7. Ascending(Found)' = A \o F
    BY <1>10
  <2> QED
    BY <2>4, <2>5, <2>6, <2>7 DEF Listed
<1>13. ResultsAreExact'
  BY <1>12, ExactIsListed, PTL
<1> QED
  BY <1>7, <1>8, <1>13 DEF IndInv

-----------------------------------------------------------------------------
(* The theorems about the exact search.                                    *)

(***************************************************************************)
(* At every chunk boundary the carried bytes are the last ones read of the *)
(* mapping, and the results are exact, for every chunk size, pattern,      *)
(* alignment and layout, whichever reads fail.                             *)
(***************************************************************************)
THEOREM Invariance == Spec => []IndInv
<1>1. IndInv /\ [Next]_vars => IndInv'
  <2> SUFFICES ASSUME IndInv, [Next]_vars PROVE IndInv'
    OBVIOUS
  <2>1. CASE Plan
    BY <2>1, PlanKeeps
  <2>2. CASE ReadChunk
    BY <2>2, ReadChunkKeeps
  <2>3. CASE SkipChunk
    BY <2>3, SkipChunkKeeps
  <2>4. CASE finishSearch \/ LoseProcess \/ searchCancel \/ UNCHANGED vars
    <3>1. UNCHANGED <<request, cursor, mappingEnd, buffer, output>>
      BY <2>4 DEF finishSearch, LoseProcess, searchCancel, vars
    <3> QED
      BY <3>1, OthersKeep
  <2> QED
    BY <2>1, <2>2, <2>3, <2>4 DEF Next, Worker
<1> QED
  BY Start, <1>1, PTL DEF Spec

(***************************************************************************)
(* runSearch and recordMatch report exactly the first MaxResults           *)
(* occurrences, count all of them and say whether some were dropped.       *)
(***************************************************************************)
THEOREM ResultsAreExactHolds == Spec => []ResultsAreExact
<1>1. IndInv => ResultsAreExact
  BY DEF IndInv
<1> QED
  BY <1>1, Invariance, PTL


-----------------------------------------------------------------------------
(* The candidate file.                                                     *)

\* A block that searchStoreWriterAddBlock was given.
Block(base, slotCount, mask, b) ==
    /\ base \in Nat /\ slotCount \in Nat \ {0}
    /\ mask \in SUBSET (0 .. slotCount - 1) /\ mask # {}
    /\ b.base = base /\ b.slotCount = slotCount /\ b.candidateCount = Cardinality(mask)
    /\ b.representation = representation(slotCount, Cardinality(mask))
    /\ b.payload = payload(base, slotCount, mask)

\* The file holds the blocks that were given.
Written ==
    /\ data \in Seq(Range(data)) /\ given \in Seq(Range(given)) /\ Len(data) = Len(given)
    /\ \A i \in DOMAIN data : \E slotCount \in Nat :
           Block(given[i].base, slotCount, given[i].mask, data[i])

\* The candidates of a block are finitely many.
LEMMA MaskFinite ==
    ASSUME NEW n \in Nat, NEW mask \in SUBSET (0 .. n - 1)
    PROVE  /\ mask \in SUBSET Int /\ IsFiniteSet(mask) /\ Cardinality(mask) \in Nat
           /\ Cardinality(mask) = n => mask = 0 .. n - 1
<1>1. IsFiniteSet(0 .. n - 1) /\ Cardinality(0 .. n - 1) = n
  BY FS_Interval
<1>2. /\ IsFiniteSet(mask)
      /\ Cardinality(0 .. n - 1) = Cardinality(mask) => 0 .. n - 1 = mask
  BY <1>1, FS_Subset
<1>3. Cardinality(mask) \in Nat
  BY <1>2, FS_CardinalityType
<1> QED
  BY <1>1, <1>2, <1>3

\* searchStoreReaderNext undoes searchStoreWriterAddBlock, in each representation.
LEMMA DecodeIsExact ==
    ASSUME NEW base, NEW slotCount, NEW mask, NEW b, Block(base, slotCount, mask, b)
    PROVE  /\ decode(b).mask = mask
           /\ \A s \in mask : decode(b).values[s] = base + s
<1> DEFINE r == representation(slotCount, Cardinality(mask))
           values == [s \in 0 .. slotCount - 1 |-> base + s]
<1>1. /\ base \in Nat /\ slotCount \in Nat \ {0} /\ mask \in SUBSET (0 .. slotCount - 1)
      /\ b.representation = r /\ b.payload = payload(base, slotCount, mask)
      /\ b.slotCount = slotCount
  BY DEF Block
<1>2. /\ mask \in SUBSET Int /\ IsFiniteSet(mask)
      /\ Cardinality(mask) = slotCount => mask = 0 .. slotCount - 1
  BY <1>1, MaskFinite
<1>3. \A s \in mask : s \in 0 .. slotCount - 1 /\ values[s] = base + s
  BY <1>1
<1>4. r \in {"all", "sparse", "bitmap"} /\ (r = "all" => Cardinality(mask) = slotCount)
  BY DEF representation
<1> HIDE DEF values
<1>5. CASE r = "all"
  <2>1. b.payload = values
    BY <1>1, <1>5 DEF payload, values
  <2>2. decode(b) = [mask |-> 0 .. slotCount - 1, values |-> values]
    BY <1>1, <1>5, <2>1 DEF decode
  <2>3. mask = 0 .. slotCount - 1
    BY <1>2, <1>4, <1>5
  <2> QED
    BY <2>2, <2>3, <1>3
<1>6. CASE r = "bitmap"
  <2>1. b.payload = <<mask, values>>
    BY <1>1, <1>6 DEF payload, values
  <2>2. decode(b) = [mask |-> mask, values |-> values]
    BY <1>1, <1>6, <2>1 DEF decode
  <2> QED
    BY <2>2, <1>3
<1>7. CASE r = "sparse"
  <2> DEFINE A == Ascending(mask)
             n == Cardinality(mask)
             at(s) == {i \in 1 .. n : b.payload[i][1] = s}
             dec == [s \in 0 .. slotCount - 1 |->
                        IF at(s) = {} THEN 0 ELSE b.payload[CHOOSE i \in at(s) : TRUE][2]]
  <2>1. /\ Len(A) = n /\ n \in Nat /\ DOMAIN A = 1 .. n
        /\ \A i \in 1 .. n : A[i] \in mask
        /\ \A x \in mask : \E i \in 1 .. n : A[i] = x
    BY <1>2, AscendingLists
  <2>2. b.payload = [i \in DOMAIN A |-> <<A[i], values[A[i]]>>]
    BY <1>1, <1>7 DEF payload, values
  <2> HIDE DEF A, n
  <2>3. DOMAIN b.payload = 1 .. n /\ \A i \in 1 .. n : b.payload[i] = <<A[i], values[A[i]]>>
    BY <2>1, <2>2
  <2>4. \A i \in 1 .. n : b.payload[i][1] = A[i] /\ b.payload[i][2] = values[A[i]]
    BY <2>3
  <2>5. decode(b) = [mask |-> {b.payload[i][1] : i \in 1 .. n}, values |-> dec]
    BY <1>1, <1>7, <2>3 DEF decode
  <2>6. {b.payload[i][1] : i \in 1 .. n} = mask
    BY <2>1, <2>4
  <2>7. ASSUME NEW s \in mask PROVE dec[s] = base + s
    <3>1. PICK i \in 1 .. n : A[i] = s
      BY <2>1
    <3>2. i \in at(s)
      BY <2>4, <3>1
    <3>3. PICK j \in at(s) : j = CHOOSE k \in at(s) : TRUE
      BY <3>2
    <3>4. j \in 1 .. n /\ b.payload[j][1] = s
      OBVIOUS
    <3>5. s \in 0 .. slotCount - 1 /\ at(s) # {}
      BY <1>3, <3>2
    <3> HIDE DEF at
    <3>7. b.payload[j][2] = values[s]
      BY <2>4, <3>4, Zenon
    <3>6. dec[s] = b.payload[j][2]
      BY <3>3, <3>5
    <3> QED
      BY <1>3, <3>6, <3>7
  <2> HIDE DEF dec
  <2>8. decode(b).mask = mask /\ decode(b).values = dec
    BY <2>5, <2>6
  <2> QED
    BY <2>7, <2>8
<1> QED
  BY <1>4, <1>5, <1>6, <1>7


\* A sequence is one over its own elements.
LEMMA SeqOfItself == ASSUME NEW S, NEW q \in Seq(S) PROVE q \in Seq(Range(q))
<1> DEFINE n == Len(q)
<1>1. n \in Nat /\ q = [i \in 1 .. n |-> q[i]] /\ DOMAIN q = 1 .. n
  OBVIOUS
<1>2. \A i \in 1 .. n : q[i] \in Range(q)
  BY <1>1 DEF Range
<1> HIDE DEF n
<1>3. q \in [1 .. n -> Range(q)]
  BY <1>1, <1>2
<1> QED
  BY <1>1, <1>3

\* Appending keeps what is there and adds one.
LEMMA AppendFacts ==
    ASSUME NEW q, q \in Seq(Range(q)), NEW e
    PROVE  /\ Append(q, e) \in Seq(Range(Append(q, e)))
           /\ Len(Append(q, e)) = Len(q) + 1 /\ Len(q) \in Nat
           /\ DOMAIN q = 1 .. Len(q) /\ DOMAIN Append(q, e) = 1 .. Len(q) + 1
           /\ \A i \in DOMAIN q : Append(q, e)[i] = q[i]
           /\ Append(q, e)[Len(q) + 1] = e
<1> DEFINE S == Range(q) \cup {e}
           a == Append(q, e)
<1>1. /\ Len(q) \in Nat /\ DOMAIN q = 1 .. Len(q)
      /\ q = [i \in 1 .. Len(q) |-> q[i]] /\ \A i \in 1 .. Len(q) : q[i] \in Range(q)
  OBVIOUS
<1>2. q \in Seq(S) /\ e \in S
  BY <1>1
<1> HIDE DEF S
<1>3. /\ a \in Seq(S) /\ Len(a) = Len(q) + 1 /\ DOMAIN a = 1 .. Len(q) + 1
      /\ \A i \in 1 .. Len(q) : a[i] = q[i]
      /\ a[Len(q) + 1] = e
  BY <1>1, <1>2
<1> HIDE DEF a
<1>4. a \in Seq(Range(a))
  BY <1>3, SeqOfItself
<1> QED
  BY <1>1, <1>3, <1>4 DEF a

\* searchStoreWriterAddBlock.
LEMMA AddBlockKeeps ==
    ASSUME Written, NEW base \in Nat, NEW slotCount \in Nat \ {0},
           NEW mask \in SUBSET (0 .. slotCount - 1), AddBlock(base, slotCount, mask)
    PROVE  Written'
<1>1. CASE UNCHANGED <<data, given>>
  BY <1>1 DEF Written
<1>2. CASE mask # {} /\ ~UNCHANGED <<data, given>>
  <2> DEFINE b == [representation |-> representation(slotCount, Cardinality(mask)),
                   base |-> base, cumulativeCandidates |-> header.candidateCount,
                   slotCount |-> slotCount, candidateCount |-> Cardinality(mask),
                   payload |-> payload(base, slotCount, mask)]
             g == [base |-> base, mask |-> mask]
  <2>1. data' = Append(data, b) /\ given' = Append(given, g)
    BY <1>2, Zenon DEF AddBlock
  <2>2. Block(base, slotCount, mask, b)
    BY <1>2 DEF Block
  <2>3. g.base = base /\ g.mask = mask
    OBVIOUS
  <2> HIDE DEF b, g
  <2>4. /\ data \in Seq(Range(data)) /\ given \in Seq(Range(given)) /\ Len(data) = Len(given)
        /\ \A i \in DOMAIN data : \E n \in Nat : Block(given[i].base, n, given[i].mask, data[i])
    BY DEF Written
  <2>5. /\ data' \in Seq(Range(data')) /\ Len(data') = Len(data) + 1 /\ Len(data) \in Nat
        /\ DOMAIN data = 1 .. Len(data) /\ DOMAIN data' = 1 .. Len(data) + 1
        /\ \A i \in DOMAIN data : data'[i] = data[i]
        /\ data'[Len(data) + 1] = b
    BY <2>1, <2>4, AppendFacts
  <2>6. /\ given' \in Seq(Range(given')) /\ Len(given') = Len(given) + 1
        /\ DOMAIN given = 1 .. Len(data)
        /\ \A i \in DOMAIN given : given'[i] = given[i]
        /\ given'[Len(data) + 1] = g
    BY <2>1, <2>4, AppendFacts
  <2>7. ASSUME NEW i \in DOMAIN data'
        PROVE  \E n \in Nat : Block(given'[i].base, n, given'[i].mask, data'[i])
    <3>1. CASE i \in DOMAIN data
      <4>1. given'[i] = given[i] /\ data'[i] = data[i]
        BY <2>5, <2>6, <3>1
      <4> QED
        BY <4>1, <2>4, <3>1
    <3>2. CASE i = Len(data) + 1
      <4>1. given'[i] = g /\ data'[i] = b
        BY <2>5, <2>6, <3>2
      <4> QED
        BY <4>1, <2>2, <2>3
    <3> QED
      BY <2>5, <3>1, <3>2
  <2>8. Len(data') = Len(given')
    BY <2>4, <2>5, <2>6
  <2> QED
    BY <2>5, <2>6, <2>7, <2>8 DEF Written
<1> QED
  BY <1>1, <1>2 DEF AddBlock

(***************************************************************************)
(* The file holds what was given to searchStoreWriterAddBlock, for blocks  *)
(* of any number, size and width of slots.                                 *)
(***************************************************************************)
THEOREM WrittenHolds == StoreSpec => []Written
<1>1. StoreInit => Written
  BY DEF StoreInit, Written, Range
<1>2. Written /\ [StoreNext]_storeVars => Written'
  <2> SUFFICES ASSUME Written, [StoreNext]_storeVars PROVE Written'
    OBVIOUS
  <2>1. CASE UNCHANGED <<data, given>>
    BY <2>1 DEF Written
  <2>2. ASSUME NEW base \in frontier .. MaxAddress, NEW slotCount \in 1 .. MaxSlots,
               NEW mask \in SUBSET (0 .. slotCount - 1), AddBlock(base, slotCount, mask)
        PROVE  Written'
    <3>1. frontier \in Nat
      <4>1. CASE given = <<>>
        BY <4>1 DEF frontier
      <4>2. CASE given # <<>>
        <5>1. /\ Len(given) = Len(data) /\ Len(given) \in DOMAIN data
              /\ given \in Seq(Range(given))
          BY <4>2 DEF Written
        <5>2. PICK n \in Nat : Block(given[Len(given)].base, n, given[Len(given)].mask, data[Len(given)])
          BY <5>1 DEF Written
        <5>3. frontier = given[Len(given)].base + data[Len(given)].slotCount
          BY <4>2, <5>1 DEF frontier, Last
        <5> QED
          BY <5>2, <5>3 DEF Block
      <4> QED
        BY <4>1, <4>2
    <3>2. base \in Nat /\ slotCount \in Nat \ {0}
      BY <3>1, StoreAssumption
    <3> QED
      BY <2>2, <3>2, AddBlockKeeps
  <2>3. CASE FailBlock \/ Finish \/ Abort \/ UNCHANGED storeVars
    BY <2>1, <2>3 DEF FailBlock, Finish, Abort, storeVars
  <2> QED
    BY <2>2, <2>3 DEF StoreNext
<1> QED
  BY <1>1, <1>2, PTL DEF StoreSpec

(***************************************************************************)
(* A refinement reads back the candidates and the values of the previous   *)
(* generation, whatever representation searchStoreWriterAddBlock chose.    *)
(***************************************************************************)
THEOREM BlocksRoundTripHolds == StoreSpec => []BlocksRoundTrip
<1>1. Written => BlocksRoundTrip
  <2> SUFFICES ASSUME Written, NEW i \in DOMAIN data
               PROVE  /\ decode(data[i]).mask = given[i].mask
                      /\ \A s \in decode(data[i]).mask :
                             decode(data[i]).values[s] = given[i].base + s
    BY DEF BlocksRoundTrip
  <2>1. PICK n \in Nat : Block(given[i].base, n, given[i].mask, data[i])
    BY DEF Written
  <2>2. /\ decode(data[i]).mask = given[i].mask
        /\ \A s \in given[i].mask : decode(data[i]).values[s] = given[i].base + s
    BY <2>1, DecodeIsExact
  <2> QED
    BY <2>2
<1> QED
  BY <1>1, WrittenHolds, PTL


-----------------------------------------------------------------------------
(* Pages of a candidate file.                                              *)

\* The binary search finds the boundary between the blocks that end at or before the
\* candidate numbered offset and those that do not.
LEMMA FirstBlockFacts ==
    ASSUME NEW n \in Nat, n = header.blockCount, NEW offset \in Nat, NEW cut \in 0 .. n,
           \A i \in 1 .. n : (offset >= endOrdinal(index[i])) <=> i <= cut
    PROVE  firstBlock(offset) = cut
<1> DEFINE B == 0 .. n
           mid(low, high) == low + ((high - low) \div 2)
           Step(g) == [r \in B \X B |->
               IF r[1] >= r[2] THEN r[1]
               ELSE IF offset >= endOrdinal(index[mid(r[1], r[2]) + 1])
               THEN g[<<mid(r[1], r[2]) + 1, r[2]>>]
               ELSE g[<<r[1], mid(r[1], r[2])>>]]
           Clamp(low, high) == IF cut < low THEN low ELSE IF high < cut THEN high ELSE cut
           w == [r \in B \X B |-> IF r[1] >= r[2] THEN r[1] ELSE Clamp(r[1], r[2])]
<1>1. firstBlock(offset) = (CHOOSE g : g = Step(g))[<<0, n>>]
  BY DEF firstBlock
<1>2. ASSUME NEW low \in B, NEW high \in B, low < high
      PROVE  /\ mid(low, high) \in B /\ mid(low, high) + 1 \in B /\ mid(low, high) + 1 \in 1 .. n
             /\ low <= mid(low, high) /\ mid(low, high) < high
  <2> DEFINE d == high - low
             h == d \div 2
  <2>1. d \in Int /\ d > 0 /\ 2 \in Int /\ 2 > 0
    BY <1>2
  <2> HIDE DEF d
  <2>2. h \in Int /\ d = h * 2 + (d % 2) /\ 0 <= d % 2 /\ d % 2 < 2 /\ d % 2 \in Int
    BY <2>1, Division
  <2> HIDE DEF h
  <2>3. 0 <= h /\ h < d
    BY <2>1, <2>2
  <2>4. low + h \in B /\ low + h + 1 \in 1 .. n /\ low <= low + h /\ low + h < high
    <3>1. /\ low \in Int /\ high \in Int /\ 0 <= low /\ high <= n
          /\ h \in Int /\ 0 <= h /\ h < high - low
      BY <2>2, <2>3 DEF d
    <3> HIDE DEF d
    <3>2. /\ low + h \in Int /\ low + h + 1 \in Int /\ 0 <= low + h /\ low <= low + h
          /\ low + h < high /\ low + h + 1 <= n /\ 1 <= low + h + 1
      BY <3>1
    <3> QED
      BY <3>1, <3>2
  <2>5. mid(low, high) = low + h
    BY DEF h, d
  <2> HIDE DEF mid
  <2> QED
    BY <2>4, <2>5
<1> HIDE DEF mid
<1>3. ASSUME NEW g, NEW low \in B, NEW high \in B, low < high, g = Step(g)
      PROVE  g[<<low, high>>] = IF mid(low, high) + 1 <= cut
                                THEN g[<<mid(low, high) + 1, high>>]
                                ELSE g[<<low, mid(low, high)>>]
  <2>0. low < high /\ <<low, high>> \in B \X B /\ ~(low >= high)
    BY <1>3
  <2>1. Step(g)[<<low, high>>] = IF offset >= endOrdinal(index[mid(low, high) + 1])
                                 THEN g[<<mid(low, high) + 1, high>>]
                                 ELSE g[<<low, mid(low, high)>>]
    BY <2>0
  <2> HIDE DEF Step
  <2>2. (offset >= endOrdinal(index[mid(low, high) + 1])) <=> mid(low, high) + 1 <= cut
    BY <1>2, <1>3
  <2> QED
    BY <2>1, <2>2, <1>3, Zenon
<1>4. ASSUME NEW g, g = Step(g), NEW low \in B
      PROVE  g[<<low, low>>] = low
  <2>1. Step(g)[<<low, low>>] = low
    OBVIOUS
  <2> QED
    BY <2>1, <1>4, Zenon
<1>5. w = Step(w)
  <2>1. ASSUME NEW low \in B, NEW high \in B
        PROVE  w[<<low, high>>] = Step(w)[<<low, high>>]
    <3>1. CASE low >= high
      BY <3>1
    <3>2. CASE low < high
      <4> DEFINE m == mid(low, high)
      <4>1. /\ m \in B /\ m + 1 \in B /\ low <= m /\ m < high
            /\ (offset >= endOrdinal(index[m + 1])) <=> m + 1 <= cut
        BY <1>2, <3>2
      <4>2. Step(w)[<<low, high>>] = IF offset >= endOrdinal(index[m + 1])
                                     THEN w[<<m + 1, high>>] ELSE w[<<low, m>>]
        BY <3>2
      <4> HIDE DEF m
      <4>3. /\ w[<<low, high>>] = Clamp(low, high)
            /\ w[<<m + 1, high>>] = IF m + 1 >= high THEN m + 1 ELSE Clamp(m + 1, high)
            /\ w[<<low, m>>] = IF low >= m THEN low ELSE Clamp(low, m)
        BY <4>1, <3>2
      <4> HIDE DEF w, Step
      <4> QED
        BY <4>1, <4>2, <4>3
    <3> QED
      BY <3>1, <3>2
  <2>2. ASSUME NEW r \in B \X B PROVE w[r] = Step(w)[r]
    <3>1. PICK low \in B, high \in B : r = <<low, high>>
      OBVIOUS
    <3> HIDE DEF w, Step
    <3> QED
      BY <2>1, <3>1
  <2> DEFINE v == Step(w)
  <2>3. w = [r \in B \X B |-> w[r]] /\ v = [r \in B \X B |-> v[r]]
    OBVIOUS
  <2> HIDE DEF w, v
  <2>4. \A r \in B \X B : w[r] = v[r]
    BY <2>2 DEF v
  <2>5. w = v
    BY <2>3, <2>4
  <2> QED
    BY <2>5 DEF v
<1> HIDE DEF w, Step
<1>6. PICK g : g = Step(g) /\ firstBlock(offset) = g[<<0, n>>]
  BY <1>1, <1>5
<1> DEFINE Good(d) == \A low, high \in B :
               low <= cut /\ cut <= high /\ high - low <= d => g[<<low, high>>] = cut
           Bad == {d \in Nat : ~Good(d)}
<1>7. Bad = {}
  <2> SUFFICES ASSUME Bad # {} PROVE FALSE
    OBVIOUS
  <2>1. PICK d \in Bad : \A e \in Bad : d <= e
    BY LeastElement
  <2>2. d \in Nat /\ ~Good(d)
    OBVIOUS
  <2>3. \A e \in Nat : e < d => Good(e)
    BY <2>1, <2>2
  <2> HIDE DEF Bad
  <2>4. PICK low \in B, high \in B : /\ low <= cut /\ cut <= high /\ high - low <= d
                                     /\ g[<<low, high>>] # cut
    BY <2>2
  <2> HIDE DEF Good
  <2>5. CASE low = high
    BY <2>4, <2>5, <1>4, <1>6
  <2>6. CASE low < high
    <3> DEFINE m == mid(low, high)
    <3>1. /\ m \in B /\ m + 1 \in B /\ low <= m /\ m < high
          /\ g[<<low, high>>] = IF m + 1 <= cut THEN g[<<m + 1, high>>] ELSE g[<<low, m>>]
      <4>1. m \in B /\ m + 1 \in B /\ low <= m /\ m < high
        BY <1>2, <2>6
      <4>2. g[<<low, high>>] = IF mid(low, high) + 1 <= cut
                               THEN g[<<mid(low, high) + 1, high>>]
                               ELSE g[<<low, mid(low, high)>>]
        BY <1>3, <1>6, <2>6
      <4> QED
        BY <4>1, <4>2
    <3> HIDE DEF m
    <3>2. d - 1 \in Nat /\ d - 1 < d
      BY <2>2, <2>4, <2>6
    <3>3. \A a, b \in B : a <= cut /\ cut <= b /\ b - a <= d - 1 => g[<<a, b>>] = cut
      BY <3>2, <2>3 DEF Good
    <3>4. CASE m + 1 <= cut
      BY <3>1, <3>3, <3>4, <2>4, <2>2
    <3>5. CASE ~(m + 1 <= cut)
      BY <3>1, <3>3, <3>5, <2>4, <2>2
    <3> QED
      BY <3>4, <3>5
  <2> QED
    BY <2>4, <2>5, <2>6
<1>8. n \in Nat /\ Good(n)
  BY <1>7
<1>9. 0 \in B /\ n \in B /\ 0 <= cut /\ cut <= n /\ n - 0 <= n
  OBVIOUS
<1> QED
  BY <1>6, <1>8, <1>9


\* Concatenating sequences one after the other.
LEMMA Flattened ==
    ASSUME NEW n \in Nat, NEW s \in [1 .. n -> Seq(Int)]
    PROVE  \E P : /\ P \in [0 .. n -> Seq(Int)] /\ P[0] = <<>>
                  /\ \A i \in 1 .. n : P[i] = P[i - 1] \o s[i]
                  /\ FlattenSeq(s) = P[n]
<1> DEFINE Step(f, m) == [i \in 1 .. m |-> IF i = 1 THEN s[i] ELSE f[i - 1] \o s[i]]
           Partial(m) == \E f : f = Step(f, m)
           Bad == {m \in Nat : m > 0 /\ ~Partial(m)}
<1>1. Len(s) = n
  OBVIOUS
<1> HIDE DEF Partial
<1>2. Bad = {}
  <2> SUFFICES ASSUME Bad # {} PROVE FALSE
    OBVIOUS
  <2>1. PICK m \in Bad : \A e \in Bad : m <= e
    BY LeastElement
  <2>2. m \in Nat /\ m > 0 /\ ~Partial(m)
    OBVIOUS
  <2>3. \A e \in Nat : e > 0 /\ e < m => Partial(e)
    BY <2>1, <2>2
  <2> HIDE DEF Bad
  <2>4. CASE m = 1
    <3> DEFINE f == [i \in 1 .. 1 |-> s[i]]
    <3>1. f = Step(f, 1)
      OBVIOUS
    <3>2. Partial(1)
      BY <3>1 DEF Partial
    <3> QED
      BY <3>2, <2>2, <2>4
  <2>5. CASE m > 1
    <3>1. m - 1 \in Nat /\ m - 1 > 0 /\ m - 1 < m
      BY <2>2, <2>5
    <3>2. Partial(m - 1)
      BY <3>1, <2>3
    <3>3. PICK h : h = Step(h, m - 1)
      BY <3>2 DEF Partial
    <3> DEFINE e == h[m - 1] \o s[m]
               f == [i \in 1 .. m |-> IF i < m THEN h[i] ELSE e]
               v == Step(f, m)
    <3>4. ASSUME NEW i \in 1 .. m PROVE f[i] = v[i]
      <4>1. CASE i = m
        <5>1. m \in 1 .. m /\ m - 1 \in 1 .. m /\ ~(m < m) /\ m - 1 < m /\ m # 1
          BY <2>2, <2>5
        <5>2. v[m] = f[m - 1] \o s[m]
          BY <5>1
        <5> HIDE DEF e, v
        <5>3. f[m] = e /\ f[m - 1] = h[m - 1]
          BY <5>1
        <5> QED
          BY <4>1, <5>2, <5>3, Zenon DEF e
      <4>2. CASE i < m
        <5>1. f[i] = h[i] /\ i \in 1 .. m - 1
          BY <4>2, <2>2
        <5>2. Step(h, m - 1)[i] = IF i = 1 THEN s[i] ELSE h[i - 1] \o s[i]
          BY <5>1
        <5>3. v[i] = IF i = 1 THEN s[i] ELSE f[i - 1] \o s[i]
          OBVIOUS
        <5>4. i # 1 => f[i - 1] = h[i - 1]
          BY <5>1, <2>2
        <5>5. h[i] = Step(h, m - 1)[i]
          BY <3>3, Zenon
        <5> HIDE DEF f, v, Step
        <5> QED
          BY <5>1, <5>2, <5>3, <5>4, <5>5, Zenon
      <4> QED
        BY <4>1, <4>2, <2>2
    <3>5. f = [i \in 1 .. m |-> f[i]] /\ v = [i \in 1 .. m |-> v[i]]
      OBVIOUS
    <3> HIDE DEF f, v
    <3>6. f = v
      BY <3>4, <3>5
    <3> QED
      BY <3>6, <2>2, Zenon DEF v, Partial
  <2> QED
    BY <2>2, <2>4, <2>5
<1>3. CASE n = 0
  <2> DEFINE P == [i \in 0 .. 0 |-> <<>>]
  <2>1. s = <<>> /\ FlattenSeq(s) = s
    BY <1>3, <1>1 DEF FlattenSeq
  <2>2. <<>> \in Seq(Int) /\ 1 .. n = {} /\ 0 .. n = 0 .. 0 /\ 0 \in 0 .. 0
    BY <1>3
  <2>3. P \in [0 .. n -> Seq(Int)] /\ P[0] = <<>>
    BY <2>2
  <2> HIDE DEF P
  <2> QED
    BY <2>1, <2>2, <2>3, <1>3
<1>4. CASE n > 0
  <2>1. PICK g : g = Step(g, n) /\ FlattenSeq(s) = g[n]
    <3>1. FlattenSeq(s) = (CHOOSE g : g = Step(g, n))[n]
      BY <1>1, <1>4 DEF FlattenSeq
    <3>2. \E g : g = Step(g, n)
      BY <1>2, <1>4 DEF Partial
    <3> QED
      BY <3>1, <3>2
  <2> DEFINE P == [i \in 0 .. n |-> IF i = 0 THEN <<>> ELSE g[i]]
  <2>2. \A i \in 1 .. n : g[i] = IF i = 1 THEN s[i] ELSE g[i - 1] \o s[i]
    <3> TAKE i \in 1 .. n
    <3>1. Step(g, n)[i] = IF i = 1 THEN s[i] ELSE g[i - 1] \o s[i]
      OBVIOUS
    <3> QED
      BY <3>1, <2>1, Zenon
  <2>3. P[0] = <<>> /\ P[n] = g[n] /\ DOMAIN P = 0 .. n /\ P = [i \in 0 .. n |-> P[i]]
    BY <1>4
  <2>4. \A i \in 1 .. n : P[i] = P[i - 1] \o s[i]
    <3> TAKE i \in 1 .. n
    <3>1. CASE i = 1
      <4>1. P[i] = s[i] /\ P[i - 1] = <<>> /\ s[i] \in Seq(Int)
        BY <2>2, <3>1
      <4> HIDE DEF P
      <4> QED
        BY <4>1
    <3>2. CASE i # 1
      <4>1. P[i] = g[i] /\ P[i - 1] = g[i - 1]
        BY <3>2
      <4> HIDE DEF P
      <4> QED
        BY <4>1, <2>2, <3>2, Zenon
    <3> QED
      BY <3>1, <3>2
  <2> HIDE DEF P
  <2>5. \A i \in 0 .. n : P[i] \in Seq(Int)
    <3> DEFINE Wrong == {i \in Nat : i <= n /\ P[i] \notin Seq(Int)}
    <3> SUFFICES ASSUME Wrong # {} PROVE FALSE
      OBVIOUS
    <3>1. PICK i \in Wrong : \A e \in Wrong : i <= e
      BY LeastElement
    <3>2. i \in Nat /\ i <= n /\ P[i] \notin Seq(Int)
      OBVIOUS
    <3>3. i # 0
      <4>1. P[0] = <<>> /\ <<>> \in Seq(Int)
        BY <2>3
      <4> QED
        BY <4>1, <3>2, Zenon
    <3>4. i - 1 \in Nat /\ i - 1 < i /\ i - 1 \notin Wrong /\ i \in 1 .. n
      BY <3>1, <3>2, <3>3
    <3>5. P[i - 1] \in Seq(Int) /\ s[i] \in Seq(Int)
      BY <3>4
    <3>6. P[i] = P[i - 1] \o s[i]
      BY <2>4, <3>4
    <3> QED
      BY <3>2, <3>5, <3>6
  <2>6. P \in [0 .. n -> Seq(Int)]
    BY <2>3, <2>5
  <2> QED
    BY <2>1, <2>3, <2>4, <2>6
<1>5. n = 0 \/ n > 0
  OBVIOUS
<1> QED
  BY <1>3, <1>4, <1>5, Zenon


\* The elements of a sequence behind the first a and up to number b.
LEMMA CutFacts ==
    ASSUME NEW s \in Seq(Int), NEW a \in Nat, NEW b \in Nat, a <= b, b <= Len(s)
    PROVE  /\ SubSeq(s, a + 1, b) \in Seq(Int) /\ Len(SubSeq(s, a + 1, b)) = b - a
           /\ \A i \in 1 .. b - a : SubSeq(s, a + 1, b)[i] = s[a + i]
<1>1. /\ a + 1 \in Int /\ b \in Int /\ Len(s) \in Nat
      /\ \A i \in (a + 1) .. b : i \in 1 .. Len(s) /\ s[i] \in Int
      /\ (b - (a + 1)) + 1 = b - a /\ (a + 1 <= b \/ b - a = 0)
      /\ \A i \in 1 .. b - a : (a + 1) + i - 1 = a + i
  OBVIOUS
<1> DEFINE t == SubSeq(s, a + 1, b)
<1>2. /\ t \in Seq(Int) /\ Len(t) = IF a + 1 <= b THEN (b - (a + 1)) + 1 ELSE 0
      /\ \A i \in 1 .. (b - (a + 1)) + 1 : t[i] = s[(a + 1) + i - 1]
  BY <1>1, SubSeqProperties
<1> HIDE DEF t
<1>3. t \in Seq(Int) /\ Len(t) = b - a /\ \A i \in 1 .. b - a : t[i] = s[a + i]
  BY <1>1, <1>2
<1> QED
  BY <1>3 DEF t

\* What is left of two sequences, joined, behind the first a elements of the first one.
LEMMA RestOfJoin ==
    ASSUME NEW p \in Seq(Int), NEW q \in Seq(Int), NEW a \in 0 .. Len(p)
    PROVE  SubSeq(p \o q, a + 1, Len(p) + Len(q)) = SubSeq(p, a + 1, Len(p)) \o q
<1> DEFINE l == SubSeq(p \o q, a + 1, Len(p) + Len(q))
           t == SubSeq(p, a + 1, Len(p))
           r == t \o q
           k == Len(p)
           m == Len(q)
<1>1. k \in Nat /\ m \in Nat /\ a \in Nat /\ a <= k
  OBVIOUS
<1>2. /\ p \o q \in Seq(Int) /\ Len(p \o q) = k + m
      /\ \A i \in 1 .. k + m : (p \o q)[i] = IF i <= k THEN p[i] ELSE q[i - k]
  BY ConcatProperties
<1>3. /\ l \in Seq(Int) /\ Len(l) = (k + m) - a
      /\ \A i \in 1 .. (k + m) - a : l[i] = (p \o q)[a + i]
  <2>1. a <= k + m /\ k + m \in Nat
    BY <1>1
  <2> HIDE DEF k, m
  <2> QED
    BY <1>1, <1>2, <2>1, CutFacts
<1>4. /\ t \in Seq(Int) /\ Len(t) = k - a
      /\ \A i \in 1 .. k - a : t[i] = p[a + i]
  BY <1>1, CutFacts
<1> HIDE DEF t, l
<1>5. /\ r \in Seq(Int) /\ Len(r) = (k - a) + m
      /\ \A i \in 1 .. (k - a) + m : r[i] = IF i <= k - a THEN t[i] ELSE q[i - (k - a)]
  <2>1. t \in Seq(Int) /\ q \in Seq(Int)
    BY <1>4
  <2>2. /\ r \in Seq(Int) /\ Len(r) = Len(t) + m
        /\ \A i \in 1 .. Len(t) + m : r[i] = IF i <= Len(t) THEN t[i] ELSE q[i - Len(t)]
    BY <2>1, ConcatProperties
  <2> HIDE DEF r, k, m
  <2> QED
    BY <2>2, <1>4
<1> HIDE DEF r, k, m
<1>6. ASSUME NEW i \in 1 .. (k + m) - a PROVE l[i] = r[i]
  <2>1. /\ a + i \in 1 .. k + m /\ i \in 1 .. (k - a) + m /\ (a + i <= k <=> i <= k - a)
        /\ (a + i) - k = i - (k - a) /\ (i <= k - a => i \in 1 .. k - a)
    BY <1>1
  <2>2. l[i] = IF a + i <= k THEN p[a + i] ELSE q[(a + i) - k]
    BY <1>2, <1>3, <2>1
  <2>3. r[i] = IF i <= k - a THEN p[a + i] ELSE q[i - (k - a)]
    BY <1>4, <1>5, <2>1
  <2> QED
    BY <2>1, <2>2, <2>3
<1>7. Len(l) = Len(r) /\ DOMAIN l = 1 .. (k + m) - a /\ DOMAIN r = 1 .. (k + m) - a
  BY <1>1, <1>3, <1>5
<1>8. l = [i \in 1 .. (k + m) - a |-> l[i]] /\ r = [i \in 1 .. (k + m) - a |-> r[i]]
  BY <1>3, <1>5, <1>7
<1>9. l = r
  BY <1>6, <1>8
<1> QED
  BY <1>9 DEF l, r, t, k, m

\* What is left behind all of the first one and some of the second.
LEMMA RestOfSecond ==
    ASSUME NEW p \in Seq(Int), NEW q \in Seq(Int), NEW b \in 0 .. Len(q)
    PROVE  SubSeq(p \o q, (Len(p) + b) + 1, Len(p) + Len(q))
               = [i \in 1 .. Len(q) - b |-> q[b + i]]
<1> DEFINE k == Len(p)
           m == Len(q)
           l == SubSeq(p \o q, (k + b) + 1, k + m)
<1>1. k \in Nat /\ m \in Nat /\ b \in Nat /\ b <= m
  OBVIOUS
<1>2. /\ p \o q \in Seq(Int) /\ Len(p \o q) = k + m
      /\ \A i \in 1 .. k + m : i > k => (p \o q)[i] = q[i - k]
  BY <1>1, ConcatProperties
<1>3. /\ l \in Seq(Int) /\ Len(l) = m - b
      /\ \A i \in 1 .. m - b : l[i] = (p \o q)[(k + b) + i]
  <2>1. k + b <= k + m /\ k + m \in Nat /\ k + b \in Nat /\ (k + m) - (k + b) = m - b
    BY <1>1
  <2> HIDE DEF k, m
  <2> QED
    BY <1>1, <1>2, <2>1, CutFacts
<1> HIDE DEF l, k, m
<1>4. ASSUME NEW i \in 1 .. m - b PROVE l[i] = q[b + i]
  <2>1. /\ (k + b) + i \in 1 .. k + m /\ (k + b) + i > k /\ ((k + b) + i) - k = b + i
    BY <1>1
  <2>2. (p \o q)[(k + b) + i] = q[b + i]
    BY <1>2, <2>1
  <2> QED
    BY <1>3, <2>2
<1>5. l = [i \in 1 .. m - b |-> l[i]]
  BY <1>1, <1>3
<1>6. l = [i \in 1 .. m - b |-> q[b + i]]
  BY <1>4, <1>5
<1> QED
  BY <1>6 DEF l, k, m


\* The number of candidates in the first i blocks.
Totals ==
    [i \in 0 .. Len(data) |->
        IF i = 0 THEN 0 ELSE data[i].cumulativeCandidates + data[i].candidateCount]

\* The counts of the header and of the blocks agree, and the index repeats those of the blocks.
Counted ==
    /\ header.blockCount = Len(data) /\ header.candidateCount = Totals[Len(data)]
    /\ \A i \in 0 .. Len(data) : Totals[i] \in Nat
    /\ \A i \in DOMAIN data : data[i].cumulativeCandidates = Totals[i - 1]
    /\ \A i, j \in 0 .. Len(data) : i <= j => Totals[i] <= Totals[j]
    /\ file = "sealed" =>
           index = [i \in 1 .. Len(data) |->
                [fileOffset |-> i, cumulativeCandidates |-> data[i].cumulativeCandidates,
                 base |-> data[i].base, slotCount |-> data[i].slotCount,
                 candidateCount |-> data[i].candidateCount]]

\* searchStoreWriterAddBlock keeps the counts.
LEMMA AddBlockCounts ==
    ASSUME Written, Counted, NEW base, NEW slotCount \in Nat,
           NEW mask \in SUBSET (0 .. slotCount - 1), mask # {}, AddBlock(base, slotCount, mask)
    PROVE  Counted'
<1> DEFINE c == Cardinality(mask)
           n == Len(data)
           b == [representation |-> representation(slotCount, c),
                 base |-> base, cumulativeCandidates |-> header.candidateCount,
                 slotCount |-> slotCount, candidateCount |-> c,
                 payload |-> payload(base, slotCount, mask)]
<1>1. /\ data' = Append(data, b) /\ file = "writing" /\ file' = file
      /\ header' = [candidateCount |-> header.candidateCount + c,
                    blockCount |-> header.blockCount + 1]
  BY DEF AddBlock
<1>2. c \in Nat
  BY MaskFinite
<1>3. b.cumulativeCandidates = header.candidateCount /\ b.candidateCount = c
  OBVIOUS
<1> HIDE DEF b, c
<1>4. /\ Len(data') = n + 1 /\ n \in Nat
      /\ DOMAIN data = 1 .. n /\ DOMAIN data' = 1 .. n + 1
      /\ \A i \in DOMAIN data : data'[i] = data[i]
      /\ data'[n + 1] = b
  BY <1>1, AppendFacts DEF Written
<1> HIDE DEF n
<1>5. /\ header.blockCount = n /\ header.candidateCount = Totals[n]
      /\ \A i \in 0 .. n : Totals[i] \in Nat
      /\ \A i \in DOMAIN data : data[i].cumulativeCandidates = Totals[i - 1]
      /\ \A i, j \in 0 .. n : i <= j => Totals[i] <= Totals[j]
  BY DEF Counted, n
<1>6. \A i \in 0 .. n : Totals'[i] = Totals[i]
  <2> TAKE i \in 0 .. n
  <2>1. i \in 0 .. Len(data) /\ i \in 0 .. Len(data')
    BY <1>4 DEF n
  <2>2. i # 0 => data'[i] = data[i]
    BY <1>4
  <2> QED
    BY <2>1, <2>2 DEF Totals
<1>7. Totals'[n + 1] = Totals[n] + c /\ Totals[n] \in Nat /\ Totals'[n] = Totals[n]
  <2>1. n + 1 # 0 /\ n \in 0 .. n /\ n + 1 \in 0 .. Len(data')
    BY <1>4
  <2>2. Totals'[n + 1] = data'[n + 1].cumulativeCandidates + data'[n + 1].candidateCount
    BY <2>1 DEF Totals
  <2> QED
    BY <2>1, <2>2, <1>3, <1>4, <1>5, <1>6
<1>8. header'.blockCount = n + 1 /\ header'.candidateCount = Totals'[n + 1]
  BY <1>1, <1>5, <1>7
<1>9. ASSUME NEW i \in 0 .. n + 1
      PROVE  i \in 0 .. n \/ i = n + 1
  BY <1>4
<1>10. \A i \in 0 .. n + 1 : Totals'[i] \in Nat
  <2> TAKE i \in 0 .. n + 1
  <2>1. CASE i \in 0 .. n
    BY <2>1, <1>5, <1>6
  <2>2. CASE i = n + 1
    BY <2>2, <1>2, <1>7
  <2> QED
    BY <1>9, <2>1, <2>2
<1>11. \A i \in DOMAIN data' : data'[i].cumulativeCandidates = Totals'[i - 1]
  <2> TAKE i \in DOMAIN data'
  <2>1. CASE i = n + 1
    <3>1. i - 1 = n /\ data'[i].cumulativeCandidates = header.candidateCount
      BY <2>1, <1>3, <1>4
    <3> QED
      BY <3>1, <1>5, <1>7
  <2>2. CASE i # n + 1
    <3>1. i \in DOMAIN data /\ i - 1 \in 0 .. n
      BY <2>2, <1>4
    <3> QED
      BY <3>1, <1>4, <1>5, <1>6
  <2> QED
    BY <2>1, <2>2
<1>12. ASSUME NEW i \in 0 .. n + 1, NEW j \in 0 .. n + 1, i <= j
       PROVE  Totals'[i] <= Totals'[j]
  <2>1. CASE j \in 0 .. n
    <3>1. i \in 0 .. n
      BY <1>4, <1>12, <2>1
    <3> QED
      BY <3>1, <2>1, <1>5, <1>6, <1>12
  <2>2. CASE i \in 0 .. n /\ j = n + 1
    <3>1. Totals[i] <= Totals[n] /\ Totals[i] \in Nat /\ Totals'[i] = Totals[i]
      BY <1>4, <1>5, <1>6, <2>2
    <3> QED
      BY <3>1, <1>2, <1>7, <2>2
  <2>3. CASE i = n + 1 /\ j = n + 1
    BY <2>3, <1>2, <1>7
  <2> QED
    BY <1>9, <2>1, <2>2, <2>3
<1>13. file' # "sealed"
  BY <1>1
<1> QED
  BY <1>4, <1>8, <1>10, <1>11, <1>12, <1>13 DEF Counted

\* The counts agree at every point of the writing.
LEMMA CountedHolds == StoreSpec => []Counted
<1>1. StoreInit => Counted
  BY DEF StoreInit, Counted, Totals
<1>2. Written /\ Counted /\ [StoreNext]_storeVars => Counted'
  <2> SUFFICES ASSUME Written, Counted, [StoreNext]_storeVars PROVE Counted'
    OBVIOUS
  <2>1. CASE UNCHANGED <<data, header>> /\ (file' = "sealed" => UNCHANGED <<file, index>>)
    BY <2>1 DEF Counted, Totals
  <2>2. ASSUME NEW base \in frontier .. MaxAddress, NEW slotCount \in 1 .. MaxSlots,
               NEW mask \in SUBSET (0 .. slotCount - 1), AddBlock(base, slotCount, mask)
        PROVE  Counted'
    <3>1. CASE mask = {}
      BY <2>1, <2>2, <3>1 DEF AddBlock
    <3>2. CASE mask # {}
      BY <2>2, <3>2, AddBlockCounts
    <3> QED
      BY <3>1, <3>2
  <2>3. CASE Finish
    <3>1. CASE file' # "sealed"
      BY <2>1, <2>3, <3>1 DEF Finish
    <3>2. CASE file' = "sealed"
      <4>1. /\ UNCHANGED <<data, header>>
            /\ index' = [i \in 1 .. header.blockCount |->
                   [fileOffset |-> i, cumulativeCandidates |-> data[i].cumulativeCandidates,
                    base |-> data[i].base, slotCount |-> data[i].slotCount,
                    candidateCount |-> data[i].candidateCount]]
        BY <2>3, <3>2 DEF Finish
      <4> QED
        BY <4>1 DEF Counted, Totals
    <3> QED
      BY <3>1, <3>2
  <2>4. CASE FailBlock \/ Abort \/ UNCHANGED storeVars
    BY <2>1, <2>4 DEF FailBlock, Abort, storeVars
  <2> QED
    BY <2>2, <2>3, <2>4 DEF StoreNext
<1> QED
  BY <1>1, <1>2, WrittenHolds, PTL DEF StoreSpec


\* The addresses of the candidates of block i, in order.
addressesOf(i) ==
    [k \in 1 .. Len(Ascending(given[i].mask)) |-> given[i].base + Ascending(given[i].mask)[k]]

\* What is known of block i.
LEMMA BlockFacts ==
    ASSUME Written, Counted, NEW i \in 1 .. Len(data)
    PROVE  /\ decode(data[i]).mask = given[i].mask
           /\ data[i].base = given[i].base /\ given[i].base \in Nat
           /\ Ascending(given[i].mask) \in Seq(Int)
           /\ \A k \in 1 .. Len(Ascending(given[i].mask)) : Ascending(given[i].mask)[k] \in Int
           /\ Len(Ascending(given[i].mask)) \in Nat
           /\ addressesOf(i) \in Seq(Int)
           /\ Len(addressesOf(i)) = Len(Ascending(given[i].mask))
           /\ data[i].cumulativeCandidates = Totals[i - 1]
           /\ Totals[i] = Totals[i - 1] + Len(addressesOf(i))
           /\ Totals[i] \in Nat /\ Totals[i - 1] \in Nat
           /\ endOrdinal([cumulativeCandidates |-> data[i].cumulativeCandidates,
                          candidateCount |-> data[i].candidateCount]) = Totals[i]
<1> DEFINE m == given[i].mask
           S == Ascending(m)
           l == Len(S)
           A == addressesOf(i)
<1>1. Len(data) \in Nat /\ i \in Nat /\ i # 0 /\ i \in DOMAIN data /\ i \in 0 .. Len(data)
      /\ i - 1 \in 0 .. Len(data)
  BY DEF Written
<1>2. PICK slotCount \in Nat : Block(given[i].base, slotCount, m, data[i])
  BY <1>1 DEF Written
<1>3. /\ given[i].base \in Nat /\ m \in SUBSET (0 .. slotCount - 1)
      /\ data[i].base = given[i].base /\ data[i].candidateCount = Cardinality(m)
  BY <1>2 DEF Block
<1>4. decode(data[i]).mask = m
  BY <1>2, DecodeIsExact
<1>5. m \in SUBSET Int /\ IsFiniteSet(m)
  BY <1>3, MaskFinite
<1>6. /\ S \in Seq(m) /\ l = Cardinality(m) /\ Cardinality(m) \in Nat
      /\ \A k \in 1 .. Cardinality(m) : S[k] \in m
  BY <1>5, AscendingLists
<1> HIDE DEF S
<1>7. S \in Seq(Int) /\ (\A k \in 1 .. l : S[k] \in Int) /\ l \in Nat
  BY <1>5, <1>6
<1> HIDE DEF l
<1>8. A = [k \in 1 .. l |-> given[i].base + S[k]]
  BY DEF addressesOf, l, S
<1> HIDE DEF A
<1>9. A \in Seq(Int) /\ Len(A) = l
  BY <1>3, <1>7, <1>8
<1>10. /\ data[i].cumulativeCandidates = Totals[i - 1]
       /\ Totals[i] \in Nat /\ Totals[i - 1] \in Nat
  BY <1>1 DEF Counted
<1>11. Totals[i] = data[i].cumulativeCandidates + data[i].candidateCount
  BY <1>1 DEF Totals
<1>12. endOrdinal([cumulativeCandidates |-> data[i].cumulativeCandidates,
                   candidateCount |-> data[i].candidateCount])
           = data[i].cumulativeCandidates + data[i].candidateCount
  BY DEF endOrdinal
<1> QED
  BY <1>3, <1>4, <1>6, <1>7, <1>9, <1>10, <1>11, <1>12 DEF S, l, A

\* The candidates of the first blocks, for each number of blocks.
LEMMA CandidatesSoFar ==
    ASSUME Written, Counted, NEW n, n = Len(data)
    PROVE  /\ n \in Nat
           /\ \E P : /\ P \in [0 .. n -> Seq(Int)] /\ P[0] = <<>>
                     /\ \A i \in 1 .. n : P[i] = P[i - 1] \o addressesOf(i)
                     /\ \A i \in 0 .. n : Len(P[i]) = Totals[i]
                     /\ Candidates = P[n]
<1> DEFINE s == [i \in 1 .. n |-> addressesOf(i)]
<1>1. n \in Nat /\ Len(given) = n /\ DOMAIN given = 1 .. n
  BY DEF Written
<1>2. s \in [1 .. n -> Seq(Int)]
  <2>1. \A i \in 1 .. n : addressesOf(i) \in Seq(Int)
    BY BlockFacts
  <2> QED
    BY <2>1
<1>3. Candidates = FlattenSeq(s)
  <2> DEFINE t(i) == LET slots == Ascending(given[i].mask)
                     IN  [k \in DOMAIN slots |-> given[i].base + slots[k]]
  <2>1. Candidates = FlattenSeq([i \in DOMAIN given |-> t(i)])
    BY DEF Candidates
  <2>2. ASSUME NEW i \in 1 .. n PROVE t(i) = addressesOf(i)
    <3>1. Ascending(given[i].mask) \in Seq(Int)
      BY BlockFacts
    <3>2. DOMAIN Ascending(given[i].mask) = 1 .. Len(Ascending(given[i].mask))
      BY <3>1
    <3> QED
      BY <3>2 DEF addressesOf
  <2> HIDE DEF t
  <2>3. [i \in DOMAIN given |-> t(i)] = s
    BY <1>1, <2>2
  <2> QED
    BY <2>1, <2>3
<1> HIDE DEF s
<1>4. PICK P : /\ P \in [0 .. n -> Seq(Int)] /\ P[0] = <<>>
               /\ \A i \in 1 .. n : P[i] = P[i - 1] \o s[i]
               /\ FlattenSeq(s) = P[n]
  BY <1>1, <1>2, Flattened
<1>5. \A i \in 1 .. n : s[i] = addressesOf(i)
  BY DEF s
<1>6. \A i \in 1 .. n : P[i] = P[i - 1] \o addressesOf(i)
  BY <1>4, <1>5
<1> DEFINE Wrong == {i \in Nat : i <= n /\ Len(P[i]) # Totals[i]}
<1>7. Wrong = {}
  <2> SUFFICES ASSUME Wrong # {} PROVE FALSE
    OBVIOUS
  <2>1. PICK i \in Wrong : \A e \in Wrong : i <= e
    BY LeastElement
  <2>2. i \in Nat /\ i <= n /\ Len(P[i]) # Totals[i]
    OBVIOUS
  <2>3. \A e \in Nat : e < i => Len(P[e]) = Totals[e]
    BY <1>1, <2>1, <2>2
  <2> HIDE DEF Wrong
  <2>4. CASE i = 0
    <3>1. Len(P[0]) = 0 /\ Totals[0] = 0
      BY <1>1, <1>4 DEF Totals
    <3> QED
      BY <3>1, <2>2, <2>4
  <2>5. CASE i # 0
    <3>1. i - 1 \in Nat /\ i - 1 < i /\ i \in 1 .. n /\ i - 1 \in 0 .. n
      BY <1>1, <2>2, <2>5
    <3>2. P[i - 1] \in Seq(Int) /\ addressesOf(i) \in Seq(Int)
      BY <1>4, <3>1, BlockFacts
    <3>3. Len(P[i - 1] \o addressesOf(i)) = Len(P[i - 1]) + Len(addressesOf(i))
      BY <3>2, ConcatProperties
    <3>4. Totals[i] = Totals[i - 1] + Len(addressesOf(i))
      BY <3>1, BlockFacts
    <3>5. Len(P[i - 1]) = Totals[i - 1]
      BY <3>1, <2>3
    <3>6. P[i] = P[i - 1] \o addressesOf(i)
      BY <1>6, <3>1
    <3> QED
      BY <3>3, <3>4, <3>5, <3>6, <2>2, Zenon
  <2> QED
    BY <2>4, <2>5
<1>8. \A i \in 0 .. n : Len(P[i]) = Totals[i]
  BY <1>1, <1>7
<1> QED
  BY <1>1, <1>3, <1>4, <1>6, <1>8


\* The block that holds the candidate numbered offset.
LEMMA Boundary ==
    ASSUME Written, Counted, file = "sealed", NEW n, n = Len(data),
           NEW offset \in Nat, offset < Totals[n]
    PROVE  /\ n \in Nat /\ n = header.blockCount
           /\ firstBlock(offset) \in 0 .. n - 1
           /\ Totals[firstBlock(offset)] <= offset
           /\ offset < Totals[firstBlock(offset) + 1]
<1>1. /\ n \in Nat /\ n = header.blockCount
      /\ \A i \in 0 .. n : Totals[i] \in Nat
      /\ \A i, j \in 0 .. n : i <= j => Totals[i] <= Totals[j]
      /\ Totals[0] = 0
  BY DEF Written, Counted, Totals
<1> DEFINE T == {i \in Nat : i <= n /\ offset < Totals[i]}
<1>2. n \in T
  BY <1>1
<1>3. PICK next \in T : \A e \in T : next <= e
  BY <1>2, LeastElement
<1>4. next \in Nat /\ next <= n /\ offset < Totals[next]
  OBVIOUS
<1>5. \A e \in Nat : e < next => ~(offset < Totals[e])
  BY <1>1, <1>3, <1>4
<1> HIDE DEF T
<1>6. next # 0
  BY <1>1, <1>4
<1> DEFINE cut == next - 1
<1>7. cut \in Nat /\ cut < next /\ cut \in 0 .. n - 1 /\ cut + 1 = next /\ cut \in 0 .. n
  BY <1>1, <1>4, <1>6
<1> HIDE DEF cut
<1>8. Totals[cut] <= offset /\ offset < Totals[cut + 1]
  BY <1>1, <1>4, <1>5, <1>7
<1>9. ASSUME NEW i \in 1 .. n PROVE (offset >= endOrdinal(index[i])) <=> i <= cut
  <2>1. index[i].cumulativeCandidates = data[i].cumulativeCandidates
        /\ index[i].candidateCount = data[i].candidateCount
    BY DEF Counted
  <2>2. endOrdinal(index[i]) = Totals[i]
    <3>1. i \in 0 .. Len(data) /\ i # 0
      BY <1>1
    <3>2. Totals[i] = data[i].cumulativeCandidates + data[i].candidateCount
      BY <3>1 DEF Totals
    <3> QED
      BY <2>1, <3>2 DEF endOrdinal
  <2>3. i \in Nat /\ i \in 0 .. n /\ Totals[i] \in Nat
    BY <1>1
  <2>4. CASE i <= cut
    <3>1. i < next
      BY <2>3, <2>4, <1>7
    <3>2. ~(offset < Totals[i])
      BY <1>5, <2>3, <3>1
    <3> QED
      BY <2>2, <2>3, <2>4, <3>2
  <2>5. CASE ~(i <= cut)
    <3>1. next <= i /\ next \in 0 .. n
      BY <2>3, <2>5, <1>4, <1>7
    <3>2. Totals[next] <= Totals[i] /\ Totals[next] \in Nat
      BY <1>1, <2>3, <3>1
    <3> QED
      BY <2>2, <2>3, <2>5, <3>2, <1>4
  <2> QED
    BY <2>4, <2>5
<1>10. firstBlock(offset) = cut
  BY <1>1, <1>7, <1>9, FirstBlockFacts
<1> QED
  BY <1>1, <1>7, <1>8, <1>10

\* What a page takes from block j: all of it, or what is behind the first b candidates.
LEMMA PageOfBlock ==
    ASSUME Written, Counted, file = "sealed", NEW j \in 1 .. Len(data), NEW offset \in Nat
    PROVE  /\ offset <= Totals[j - 1] => blockAddresses(index[j], offset) = addressesOf(j)
           /\ \A b \in Nat : offset = Totals[j - 1] + b /\ b <= Len(addressesOf(j)) =>
                  blockAddresses(index[j], offset)
                      = [i \in 1 .. Len(addressesOf(j)) - b |-> addressesOf(j)[b + i]]
<1> DEFINE S == Ascending(given[j].mask)
           l == Len(S)
           A == addressesOf(j)
           base == given[j].base
           from == IF offset - Totals[j - 1] > 0 THEN offset - Totals[j - 1] ELSE 0
           B == blockAddresses(index[j], offset)
<1>1. /\ decode(data[j]).mask = given[j].mask /\ data[j].base = base
      /\ A \in Seq(Int) /\ Len(A) = l /\ l \in Nat
      /\ data[j].cumulativeCandidates = Totals[j - 1]
      /\ Totals[j - 1] \in Nat
  BY BlockFacts
<1>2. index[j].fileOffset = j
  BY DEF Counted
<1>3. A = [k \in 1 .. l |-> base + S[k]]
  BY DEF addressesOf
<1>4. B = [i \in 1 .. l - from |-> base + S[from + i]]
  BY <1>1, <1>2 DEF blockAddresses
<1> HIDE DEF A, B, S, l, base
<1>5. ASSUME offset <= Totals[j - 1] PROVE B = A
  <2>1. from = 0
    BY <1>1, <1>5
  <2> HIDE DEF from
  <2>2. B = [i \in 1 .. l - 0 |-> base + S[0 + i]]
    BY <1>4, <2>1
  <2>3. 1 .. l - 0 = 1 .. l /\ \A i \in 1 .. l : 0 + i = i
    BY <1>1
  <2> QED
    BY <1>3, <2>2, <2>3
<1>6. ASSUME NEW b \in Nat, offset = Totals[j - 1] + b, b <= l
      PROVE  B = [i \in 1 .. l - b |-> A[b + i]]
  <2>1. from = b
    BY <1>1, <1>6
  <2> HIDE DEF from
  <2>2. B = [i \in 1 .. l - b |-> base + S[b + i]]
    BY <1>4, <2>1
  <2>3. \A i \in 1 .. l - b : A[b + i] = base + S[b + i]
    <3> TAKE i \in 1 .. l - b
    <3>1. b + i \in 1 .. l
      BY <1>1, <1>6
    <3> QED
      BY <1>3, <3>1
  <2> QED
    BY <2>2, <2>3
<1> QED
  BY <1>1, <1>5, <1>6 DEF A, B, l, S


\* Block after block, searchStoreReadAddresses collects the candidates from number offset on.
LEMMA PageToTheEnd ==
    ASSUME Written, Counted, file = "sealed", NEW n, n = Len(data),
           NEW offset \in Nat, offset < Totals[n], NEW cut, cut = firstBlock(offset)
    PROVE  /\ Candidates \in Seq(Int) /\ Len(Candidates) = Totals[n]
           /\ FlattenSeq([i \in 1 .. header.blockCount - cut |->
                             blockAddresses(index[cut + i], offset)])
                  = SubSeq(Candidates, offset + 1, Totals[n])
<1> DEFINE s == [i \in 1 .. n - cut |-> blockAddresses(index[cut + i], offset)]
           m == n - cut
<1>1. /\ n \in Nat /\ n = header.blockCount /\ cut \in 0 .. n - 1
      /\ Totals[cut] <= offset /\ offset < Totals[cut + 1]
  BY Boundary
<1>2. PICK P : /\ P \in [0 .. n -> Seq(Int)] /\ P[0] = <<>>
               /\ \A i \in 1 .. n : P[i] = P[i - 1] \o addressesOf(i)
               /\ \A i \in 0 .. n : Len(P[i]) = Totals[i]
               /\ Candidates = P[n]
  BY CandidatesSoFar
<1>3. /\ \A i \in 0 .. n : Totals[i] \in Nat
      /\ \A i, j \in 0 .. n : i <= j => Totals[i] <= Totals[j]
  BY DEF Counted
<1>4. /\ m \in Nat /\ m > 0 /\ cut \in 0 .. n /\ cut + 1 \in 1 .. n /\ cut + 1 \in 0 .. n
      /\ (cut + 1) - 1 = cut
      /\ \A i \in 1 .. m : cut + i \in 1 .. n /\ (cut + i) - 1 \in 0 .. n /\ cut + i \in 0 .. n
      /\ \A i \in 1 .. m : i # 1 => cut + 1 <= (cut + i) - 1 /\ (cut + i) - 1 = cut + (i - 1)
      /\ cut + m = n
  BY <1>1
<1> DEFINE b == offset - Totals[cut]
           first == addressesOf(cut + 1)
<1>5. /\ first \in Seq(Int) /\ Len(first) \in Nat /\ Totals[cut + 1] = Totals[cut] + Len(first)
      /\ Totals[cut] \in Nat
  <2>1. /\ first \in Seq(Int) /\ Totals[cut + 1] = Totals[(cut + 1) - 1] + Len(first)
        /\ Totals[(cut + 1) - 1] \in Nat
    BY <1>1, <1>4, BlockFacts
  <2> HIDE DEF first
  <2>2. Len(first) \in Nat
    BY <2>1
  <2> QED
    BY <2>1, <2>2, <1>4
<1>6. b \in Nat /\ b <= Len(first) /\ offset = Totals[cut] + b
  BY <1>1, <1>5
<1> HIDE DEF b, first, m
<1>7. s[1] = [i \in 1 .. Len(first) - b |-> first[b + i]]
  <2>1. s[1] = blockAddresses(index[cut + 1], offset)
    BY <1>4 DEF m
  <2>2. blockAddresses(index[cut + 1], offset)
            = [i \in 1 .. Len(first) - b |-> first[b + i]]
    <3>1. cut + 1 \in 1 .. Len(data) /\ offset = Totals[(cut + 1) - 1] + b /\ offset \in Nat
      BY <1>4, <1>6
    <3> QED
      BY <3>1, <1>6, PageOfBlock DEF first
  <2> QED
    BY <2>1, <2>2
<1>8. ASSUME NEW i \in 1 .. m, i # 1 PROVE s[i] = addressesOf(cut + i)
  <2>1. s[i] = blockAddresses(index[cut + i], offset)
    BY DEF m
  <2>2. offset <= Totals[(cut + i) - 1]
    <3>1. Totals[cut + 1] <= Totals[(cut + i) - 1] /\ Totals[(cut + i) - 1] \in Nat
          /\ Totals[cut + 1] \in Nat
      BY <1>3, <1>4, <1>8
    <3> QED
      BY <3>1, <1>1
  <2>3. blockAddresses(index[cut + i], offset) = addressesOf(cut + i)
    BY <1>4, <2>2, PageOfBlock
  <2> QED
    BY <2>1, <2>3
<1>9. s \in [1 .. m -> Seq(Int)]
  <2>1. ASSUME NEW i \in 1 .. m PROVE s[i] \in Seq(Int)
    <3>1. CASE i = 1
      <4>1. \A k \in 1 .. Len(first) - b : b + k \in 1 .. Len(first)
        BY <1>5, <1>6
      <4>2. Len(first) - b \in Nat /\ \A k \in 1 .. Len(first) - b : first[b + k] \in Int
        BY <1>5, <1>6, <4>1
      <4>3. [k \in 1 .. Len(first) - b |-> first[b + k]] \in Seq(Int)
        BY <4>2
      <4> HIDE DEF s
      <4> QED
        BY <3>1, <4>3, <1>7
    <3>2. CASE i # 1
      <4>1. addressesOf(cut + i) \in Seq(Int)
        BY <1>4, BlockFacts
      <4> HIDE DEF s
      <4> QED
        BY <3>2, <4>1, <1>8
    <3> QED
      BY <3>1, <3>2
  <2>2. s = [i \in 1 .. m |-> s[i]]
    BY DEF m
  <2> HIDE DEF s
  <2> QED
    BY <2>1, <2>2
<1> HIDE DEF s
<1>10. PICK F : /\ F \in [0 .. m -> Seq(Int)] /\ F[0] = <<>>
                /\ \A i \in 1 .. m : F[i] = F[i - 1] \o s[i]
                /\ FlattenSeq(s) = F[m]
  BY <1>4, <1>9, Flattened
<1> DEFINE Good(i) == F[i] = SubSeq(P[cut + i], offset + 1, Totals[cut + i])
           Wrong == {i \in Nat : i \in 1 .. m /\ ~Good(i)}
<1>11. Wrong = {}
  <2> SUFFICES ASSUME Wrong # {} PROVE FALSE
    OBVIOUS
  <2>1. PICK i \in Wrong : \A e \in Wrong : i <= e
    BY LeastElement
  <2>2. i \in Nat /\ i \in 1 .. m /\ ~Good(i)
    OBVIOUS
  <2>3. \A e \in Nat : e \in 1 .. m /\ e < i => Good(e)
    BY <2>1, <2>2
  <2> HIDE DEF Wrong, Good
  <2>4. CASE i = 1
    <3>1. F[1] = <<>> \o s[1] /\ s[1] \in Seq(Int)
      <4>1. 1 \in 1 .. m /\ 1 - 1 = 0
        BY <1>4
      <4>2. F[1] = F[1 - 1] \o s[1]
        BY <4>1, <1>10
      <4>3. s[1] \in Seq(Int)
        BY <4>1, <1>9
      <4> QED
        BY <4>1, <4>2, <4>3, <1>10, Zenon
    <3>2. F[1] = s[1]
      BY <3>1, ConcatEmptySeq
    <3>3. P[cut + 1] = P[cut] \o first /\ P[cut] \in Seq(Int) /\ Len(P[cut]) = Totals[cut]
      BY <1>2, <1>4 DEF first
    <3>4. SubSeq(P[cut] \o first, (Len(P[cut]) + b) + 1, Len(P[cut]) + Len(first)) = s[1]
      <4>1. b \in 0 .. Len(first)
        BY <1>5, <1>6
      <4>2. SubSeq(P[cut] \o first, (Len(P[cut]) + b) + 1, Len(P[cut]) + Len(first))
                = [k \in 1 .. Len(first) - b |-> first[b + k]]
        BY <4>1, <3>3, <1>5, RestOfSecond
      <4> QED
        BY <4>2, <1>7, Zenon
    <3>5. SubSeq(P[cut + 1], offset + 1, Totals[cut + 1]) = s[1]
      BY <3>3, <3>4, <1>5, <1>6, Zenon
    <3> QED
      BY <3>2, <3>5, <2>2, <2>4 DEF Good
  <2>5. CASE i # 1
    <3> DEFINE p == P[(cut + i) - 1]
               q == addressesOf(cut + i)
    <3>1. i - 1 \in Nat /\ i - 1 \in 1 .. m /\ i - 1 < i
      BY <2>2, <2>5, <1>4
    <3>2. /\ cut + i \in 1 .. n /\ (cut + i) - 1 \in 0 .. n /\ cut + 1 <= (cut + i) - 1
          /\ (cut + i) - 1 = cut + (i - 1)
      BY <2>2, <2>5, <1>4
    <3>3. P[cut + i] = p \o q /\ p \in Seq(Int) /\ Len(p) = Totals[(cut + i) - 1]
      BY <3>2, <1>2
    <3>4. q \in Seq(Int) /\ Totals[cut + i] = Totals[(cut + i) - 1] + Len(q)
      BY <3>2, BlockFacts
    <3>5. F[i - 1] = SubSeq(p, offset + 1, Totals[(cut + i) - 1])
      BY <3>1, <3>2, <2>3, Zenon DEF Good
    <3>6. F[i] = F[i - 1] \o q
      <4>1. F[i] = F[i - 1] \o s[i]
        BY <2>2, <1>10
      <4>2. s[i] = q
        BY <2>2, <2>5, <1>8
      <4> QED
        BY <4>1, <4>2, Zenon
    <3>7. offset \in 0 .. Len(p)
      <4>1. Totals[cut + 1] <= Totals[(cut + i) - 1] /\ Totals[(cut + i) - 1] \in Nat
            /\ Totals[cut + 1] \in Nat
        BY <1>3, <1>4, <3>2
      <4> QED
        BY <4>1, <1>1, <3>3
    <3> HIDE DEF p, q
    <3>8. SubSeq(p \o q, offset + 1, Len(p) + Len(q)) = SubSeq(p, offset + 1, Len(p)) \o q
      BY <3>3, <3>4, <3>7, RestOfJoin
    <3>9. F[i] = SubSeq(P[cut + i], offset + 1, Totals[cut + i])
      BY <3>3, <3>4, <3>5, <3>6, <3>8, Zenon
    <3> QED
      BY <3>9, <2>2 DEF Good
  <2> QED
    BY <2>4, <2>5
<1>12. F[m] = SubSeq(P[n], offset + 1, Totals[n])
  <2>1. m \in 1 .. m /\ m \in Nat
    BY <1>4
  <2>2. Good(m)
    BY <1>11, <2>1
  <2> QED
    BY <2>2, <1>4
<1>13. Candidates \in Seq(Int) /\ Len(Candidates) = Totals[n]
  BY <1>1, <1>2
<1>14. FlattenSeq([i \in 1 .. header.blockCount - cut |-> blockAddresses(index[cut + i], offset)])
           = F[m]
  BY <1>1, <1>10 DEF s
<1> QED
  BY <1>2, <1>12, <1>13, <1>14

(***************************************************************************)
(* A page of a finished file is exactly that stretch of the candidates,    *)
(* for blocks of any number and size: the binary search of                 *)
(* searchStoreReadAddresses finds the block, the cumulative counts say     *)
(* where in it the page begins.                                            *)
(***************************************************************************)
THEOREM PagesTileHolds == StoreSpec => []PagesTile
<1>1. Written /\ Counted => PagesTile
  <2> SUFFICES ASSUME Written, Counted, file = "sealed",
                      NEW offset \in 0 .. header.candidateCount,
                      NEW count \in 0 .. header.candidateCount + 1
               PROVE  searchStoreReadAddresses(offset, count) =
                          SubSeq(Candidates, offset + 1,
                                 IF offset + count <= Len(Candidates) THEN offset + count
                                 ELSE Len(Candidates))
    BY DEF PagesTile
  <2> DEFINE n == Len(data)
             N == Totals[n]
             C == Candidates
             last == IF offset + count <= N THEN offset + count ELSE N
             cut == firstBlock(offset)
             found == FlattenSeq([i \in 1 .. header.blockCount - cut |->
                                     blockAddresses(index[cut + i], offset)])
  <2>1. n \in Nat /\ header.candidateCount = N /\ N \in Nat
    BY DEF Written, Counted
  <2>2. C \in Seq(Int) /\ Len(C) = N
    <3>1. PICK P : /\ P \in [0 .. n -> Seq(Int)] /\ P[0] = <<>>
                   /\ \A i \in 1 .. n : P[i] = P[i - 1] \o addressesOf(i)
                   /\ \A i \in 0 .. n : Len(P[i]) = Totals[i]
                   /\ Candidates = P[n]
      <4> HIDE DEF N, C, last, cut, found
      <4> QED
        BY CandidatesSoFar
    <3> QED
      BY <3>1, <2>1
  <2>3. offset \in Nat /\ count \in Nat /\ offset <= N /\ last \in Nat
    BY <2>1
  <2>4. CASE offset >= N \/ count = 0
    <3>1. searchStoreReadAddresses(offset, count) = <<>>
      BY <2>1, <2>4 DEF searchStoreReadAddresses
    <3>2. last < offset + 1 /\ last \in Int /\ offset + 1 \in Int
      BY <2>1, <2>3, <2>4
    <3> HIDE DEF C, last
    <3>3. SubSeq(C, offset + 1, last) = <<>>
      BY <3>2, SubSeqEmpty
    <3> QED
      BY <3>1, <3>3, <2>2 DEF C, last
  <2>5. CASE offset < N /\ count # 0
    <3>1. found = SubSeq(C, offset + 1, N)
      BY <2>3, <2>5, PageToTheEnd
    <3> DEFINE k == IF Len(found) <= count THEN Len(found) ELSE count
    <3>2. searchStoreReadAddresses(offset, count) = SubSeq(found, 1, k)
      BY <2>1, <2>5, <2>3 DEF searchStoreReadAddresses
    <3> HIDE DEF C, N, found
    <3>3. /\ found \in Seq(Int) /\ Len(found) = N - offset
          /\ \A i \in 1 .. N - offset : found[i] = C[offset + i]
      BY <2>1, <2>2, <2>3, <3>1, CutFacts
    <3>4. k \in Nat /\ k <= Len(found) /\ last = offset + k /\ last <= N
      BY <2>1, <2>3, <3>3, <2>5
    <3> HIDE DEF k, last
    <3> DEFINE l == SubSeq(found, 0 + 1, k)
               r == SubSeq(C, offset + 1, last)
    <3>5. l \in Seq(Int) /\ Len(l) = k - 0 /\ \A i \in 1 .. k - 0 : l[i] = found[0 + i]
      BY <3>3, <3>4, CutFacts
    <3>6. /\ r \in Seq(Int) /\ Len(r) = last - offset
          /\ \A i \in 1 .. last - offset : r[i] = C[offset + i]
      <4>1. last \in Nat /\ offset \in Nat /\ offset <= last /\ last <= Len(C)
        BY <2>2, <2>3, <3>4
      <4> HIDE DEF l
      <4> QED
        BY <4>1, <2>2, CutFacts
    <3> HIDE DEF l, r
    <3>7. k - 0 = k /\ last - offset = k /\ 0 + 1 = 1
      BY <2>3, <3>4
    <3>8. \A i \in 1 .. k : l[i] = r[i]
      <4> TAKE i \in 1 .. k
      <4>1. i \in 1 .. N - offset /\ 0 + i = i
        BY <3>3, <3>4
      <4> QED
        BY <4>1, <3>3, <3>5, <3>6, <3>7
    <3>9. l = [i \in 1 .. k |-> l[i]] /\ r = [i \in 1 .. k |-> r[i]]
      BY <3>4, <3>5, <3>6, <3>7
    <3>10. l = r
      BY <3>8, <3>9
    <3>11. searchStoreReadAddresses(offset, count) = r
      BY <3>2, <3>7, <3>10, Zenon DEF l
    <3> QED
      BY <3>11, <2>2 DEF r, C, N, last
  <2>6. (offset >= N \/ count = 0) \/ (offset < N /\ count # 0)
    <3> HIDE DEF N
    <3> QED
      BY <2>1, <2>3
  <2> QED
    BY <2>4, <2>5, <2>6, Zenon
<1> QED
  BY <1>1, WrittenHolds, CountedHolds, PTL
=============================================================================
