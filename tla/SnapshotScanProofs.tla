------------------------- MODULE SnapshotScanProofs -------------------------
(***************************************************************************)
(* Proofs about SnapshotScan: for every chunk size, alignment and layout   *)
(* the slots stored are exactly the readable ones, the buffers suffice and *)
(* the values stored were read from their own slots.                       *)
(*                                                                         *)
(* The argument.  The number of slots of a chunk is a maximum, so slot n   *)
(* is stored exactly if it begins in the chunk and ends in the mapping     *)
(* (SlotIsStored).  Everything else follows from that and from what a      *)
(* chunk and a mapping are: BuffersSuffice because a chunk is limited in   *)
(* bytes and in slots, SlotsAreExact because mappings are disjoint and the *)
(* cursor passes every address once, AlignedValuesAreRead because chunk    *)
(* boundaries fall between values.                                         *)
(***************************************************************************)
EXTENDS SnapshotScan, SequenceTheorems, NaturalsInduction, WellFoundedInduction, TLAPS

-----------------------------------------------------------------------------
(* Division and multiples. *)

\* What quotient and remainder are.
LEMMA Division ==
    ASSUME NEW x \in Int, NEW d \in Int, d > 0
    PROVE  /\ x \div d \in Int /\ x % d \in Int
           /\ x = (x \div d) * d + (x % d)
           /\ 0 <= x % d /\ x % d < d
<1>1. x = d * (x \div d) + (x % d)
  OBVIOUS
<1>2. x \div d \in Int /\ x % d \in Int /\ 0 <= x % d /\ x % d < d
  OBVIOUS
<1>3. d * (x \div d) = (x \div d) * d
  BY <1>2
<1>4. QED
  BY <1>1, <1>2, <1>3

\* A multiple has a factor.
LEMMA Factor ==
    ASSUME NEW x \in Nat, NEW d \in Nat \ {0}, x % d = 0
    PROVE  \E k \in Nat : x = k * d
<1>1. x \div d \in Int /\ x = (x \div d) * d
  BY Division
<1>2. x \div d >= 0
  BY <1>1
<1>3. QED
  BY <1>1, <1>2

\* A product is a multiple.
LEMMA Product ==
    ASSUME NEW k \in Nat, NEW d \in Nat \ {0}
    PROVE  k * d \in Nat /\ (k * d) % d = 0
BY Z3

\* Sums of multiples are multiples.
LEMMA SumOfMultiples ==
    ASSUME NEW x \in Nat, NEW y \in Nat, NEW d \in Nat \ {0}, x % d = 0, y % d = 0
    PROVE  (x + y) % d = 0
<1>1. PICK k \in Nat : x = k * d
  BY Factor
<1>2. PICK l \in Nat : y = l * d
  BY Factor
<1>3. x + y = (k + l) * d
  BY <1>1, <1>2, Z3
<1>4. k + l \in Nat
  OBVIOUS
<1>5. ((k + l) * d) % d = 0
  BY <1>4, Product
<1>6. QED
  BY <1>3, <1>5

\* Two multiples are at least d apart, and their distance is a multiple.
LEMMA Apart ==
    ASSUME NEW x \in Nat, NEW y \in Nat, NEW d \in Nat \ {0}, x % d = 0, y % d = 0
    PROVE  /\ x < y => x + d <= y
           /\ x <= y => \E k \in Nat : y = x + k * d
<1>1. PICK k \in Nat : x = k * d
  BY Factor
<1>2. PICK l \in Nat : y = l * d
  BY Factor
<1>3. x <= y => k <= l
  BY <1>1, <1>2, Z3
<1>4. x <= y => y = x + (l - k) * d
  BY <1>1, <1>2, Z3
<1>5. x < y => x + d <= y
  <2>1. SUFFICES ASSUME x < y PROVE x + d <= y
    OBVIOUS
  <2>2. k < l
    BY <2>1, <1>1, <1>2, <1>3
  <2>3. QED
    BY <2>2, <1>1, <1>2, Z3
<1>6. ASSUME x <= y PROVE \E i \in Nat : y = x + i * d
  <2>1. l - k \in Nat /\ y = x + (l - k) * d
    BY <1>3, <1>4, <1>6
  <2>2. QED
    BY <2>1, Zenon
<1>7. QED
  BY <1>5, <1>6

\* A multiple of a multiple is a multiple.
LEMMA MultipleOfMultiple ==
    ASSUME NEW x \in Nat, NEW e \in Nat \ {0}, NEW d \in Nat \ {0}, x % e = 0, e % d = 0
    PROVE  x % d = 0
<1>1. PICK k \in Nat : x = k * e
  BY Factor
<1>2. PICK l \in Nat : e = l * d
  BY Factor
<1>3. x = (k * l) * d /\ k * l \in Nat
  BY <1>1, <1>2, Z3
<1>4. QED
  BY <1>3, Product

\* Rounding a quotient up: the multiples of d below n are those of the first c numbers.
LEMMA RoundedUp ==
    ASSUME NEW n \in Nat, NEW d \in Nat \ {0}
    PROVE  LET c == (n + d - 1) \div d IN
           c \in Nat /\ \A k \in Nat : k < c <=> k * d < n
<1> DEFINE c == (n + d - 1) \div d
<1>1. c \in Int /\ n <= c * d /\ c * d < n + d
  <2>1. (n + d - 1) % d \in Int /\ c \in Int /\ n + d - 1 = c * d + ((n + d - 1) % d)
        /\ 0 <= (n + d - 1) % d /\ (n + d - 1) % d < d
    BY Division
  <2>2. c * d \in Int
    BY <2>1
  <2>3. QED
    BY <2>1, <2>2
<1> HIDE DEF c
<1>2. c >= 0
  BY <1>1, Z3
<1>3. ASSUME NEW k \in Nat PROVE k < c <=> k * d < n
  <2>1. CASE k < c
    <3>1. k * d + d <= c * d
      BY <2>1, <1>1, Z3
    <3>2. k * d \in Int /\ c * d \in Int
      BY <1>1
    <3>3. QED
      BY <3>1, <3>2, <2>1, <1>1
  <2>2. CASE c <= k
    <3>1. c * d <= k * d
      BY <2>2, <1>1, Z3
    <3>2. k * d \in Int /\ c * d \in Int
      BY <1>1
    <3>3. QED
      BY <3>1, <3>2, <2>2, <1>1
  <2>3. QED
    BY <2>1, <2>2, <1>1
<1>4. QED
  BY <1>1, <1>2, <1>3 DEF c

\* alignUp finds the next multiple, or there is none below 2^64.
LEMMA AlignUp ==
    ASSUME NEW v \in Nat, NEW d \in Nat \ {0}, AddressLimit \in Nat, AddressLimit % d = 0
    PROVE  /\ alignUp(v, d) \in Int
           /\ v <= AddressLimit - d =>
                  /\ alignUp(v, d) \in Nat /\ v <= alignUp(v, d)
                  /\ alignUp(v, d) < v + d /\ alignUp(v, d) % d = 0
           /\ v > AddressLimit - d =>
                  /\ alignUp(v, d) = AddressLimit - 1
                  /\ \A a \in Nat : v <= a /\ a < AddressLimit => a % d # 0
<1>1. CASE v <= AddressLimit - d
  <2> DEFINE q == (v + d - 1) \div d
  <2>1. alignUp(v, d) = q * d
    BY <1>1 DEF alignUp
  <2>2. q \in Int /\ (v + d - 1) % d \in Int /\ v + d - 1 = q * d + ((v + d - 1) % d)
        /\ 0 <= (v + d - 1) % d /\ (v + d - 1) % d < d
    BY Division
  <2> HIDE DEF q
  <2>3. q * d \in Int
    BY <2>2
  <2>4. v <= q * d /\ q * d < v + d
    BY <2>2, <2>3
  <2>5. q >= 0
    BY <2>4, <2>2, Z3
  <2>6. q * d \in Nat /\ (q * d) % d = 0
    BY <2>5, <2>2, Product
  <2>7. QED
    BY <2>1, <2>3, <2>4, <2>6, <1>1
<1>2. CASE v > AddressLimit - d
  <2>1. alignUp(v, d) = AddressLimit - 1
    BY <1>2 DEF alignUp
  <2>2. ASSUME NEW a \in Nat, v <= a, a < AddressLimit, a % d = 0 PROVE FALSE
    <3>1. a + d <= AddressLimit
      BY <2>2, Apart
    <3>2. QED
      BY <3>1, <2>2, <1>2
  <2>3. \A a \in Nat : v <= a /\ a < AddressLimit => a % d # 0
    BY <2>2, Zenon
  <2>4. ~(v <= AddressLimit - d) /\ AddressLimit - 1 \in Int
    BY <1>2
  <2>5. QED
    BY <2>1, <2>3, <2>4, Zenon
<1>3. QED
  BY <1>1, <1>2

-----------------------------------------------------------------------------
(* Least and greatest elements. *)

\* The order of the naturals as a relation.
Less == {p \in Nat \X Nat : p[1] < p[2]}

\* A set of naturals that is not empty has a least element.
LEMMA LeastElement ==
    ASSUME NEW T \in SUBSET Nat, T # {}
    PROVE  \E n \in T : \A m \in T : n <= m
<1>1. IsWellFoundedOn(Less, Nat)
  BY NatLessThanWellFounded, Zenon DEF Less, OpToRel
<1>2. PICK n \in T : \A m \in T : ~(<<m, n>> \in Less)
  BY <1>1, WFMin
<1>3. ASSUME NEW m \in T PROVE n <= m
  <2>1. m \in Nat /\ n \in Nat
    OBVIOUS
  <2>2. <<m, n>> \notin Less
    BY <1>2
  <2>3. QED
    BY <2>1, <2>2 DEF Less
<1>4. QED
  BY <1>3

\* A set of naturals below a bound that is not empty has a greatest element.
LEMMA GreatestElement ==
    ASSUME NEW b \in Nat, NEW T \in SUBSET (0 .. b), T # {}
    PROVE  \E n \in T : \A m \in T : m <= n
<1> DEFINE U == {k \in 0 .. b : b - k \in T}
<1>1. U \in SUBSET Nat
  OBVIOUS
<1>2. U # {}
  <2>1. PICK t \in T : TRUE
    OBVIOUS
  <2>2. t \in 0 .. b
    BY <2>1
  <2>3. b - t \in 0 .. b /\ b - (b - t) = t
    BY <2>2
  <2>4. QED
    BY <2>1, <2>3
<1> HIDE DEF U
<1>3. PICK k \in U : \A m \in U : k <= m
  BY <1>1, <1>2, LeastElement
<1>4. k \in 0 .. b /\ b - k \in T
  BY <1>3 DEF U
<1>5. ASSUME NEW m \in T PROVE m <= b - k
  <2>1. m \in 0 .. b
    OBVIOUS
  <2>2. b - m \in 0 .. b /\ b - (b - m) = m
    BY <2>1
  <2>3. b - m \in U
    BY <2>2 DEF U
  <2>4. k <= b - m
    BY <2>3, <1>3
  <2>5. QED
    BY <2>1, <2>4, <1>4
<1>6. QED
  BY <1>4, <1>5

-----------------------------------------------------------------------------
(* One chunk. *)

\* What is known of the request.
LEMMA RequestFacts ==
    ASSUME TypeOK
    PROVE  /\ AddressLimit \in Nat \ {0} /\ Chunk \in Nat \ {0} /\ Slack \in Nat
           /\ req.width \in Nat \ {0} /\ req.alignment \in Nat \ {0}
           /\ req.start \in Addresses /\ req.end \in Addresses
           /\ req.width <= Slack /\ req.width <= req.end - req.start
           /\ Chunk % req.width = 0 /\ AddressLimit % req.alignment = 0
           /\ req.alignment >= req.width => req.alignment % req.width = 0
BY RangeAssumption, SnapshotAssumption DEF TypeOK

\* The width is no more than a chunk.
LEMMA WidthFits ==
    ASSUME TypeOK
    PROVE  /\ Chunk \div req.width \in Nat \ {0}
           /\ (Chunk \div req.width) * req.width = Chunk
<1> DEFINE w == req.width
<1>1. w \in Nat \ {0} /\ Chunk \in Nat \ {0} /\ Chunk % w = 0
  BY RequestFacts
<1> HIDE DEF w
<1>2. Chunk \div w \in Int /\ Chunk = (Chunk \div w) * w
  BY <1>1, Division
<1>3. Chunk \div w > 0
  BY <1>1, <1>2, Z3
<1>4. QED
  BY <1>2, <1>3 DEF w

\* The state in which a chunk is read.
AtChunk == TypeOK /\ Within /\ cursor < mappingEnd

\* A chunk is not empty, stays in the mapping, and is limited in bytes and in slots.
LEMMA AmountFacts ==
    ASSUME AtChunk
    PROVE  /\ amount \in Nat \ {0} /\ amount <= Chunk
           /\ cursor + amount <= mappingEnd
           /\ amount <= (Chunk \div req.width) * req.alignment
           /\ amount # mappingEnd - cursor => amount = maximumSpan
<1> DEFINE k == Chunk \div req.width
           al == req.alignment
<1>1. k \in Nat \ {0} /\ al \in Nat \ {0} /\ Chunk \in Nat \ {0}
  BY RequestFacts, WidthFits DEF AtChunk
<1>2. cursor \in Int /\ mappingEnd \in Int /\ cursor < mappingEnd
  BY RequestFacts DEF AtChunk, TypeOK, Addresses
<1>3. amount = Least(Least(k * al, Chunk), mappingEnd - cursor)
      /\ maximumSpan = Least(k * al, Chunk)
  BY DEF amount, maximumSpan
<1> HIDE DEF k, al
<1>4. k * al \in Nat \ {0}
  BY <1>1, Z3
<1>5. QED
  BY <1>1, <1>2, <1>3, <1>4 DEF Least, k, al

\* The number of bytes read.
LEMMA ReadSizeFacts ==
    ASSUME AtChunk
    PROVE  /\ readSize \in Nat
           /\ amount <= readSize /\ readSize <= amount + req.width - 1
           /\ cursor + readSize <= mappingEnd
           /\ readSize <= Chunk + Slack
<1>1. amount \in Nat \ {0} /\ amount <= Chunk /\ cursor + amount <= mappingEnd
  BY AmountFacts
<1>2. req.width \in Nat \ {0} /\ req.width <= Slack /\ Chunk \in Nat /\ Slack \in Nat
      /\ cursor \in Int /\ mappingEnd \in Int
  BY RequestFacts DEF AtChunk, TypeOK, Addresses
<1>3. QED
  BY <1>1, <1>2 DEF readSize

\* The first slot of the chunk.
LEMMA FirstFacts ==
    ASSUME AtChunk
    PROVE  /\ first \in Int
           /\ first # AddressLimit - 1 =>
                  /\ first \in Nat /\ cursor <= first /\ first % req.alignment = 0
           /\ \A a \in Nat : cursor <= a /\ a < req.end /\ a % req.alignment = 0 =>
                  first # AddressLimit - 1 /\ first <= a
<1> DEFINE al == req.alignment
<1>1. al \in Nat \ {0} /\ AddressLimit \in Nat /\ AddressLimit % al = 0
      /\ cursor \in Nat /\ req.end \in Nat /\ req.end <= AddressLimit - 1
  BY RequestFacts DEF AtChunk, TypeOK, Addresses
<1>2. first = alignUp(cursor, al)
  BY DEF first
<1> HIDE DEF al
<1>3. CASE cursor <= AddressLimit - al
  <2>1. first \in Nat /\ cursor <= first /\ first < cursor + al /\ first % al = 0
    BY <1>1, <1>2, <1>3, AlignUp
  <2>2. ASSUME NEW a \in Nat, cursor <= a, a < req.end, a % al = 0
        PROVE  first # AddressLimit - 1 /\ first <= a
    <3>1. first <= a
      <4>1. SUFFICES ASSUME a < first PROVE FALSE
        BY <2>1
      <4>2. a + al <= first
        BY <4>1, <2>1, <2>2, <1>1, Apart
      <4>3. QED
        BY <4>2, <2>1, <2>2, <1>1
    <3>2. QED
      BY <3>1, <2>1, <2>2, <1>1
  <2>3. QED
    BY <2>1, <2>2 DEF al
<1>4. CASE cursor > AddressLimit - al
  <2>1. first = AddressLimit - 1 /\ first \in Int
    BY <1>1, <1>2, <1>4, AlignUp
  <2>2. \A a \in Nat : cursor <= a /\ a < AddressLimit => a % al # 0
    BY <1>1, <1>4, AlignUp
  <2>3. ASSUME NEW a \in Nat, cursor <= a, a < req.end, a % al = 0
        PROVE  FALSE
    <3>1. a < AddressLimit
      BY <2>3, <1>1
    <3>2. QED
      BY <3>1, <2>2, <2>3
  <2>4. QED
    BY <2>1, <2>3 DEF al
<1>5. QED
  BY <1>1, <1>3, <1>4

\* Of the slots that begin in the chunk, the first n end inside the mapping.
Fits(n) == n = 0 \/ first + (n - 1) * req.alignment + req.width <= mappingEnd

\* The slots that begin in the chunk.
begun == (cursor + amount - first + req.alignment - 1) \div req.alignment

\* The condition under which runBegin counts slots at all.
Counts ==
    /\ first # AddressLimit - 1 /\ first < cursor + amount
    /\ first + req.width <= mappingEnd

\* The number of slots is the greatest that fits.
LEMMA SlotsChosen ==
    ASSUME AtChunk
    PROVE  /\ Counts => /\ begun \in Nat /\ slots \in 0 .. begun /\ Fits(slots)
                        /\ \A m \in slots + 1 .. begun : ~Fits(m)
           /\ ~Counts => slots = 0
<1>1. CASE ~Counts
  BY <1>1 DEF Counts, slots
<1>2. CASE Counts
  <2>1. first \in Nat /\ cursor <= first /\ first < cursor + amount
    BY <1>2, FirstFacts DEF Counts
  <2>2. amount \in Nat /\ cursor \in Nat /\ req.alignment \in Nat \ {0}
    BY AmountFacts, RequestFacts DEF AtChunk, TypeOK, Addresses
  <2>3. begun \in Nat
    <3> DEFINE n == cursor + amount - first
    <3>1. n \in Nat
      BY <2>1, <2>2
    <3>2. begun = (n + req.alignment - 1) \div req.alignment
      BY DEF begun
    <3> HIDE DEF n
    <3>3. QED
      BY <3>1, <3>2, <2>2, RoundedUp
  <2> DEFINE T == {n \in 0 .. begun : Fits(n)}
  <2>4. T \in SUBSET (0 .. begun) /\ T # {}
    <3>1. 0 \in 0 .. begun /\ Fits(0)
      BY <2>3 DEF Fits
    <3>2. QED
      BY <3>1
  <2> HIDE DEF T
  <2>5. PICK g \in T : \A m \in T : m <= g
    BY <2>3, <2>4, GreatestElement
  <2>6. g \in 0 .. begun /\ Fits(g)
    BY <2>5 DEF T
  <2>7. ASSUME NEW m \in g + 1 .. begun PROVE ~Fits(m)
    <3>1. m \in 0 .. begun /\ ~(m <= g)
      BY <2>7, <2>6, <2>3
    <3>2. QED
      BY <3>1, <2>5 DEF T
  <2>8. slots = CHOOSE n \in 0 .. begun : Fits(n) /\ \A m \in n + 1 .. begun : ~Fits(m)
    BY <1>2, Zenon DEF slots, Counts, Fits, begun
  <2>9. slots \in 0 .. begun /\ Fits(slots) /\ \A m \in slots + 1 .. begun : ~Fits(m)
    <3>1. \E n \in 0 .. begun : Fits(n) /\ \A m \in n + 1 .. begun : ~Fits(m)
      BY <2>6, <2>7
    <3>2. QED
      BY <3>1, <2>8, Zenon
  <2>10. QED
    BY <2>3, <2>9, <1>2
<1>3. QED
  BY <1>1, <1>2

(***************************************************************************)
(* Slot n is stored exactly if it begins in the chunk and ends inside the  *)
(* mapping.                                                                *)
(***************************************************************************)
LEMMA SlotIsStored ==
    ASSUME AtChunk
    PROVE  /\ slots \in Nat
           /\ \A n \in Nat : n < slots <=>
                  /\ first # AddressLimit - 1
                  /\ first + n * req.alignment < cursor + amount
                  /\ first + n * req.alignment + req.width <= mappingEnd
<1> DEFINE al == req.alignment
<1>1. al \in Nat \ {0} /\ req.width \in Nat \ {0} /\ cursor \in Nat /\ mappingEnd \in Nat
      /\ amount \in Nat /\ first \in Int /\ AddressLimit \in Nat
  BY AmountFacts, FirstFacts, RequestFacts DEF AtChunk, TypeOK, Addresses
<1>2. CASE ~Counts
  <2>1. slots = 0
    BY <1>2, SlotsChosen
  <2>2. ASSUME NEW n \in Nat, first # AddressLimit - 1, first + n * al < cursor + amount,
               first + n * al + req.width <= mappingEnd
        PROVE  FALSE
    <3>1. n * al \in Nat
      BY <1>1, Product
    <3>2. QED
      BY <3>1, <2>2, <1>1, <1>2 DEF Counts
  <2>3. QED
    BY <2>1, <2>2
<1>3. CASE Counts
  <2>1. begun \in Nat /\ slots \in 0 .. begun /\ Fits(slots)
        /\ \A m \in slots + 1 .. begun : ~Fits(m)
    BY <1>3, SlotsChosen
  <2>2. first \in Nat /\ first # AddressLimit - 1 /\ first < cursor + amount
    BY <1>3, FirstFacts DEF Counts
  <2>3. ASSUME NEW n \in Nat PROVE n < begun <=> first + n * al < cursor + amount
    <3> DEFINE r == cursor + amount - first
    <3>1. r \in Nat
      BY <2>2, <1>1
    <3>2. begun = (r + al - 1) \div al
      BY DEF begun
    <3>3. n * al \in Nat
      BY <1>1, Product
    <3>4. n < begun <=> n * al < r
      <4> HIDE DEF r, al
      <4>1. QED
        BY <3>1, <3>2, <1>1, RoundedUp
    <3>5. QED
      BY <3>3, <3>4, <1>1
  <2>4. ASSUME NEW n \in Nat, n < slots
        PROVE  first + n * al < cursor + amount /\ first + n * al + req.width <= mappingEnd
    <3>1. first + n * al < cursor + amount
      BY <2>1, <2>3, <2>4
    <3>2. first + (slots - 1) * al + req.width <= mappingEnd
      BY <2>1, <2>4 DEF Fits
    <3>3. n * al <= (slots - 1) * al /\ n * al \in Int /\ (slots - 1) * al \in Int
      <4>1. slots - 1 \in Nat /\ n <= slots - 1
        BY <2>1, <2>4
      <4> HIDE DEF al
      <4>2. QED
        BY <4>1, <1>1, Z3
    <3>4. QED
      BY <3>1, <3>2, <3>3, <1>1
  <2>5. ASSUME NEW n \in Nat, first + n * al < cursor + amount,
               first + n * al + req.width <= mappingEnd, ~(n < slots)
        PROVE  FALSE
    <3>1. n < begun
      BY <2>3, <2>5
    <3>2. n + 1 \in slots + 1 .. begun
      BY <3>1, <2>1, <2>5
    <3>3. Fits(n + 1)
      BY <2>5 DEF Fits
    <3>4. QED
      BY <3>2, <3>3, <2>1
  <2>6. slots \in Nat
    BY <2>1
  <2>7. QED
    BY <2>2, <2>4, <2>5, <2>6
<1>4. QED
  BY <1>2, <1>3

\* The values of a chunk fit into a chunk, and it spans no more than the buffers hold.
LEMMA SlotsFit ==
    ASSUME AtChunk
    PROVE  /\ slots \in Nat /\ slots <= Chunk /\ slots * req.width <= Chunk
           /\ slots # 0 => /\ first \in Addresses
                           /\ (slots - 1) * req.alignment + req.width <= Chunk + Slack
<1> DEFINE al == req.alignment
           w == req.width
           k == Chunk \div req.width
<1>1. al \in Nat \ {0} /\ w \in Nat \ {0} /\ cursor \in Nat /\ mappingEnd \in Nat
      /\ amount \in Nat /\ first \in Int /\ AddressLimit \in Nat
      /\ w <= Slack /\ Slack \in Nat /\ Chunk \in Nat /\ mappingEnd <= AddressLimit - 1
  BY AmountFacts, FirstFacts, RequestFacts DEF AtChunk, TypeOK, Addresses
<1>2. k \in Nat \ {0} /\ k * w = Chunk
  BY WidthFits DEF AtChunk
<1>3. amount <= k * al /\ amount <= Chunk
  BY AmountFacts
<1>4. slots \in Nat
  BY SlotIsStored
<1>5. CASE slots = 0
  BY <1>1, <1>5
<1>6. CASE slots # 0
  <2>1. slots - 1 \in Nat /\ slots - 1 < slots
    BY <1>4, <1>6
  <2>2. first # AddressLimit - 1 /\ first + (slots - 1) * al < cursor + amount
        /\ first + (slots - 1) * al + w <= mappingEnd
    BY <2>1, SlotIsStored
  <2>3. first \in Nat /\ cursor <= first
    BY <2>2, FirstFacts
  <2> HIDE DEF al, w, k
  <2>4. (slots - 1) * al \in Nat
    BY <2>1, <1>1, Product
  <2>5. (slots - 1) * al < amount
    BY <2>2, <2>3, <2>4, <1>1
  <2>6. slots - 1 < k
    <3>1. (slots - 1) * al < k * al /\ k * al \in Int
      BY <2>4, <2>5, <1>1, <1>2, <1>3
    <3>2. QED
      BY <3>1, <2>1, <1>1, <1>2, Z3
  <2>7. slots * w <= Chunk
    <3>1. slots * w <= k * w
      BY <2>6, <1>1, <1>2, <1>4, Z3
    <3>2. QED
      BY <3>1, <1>2
  <2>8. slots <= slots * w
    BY <1>1, <1>4, Z3
  <2>9. slots <= Chunk
    <3>1. slots * w \in Int
      BY <1>1, <1>4
    <3>2. QED
      BY <3>1, <2>7, <2>8, <1>1, <1>4
  <2>10. first \in Addresses
    BY <2>2, <2>3, <2>4, <1>1 DEF Addresses
  <2>11. (slots - 1) * al + w <= Chunk + Slack
    BY <2>4, <2>5, <1>1, <1>3
  <2>12. QED
    BY <1>4, <2>7, <2>9, <2>10, <2>11 DEF al, w
<1>7. QED
  BY <1>5, <1>6

\* The first part of BuffersSuffice: the two writes of a chunk stay in their buffers.
LEMMA ReadsFit ==
    ASSUME TypeOK, Within
    PROVE  ReadFits
<1>1. SUFFICES ASSUME cursor < mappingEnd
               PROVE  readSize <= Chunk + Slack /\ slots * req.width <= Chunk + Slack
  BY DEF ReadFits
<1>2. AtChunk
  BY <1>1 DEF AtChunk
<1>3. Chunk \in Nat /\ Slack \in Nat /\ req.width \in Nat /\ slots \in Nat
  BY <1>2, RequestFacts, SlotsFit
<1>4. slots * req.width \in Int
  BY <1>3
<1>5. QED
  BY <1>2, <1>3, <1>4, ReadSizeFacts, SlotsFit

-----------------------------------------------------------------------------
(* Mappings. *)

\* An address lies in mapping i.
Holds(i, a) == layout[i].addr <= a /\ a < layout[i].addr + layout[i].size

\* What is known of the layout.
LEMMA LayoutFacts ==
    ASSUME TypeOK
    PROVE  /\ DOMAIN layout \subseteq Nat
           /\ \A i \in DOMAIN layout :
                  /\ layout[i].addr \in Nat /\ layout[i].addr < AddressLimit
                  /\ layout[i].size \in Nat \ {0} /\ layout[i].size <= AddressLimit
                  /\ layout[i].readable \in BOOLEAN
                  /\ layout[i].addr % req.width = 0 /\ layout[i].size % req.width = 0
           /\ \A i, j \in DOMAIN layout :
                  i < j => layout[i].addr + layout[i].size <= layout[j].addr
           /\ \E i \in DOMAIN layout : req.end <= layout[i].addr + layout[i].size
<1>1. layout \in Layouts /\ req \in Requests
  BY DEF TypeOK
<1>2. layout \in Seq(Mapping)
      /\ \A i, j \in DOMAIN layout : i < j => layout[i].addr + layout[i].size <= layout[j].addr
  BY <1>1, SnapshotAssumption
<1>3. /\ \E i \in DOMAIN layout : req.end <= layout[i].addr + layout[i].size
      /\ \A i \in DOMAIN layout : layout[i].addr % req.width = 0 /\ layout[i].size % req.width = 0
  BY <1>1, SnapshotAssumption
<1>4. DOMAIN layout \subseteq Nat
  BY <1>2
<1>5. ASSUME NEW i \in DOMAIN layout
      PROVE  /\ layout[i].addr \in Nat /\ layout[i].addr < AddressLimit
             /\ layout[i].size \in Nat \ {0} /\ layout[i].size <= AddressLimit
             /\ layout[i].readable \in BOOLEAN
  <2>1. layout[i] \in Mapping
    BY <1>2
  <2>2. QED
    BY <2>1, RangeAssumption DEF Mapping, Addresses
<1>6. QED
  BY <1>2, <1>3, <1>4, <1>5

\* No address lies in two mappings.
LEMMA OneMapping ==
    ASSUME TypeOK, NEW a \in Nat, NEW i \in DOMAIN layout, NEW j \in DOMAIN layout,
           Holds(i, a), Holds(j, a)
    PROVE  i = j
<1>1. i \in Nat /\ j \in Nat /\ layout[i].addr \in Nat /\ layout[j].addr \in Nat
      /\ layout[i].size \in Nat /\ layout[j].size \in Nat
      /\ (i < j => layout[i].addr + layout[i].size <= layout[j].addr)
      /\ (j < i => layout[j].addr + layout[j].size <= layout[i].addr)
  BY LayoutFacts
<1>2. QED
  BY <1>1 DEF Holds

\* The memory query finds the first mapping that ends behind the cursor.
LEMMA QueryFacts ==
    ASSUME TypeOK, Within, cursor < req.end
    PROVE  \E i \in DOMAIN layout :
               /\ queryMapping(layout, cursor) = layout[i]
               /\ cursor < layout[i].addr + layout[i].size
               /\ \A j \in DOMAIN layout :
                      cursor < layout[j].addr + layout[j].size => i <= j
<1> DEFINE T == {i \in DOMAIN layout : cursor < layout[i].addr + layout[i].size}
<1>1. T \in SUBSET Nat
  BY LayoutFacts
<1>2. T # {}
  <2>1. PICK i \in DOMAIN layout : req.end <= layout[i].addr + layout[i].size
    BY LayoutFacts
  <2>2. layout[i].addr \in Nat /\ layout[i].size \in Nat
    BY LayoutFacts
  <2>3. cursor \in Nat /\ req.end \in Nat
    BY RequestFacts DEF TypeOK, Addresses
  <2>4. QED
    BY <2>1, <2>2, <2>3
<1> HIDE DEF T
<1>3. PICK g \in T : \A j \in T : g <= j
  BY <1>1, <1>2, LeastElement
<1>4. g \in DOMAIN layout /\ cursor < layout[g].addr + layout[g].size
      /\ \A j \in DOMAIN layout : cursor < layout[j].addr + layout[j].size => g <= j
  BY <1>3 DEF T
<1>5. QED
  BY <1>4, Zenon DEF queryMapping

\* The end of a mapping that does not reach the end of the address space.
LEMMA EndFacts ==
    ASSUME TypeOK, NEW i \in DOMAIN layout, EndOf(layout[i]) > layout[i].addr
    PROVE  EndOf(layout[i]) = layout[i].addr + layout[i].size
<1> DEFINE a == layout[i].addr
           n == layout[i].size
           q == (a + n) \div AddressLimit
           r == (a + n) % AddressLimit
<1>1. a \in Nat /\ a < AddressLimit /\ n \in Nat /\ n <= AddressLimit
  BY LayoutFacts
<1>2. AddressLimit \in Nat \ {0}
  BY RangeAssumption
<1>3. EndOf(layout[i]) = r
  BY DEF EndOf
<1> HIDE DEF a, n
<1>4. q \in Int /\ r \in Int /\ a + n = q * AddressLimit + r /\ 0 <= r /\ r < AddressLimit
  <2>1. a + n \in Int /\ AddressLimit \in Int /\ AddressLimit > 0
    BY <1>1, <1>2
  <2>2. QED
    BY <2>1, Division
<1> HIDE DEF q, r
<1>5. q = 0 \/ q = 1
  <2>1. CASE q < 0
    <3>1. q * AddressLimit <= -AddressLimit
      BY <2>1, <1>2, <1>4, Z3
    <3>2. QED
      BY <3>1, <1>1, <1>2, <1>4
  <2>2. CASE q > 1
    <3>1. q * AddressLimit >= 2 * AddressLimit
      BY <2>2, <1>2, <1>4, Z3
    <3>2. QED
      BY <3>1, <1>1, <1>2, <1>4
  <2>3. QED
    BY <2>1, <2>2, <1>4
<1>6. q # 1
  <2>1. SUFFICES ASSUME q = 1 PROVE FALSE
    OBVIOUS
  <2>2. a + n = AddressLimit + r
    BY <2>1, <1>2, <1>4
  <2>3. r > a
    BY <1>3 DEF a
  <2>4. QED
    BY <2>2, <2>3, <1>1, <1>2, <1>4
<1>7. a + n = r
  BY <1>2, <1>4, <1>5, <1>6
<1>8. QED
  BY <1>3, <1>7 DEF a, n

\* A readable slot begins in a readable mapping.
LEMMA ReadableHeld ==
    ASSUME TypeOK, NEW a \in Nat, Readable(a)
    PROVE  \E i \in DOMAIN layout : layout[i].readable /\ Holds(i, a)
                                    /\ a + req.width <= layout[i].addr + layout[i].size
<1>1. PICK i \in DOMAIN layout : /\ layout[i].readable /\ layout[i].addr <= a
                                 /\ a + req.width <= layout[i].addr + layout[i].size
  BY DEF Readable
<1>2. layout[i].addr \in Nat /\ layout[i].size \in Nat
  BY LayoutFacts
<1>3. req.width \in Nat \ {0}
  BY RequestFacts
<1>4. Holds(i, a)
  BY <1>1, <1>2, <1>3 DEF Holds
<1>5. QED
  BY <1>1, <1>4

(***************************************************************************)
(* searchPlanMapping: a part of the range that is skipped has no readable  *)
(* slot, and a mapping that is read holds the cursor.                      *)
(***************************************************************************)
LEMMA PlanFacts ==
    ASSUME TypeOK, Within, cursor < req.end, NEW p,
           p = searchPlanMapping(cursor, req.end, queryMapping(layout, cursor))
    PROVE  /\ p.action # "invalid" =>
                  /\ p.end \in Nat /\ cursor < p.end /\ p.end <= req.end
                  /\ p.end % req.width = 0 \/ p.end = req.end
           /\ p.action = "skip" =>
                  \A a \in Nat : cursor <= a /\ a < p.end => ~Readable(a)
           /\ p.action = "read" =>
                  \E i \in DOMAIN layout :
                      /\ layout[i].readable /\ layout[i].addr <= cursor
                      /\ p.end = Least(layout[i].addr + layout[i].size, req.end)
<1>1. PICK i \in DOMAIN layout :
          /\ queryMapping(layout, cursor) = layout[i]
          /\ cursor < layout[i].addr + layout[i].size
          /\ \A j \in DOMAIN layout :
                 cursor < layout[j].addr + layout[j].size => i <= j
  BY QueryFacts
<1> DEFINE m == layout[i]
<1>2. m.addr \in Nat /\ m.addr < AddressLimit /\ m.size \in Nat \ {0} /\ m.readable \in BOOLEAN
      /\ m.addr % req.width = 0 /\ m.size % req.width = 0
  BY LayoutFacts
<1>3. cursor \in Nat /\ req.end \in Nat /\ req.width \in Nat \ {0}
  BY RequestFacts DEF TypeOK, Addresses
<1>4. (m.addr + m.size) % req.width = 0
  BY <1>2, <1>3, SumOfMultiples
<1>5. ASSUME NEW a \in Nat, cursor <= a, NEW j \in DOMAIN layout, Holds(j, a)
      PROVE  j = i \/ m.addr + m.size <= layout[j].addr
  <2>1. layout[j].addr \in Nat /\ layout[j].size \in Nat
    BY LayoutFacts
  <2>2. cursor < layout[j].addr + layout[j].size
    BY <1>3, <1>5, <2>1 DEF Holds
  <2>3. i <= j /\ i \in Nat /\ j \in Nat
    BY <1>1, <2>2, LayoutFacts
  <2>4. i < j => m.addr + m.size <= layout[j].addr
    BY LayoutFacts
  <2>5. QED
    BY <2>3, <2>4
<1>6. CASE EndOf(m) <= m.addr
  <2>1. p = [action |-> "invalid", end |-> cursor]
    BY <1>1, <1>6 DEF searchPlanMapping
  <2>2. p.action = "invalid"
    BY <2>1
  <2>3. QED
    BY <2>2
<1>7. CASE EndOf(m) > m.addr /\ m.addr > cursor
  <2>1. p = [action |-> "skip", end |-> Least(m.addr, req.end)]
    <3>1. ~(cursor >= req.end \/ m.size = 0 \/ EndOf(m) <= m.addr)
      <4>1. EndOf(m) \in Int
        BY <1>2, <1>7, EndFacts
      <4>2. QED
        BY <4>1, <1>2, <1>3, <1>7
    <3>2. QED
      BY <3>1, <1>1, <1>7 DEF searchPlanMapping
  <2>2. p.action = "skip" /\ p.end = Least(m.addr, req.end)
    BY <2>1
  <2>3. p.end \in Nat /\ cursor < p.end /\ p.end <= req.end /\ p.end <= m.addr
        /\ (p.end % req.width = 0 \/ p.end = req.end)
    BY <2>2, <1>2, <1>3, <1>7 DEF Least
  <2>4. ASSUME NEW a \in Nat, cursor <= a, a < p.end, Readable(a) PROVE FALSE
    <3>1. PICK j \in DOMAIN layout : Holds(j, a)
      BY <2>4, ReadableHeld
    <3>2. j = i \/ m.addr + m.size <= layout[j].addr
      BY <2>4, <3>1, <1>5
    <3>3. layout[j].addr <= a /\ layout[j].addr \in Nat
      BY <3>1, LayoutFacts DEF Holds
    <3>4. QED
      BY <3>2, <3>3, <2>3, <2>4, <1>2
  <2>5. QED
    BY <2>2, <2>3, <2>4
<1>8. CASE EndOf(m) > m.addr /\ m.addr <= cursor
  <2> DEFINE e == Least(m.addr + m.size, req.end)
  <2>1. EndOf(m) = m.addr + m.size
    BY <1>8, EndFacts
  <2>2. e \in Nat /\ cursor < e /\ e <= req.end /\ e <= m.addr + m.size
        /\ (e % req.width = 0 \/ e = req.end)
    BY <1>1, <1>2, <1>3, <1>4 DEF Least
  <2>3. p = [action |-> IF m.readable THEN "read" ELSE "skip", end |-> e]
    <3>1. ~(cursor >= req.end \/ m.size = 0 \/ EndOf(m) <= m.addr) /\ ~(m.addr > cursor)
          /\ ~(e <= cursor)
      BY <2>1, <2>2, <1>2, <1>3, <1>8
    <3>2. QED
      BY <3>1, <2>1, <1>1 DEF searchPlanMapping
  <2>4. p.end = e /\ p.action = IF m.readable THEN "read" ELSE "skip"
    BY <2>3
  <2>5. ASSUME ~m.readable, NEW a \in Nat, cursor <= a, a < e, Readable(a) PROVE FALSE
    <3>1. PICK j \in DOMAIN layout : layout[j].readable /\ Holds(j, a)
      BY <2>5, ReadableHeld
    <3>2. j = i \/ m.addr + m.size <= layout[j].addr
      BY <2>5, <3>1, <1>5
    <3>3. layout[j].addr <= a /\ layout[j].addr \in Nat
      BY <3>1, LayoutFacts DEF Holds
    <3>4. j # i
      BY <3>1, <2>5
    <3>5. QED
      BY <3>2, <3>3, <3>4, <2>2, <2>5, <1>2
  <2> HIDE DEF e
  <2>6. CASE m.readable
    <3>1. p.action = "read" /\ p.end = e
      BY <2>4, <2>6
    <3>2. QED
      BY <3>1, <2>2, <2>6, <1>8 DEF e
  <2>7. CASE ~m.readable
    <3>1. p.action = "skip" /\ p.end = e
      BY <2>4, <2>7
    <3>2. QED
      BY <3>1, <2>2, <2>5, <2>7
  <2>8. QED
    BY <2>6, <2>7
<1>9. QED
  <2>1. EndOf(m) \in Int
    BY <1>2, RangeAssumption DEF EndOf
  <2>2. QED
    BY <2>1, <1>2, <1>3, <1>6, <1>7, <1>8

-----------------------------------------------------------------------------
(* What a chunk stores. *)

\* The slots of a chunk are the readable slots that begin in it.
LEMMA ChunkIsExact ==
    ASSUME AtChunk, Inside, NEW a \in Nat
    PROVE  (\E n \in 0 .. slots - 1 : a = first + n * req.alignment)
               <=> cursor <= a /\ a < cursor + amount /\ Readable(a)
<1> DEFINE al == req.alignment
<1>1. PICK i \in DOMAIN layout : Reading(i)
  BY DEF AtChunk, Inside
<1>2. al \in Nat \ {0} /\ req.width \in Nat \ {0} /\ cursor \in Nat /\ mappingEnd \in Nat
      /\ amount \in Nat /\ first \in Int /\ AddressLimit \in Nat /\ req.end \in Nat
      /\ mappingEnd <= req.end /\ cursor + amount <= mappingEnd /\ slots \in Nat
  <2>1. amount \in Nat /\ cursor + amount <= mappingEnd
    BY AmountFacts
  <2>2. first \in Int /\ slots \in Nat
    BY FirstFacts, SlotIsStored
  <2>3. TypeOK /\ Within
    BY DEF AtChunk
  <2>4. al \in Nat \ {0} /\ req.width \in Nat \ {0} /\ AddressLimit \in Nat /\ req.end \in Nat
    BY <2>3, RequestFacts DEF Addresses
  <2>5. cursor \in Nat /\ mappingEnd \in Nat /\ mappingEnd <= req.end
    BY <2>3 DEF TypeOK, Within, Addresses
  <2>6. QED
    BY <2>1, <2>2, <2>4, <2>5
<1>3. layout[i].addr \in Nat /\ layout[i].size \in Nat /\ layout[i].readable
      /\ layout[i].addr <= cursor /\ mappingEnd <= layout[i].addr + layout[i].size
      /\ mappingEnd = Least(layout[i].addr + layout[i].size, req.end)
  <2>1. layout[i].addr \in Nat /\ layout[i].size \in Nat
    BY LayoutFacts DEF AtChunk
  <2>2. QED
    BY <2>1, <1>1, <1>2 DEF Reading, Least
<1>4. ASSUME NEW n \in 0 .. slots - 1, a = first + n * al
      PROVE  cursor <= a /\ a < cursor + amount /\ Readable(a)
  <2>1. n \in Nat /\ n < slots
    BY <1>2
  <2>2. first # AddressLimit - 1 /\ a < cursor + amount /\ a + req.width <= mappingEnd
    BY <2>1, <1>4, SlotIsStored
  <2>3. first \in Nat /\ cursor <= first /\ first % al = 0
    BY <2>2, FirstFacts
  <2> HIDE DEF al
  <2>4. n * al \in Nat /\ (n * al) % al = 0
    BY <2>1, <1>2, Product
  <2>5. a % al = 0
    BY <2>3, <2>4, <1>2, <1>4, SumOfMultiples
  <2>6. cursor <= a
    BY <2>3, <2>4, <1>2, <1>4
  <2>7. a + req.width <= req.end /\ layout[i].addr <= a
        /\ a + req.width <= layout[i].addr + layout[i].size
    BY <2>2, <2>6, <1>2, <1>3
  <2>8. Readable(a)
    BY <2>5, <2>7, <1>3 DEF Readable, al
  <2>9. QED
    BY <2>2, <2>6, <2>8
<1>5. ASSUME cursor <= a, a < cursor + amount, Readable(a)
      PROVE  \E n \in 0 .. slots - 1 : a = first + n * al
  <2>1. PICK j \in DOMAIN layout : layout[j].readable /\ Holds(j, a)
                                   /\ a + req.width <= layout[j].addr + layout[j].size
    BY <1>5, ReadableHeld DEF AtChunk
  <2>2. Holds(i, a)
    BY <1>2, <1>3, <1>5 DEF Holds
  <2>3. i = j
    BY <2>1, <2>2, OneMapping DEF AtChunk
  <2>4. a + req.width <= req.end /\ a % al = 0
    BY <1>5 DEF Readable
  <2>5. a + req.width <= mappingEnd
    BY <2>1, <2>3, <2>4, <1>3 DEF Least
  <2>6. first # AddressLimit - 1 /\ first <= a
    <3>1. a < req.end
      BY <2>4, <1>2
    <3>2. QED
      BY <3>1, <2>4, <1>5, FirstFacts
  <2>7. first \in Nat /\ first % al = 0
    BY <2>6, FirstFacts
  <2>8. PICK n \in Nat : a = first + n * al
    <3> HIDE DEF al
    <3>1. QED
      BY <2>4, <2>6, <2>7, <1>2, Apart
  <2>9. n < slots
    BY <2>5, <2>6, <2>8, <1>5, SlotIsStored
  <2>10. n \in 0 .. slots - 1
    BY <2>9, <1>2
  <2>11. QED
    BY <2>8, <2>10
<1>6. QED
  BY <1>4, <1>5

\* A search whose slots do not overlap and whose range starts on a slot.
Aligned == req.alignment >= req.width /\ req.start % req.alignment = 0

\* In such a search every chunk but the last of a mapping ends between two values.
LEMMA ChunkEnd ==
    ASSUME AtChunk, OnValue, Aligned, amount # mappingEnd - cursor
    PROVE  (cursor + amount) % req.width = 0
<1> DEFINE al == req.alignment
           w == req.width
           k == Chunk \div req.width
<1>1. al \in Nat \ {0} /\ w \in Nat \ {0} /\ al >= w /\ Chunk \in Nat /\ Chunk % w = 0
      /\ cursor \in Nat /\ mappingEnd \in Nat /\ req.end \in Nat
      /\ cursor < mappingEnd /\ mappingEnd <= req.end
  BY RequestFacts DEF AtChunk, TypeOK, Within, Addresses, Aligned
<1>2. k \in Nat \ {0} /\ k * w = Chunk
  BY WidthFits DEF AtChunk
<1>3. amount = Least(k * al, Chunk)
  BY AmountFacts DEF maximumSpan
<1>4. cursor % w = 0
  BY <1>1 DEF OnValue, Aligned
<1> HIDE DEF k, al, w
<1>5. k * al >= k * w /\ k * al \in Int
  BY <1>1, <1>2, Z3
<1>6. amount = Chunk
  BY <1>1, <1>2, <1>3, <1>5 DEF Least
<1>7. (cursor + Chunk) % w = 0
  BY <1>1, <1>4, SumOfMultiples
<1>8. QED
  BY <1>6, <1>7 DEF w

\* In such a search all bytes of the slots of a chunk are read with it.
LEMMA ChunkIsRead ==
    ASSUME AtChunk, OnValue, Aligned, NEW n \in 0 .. slots - 1, NEW b \in 0 .. req.width - 1
    PROVE  /\ first + n * req.alignment + b - cursor \in 0 .. readSize - 1
           /\ first + n * req.alignment + b - cursor \in 0 .. Chunk + Slack - 1
<1> DEFINE al == req.alignment
           w == req.width
           x == first + n * req.alignment
<1>1. al \in Nat \ {0} /\ w \in Nat \ {0} /\ cursor \in Nat /\ mappingEnd \in Nat
      /\ amount \in Nat /\ slots \in Nat /\ al % w = 0 /\ AddressLimit \in Nat
      /\ Chunk \in Nat /\ Slack \in Nat
  BY AmountFacts, RequestFacts, SlotIsStored DEF AtChunk, TypeOK, Addresses, Aligned
<1>2. n \in Nat /\ n < slots
  BY <1>1
<1>3. first # AddressLimit - 1 /\ x < cursor + amount /\ x + w <= mappingEnd
  BY <1>2, SlotIsStored
<1>4. first \in Nat /\ cursor <= first /\ first % al = 0
  BY <1>3, FirstFacts
<1>5. n * al \in Nat /\ (n * al) % al = 0
  <2> HIDE DEF al
  <2>1. QED
    BY <1>1, <1>2, Product
<1>6. x \in Nat /\ x % w = 0 /\ cursor <= x
  <2>1. x = first + n * al /\ x \in Nat /\ cursor <= x
    BY <1>1, <1>4, <1>5
  <2> HIDE DEF al, w, x
  <2>2. x % al = 0
    BY <2>1, <1>1, <1>4, <1>5, SumOfMultiples
  <2>3. QED
    BY <2>1, <2>2, <1>1, MultipleOfMultiple
<1>7. x + w <= cursor + readSize
  <2>1. CASE amount + w - 1 <= mappingEnd - cursor
    <3>1. readSize = amount + w - 1
      BY <2>1 DEF readSize
    <3> HIDE DEF x, w
    <3>2. QED
      BY <3>1, <1>1, <1>3, <1>6
  <2>2. CASE ~(amount + w - 1 <= mappingEnd - cursor)
    <3>1. readSize = amount
      BY <2>2 DEF readSize
    <3>2. CASE amount = mappingEnd - cursor
      <4> HIDE DEF x, w
      <4>1. QED
        BY <3>1, <3>2, <1>1, <1>3
    <3>3. CASE amount # mappingEnd - cursor
      <4>1. (cursor + amount) % w = 0
        BY <3>3, ChunkEnd
      <4> HIDE DEF x, w
      <4>2. cursor + amount \in Nat
        BY <1>1
      <4>3. x + w <= cursor + amount
        BY <4>1, <4>2, <1>1, <1>3, <1>6, Apart
      <4>4. QED
        BY <4>3, <3>1
    <3>4. QED
      BY <3>2, <3>3
  <2>3. QED
    BY <2>1, <2>2
<1>8. readSize \in Nat /\ readSize <= Chunk + Slack
  BY ReadSizeFacts
<1>9. b \in Nat /\ b < w
  BY <1>1
<1>10. x + b - cursor \in 0 .. readSize - 1 /\ x + b - cursor \in 0 .. Chunk + Slack - 1
  <2> HIDE DEF x, w
  <2>1. QED
    BY <1>1, <1>6, <1>7, <1>8, <1>9
<1>11. QED
  BY <1>10

-----------------------------------------------------------------------------
(* The invariant. *)

\* A sequence with one element more.
LEMMA Appending ==
    ASSUME NEW S, NEW q \in Seq(S), NEW e, NEW t, t = Append(q, e)
    PROVE  /\ Len(q) \in Nat /\ DOMAIN q = 1 .. Len(q)
           /\ DOMAIN t = 1 .. Len(q) + 1
           /\ \A i \in DOMAIN q : t[i] = q[i]
           /\ t[Len(q) + 1] = e
           /\ t \in Seq({t[i] : i \in DOMAIN t})
<1> DEFINE U == S \cup {e}
<1>1. q \in Seq(U) /\ e \in U
  OBVIOUS
<1>2. Len(q) \in Nat /\ DOMAIN q = 1 .. Len(q)
  BY LenProperties
<1>3. t \in Seq(U) /\ Len(t) = Len(q) + 1 /\ t[Len(q) + 1] = e
      /\ \A i \in 1 .. Len(q) : t[i] = q[i]
  BY <1>1, AppendProperties
<1>4. DOMAIN t = 1 .. Len(q) + 1
  BY <1>3, LenProperties
<1>5. t \in Seq({t[i] : i \in DOMAIN t})
  <2>1. t \in [1 .. Len(q) + 1 -> U]
    BY <1>3, LenProperties
  <2>2. t \in [1 .. Len(q) + 1 -> {t[i] : i \in DOMAIN t}]
    BY <2>1, <1>4
  <2> DEFINE R == {t[i] : i \in DOMAIN t}
             l == Len(q) + 1
  <2>3. l \in Nat /\ t \in [1 .. l -> R]
    BY <1>2, <2>2
  <2> HIDE DEF R, l
  <2>4. t \in UNION {[1 .. n -> R] : n \in Nat}
    BY <2>3, Zenon
  <2>5. t \in Seq(R)
    BY <2>4, SeqDef, Zenon
  <2>6. QED
    BY <2>5 DEF R
<1>6. QED
  BY <1>2, <1>3, <1>4, <1>5

\* The invariant holds initially.
LEMMA Start == Init => IndInv
<1> SUFFICES ASSUME Init PROVE IndInv
  OBVIOUS
<1>1. blocks = <<>> /\ DOMAIN blocks = {} /\ req \in Requests /\ layout \in Layouts
      /\ cursor = req.start /\ mappingEnd = req.start /\ state = "running"
      /\ raw = [i \in 0 .. Chunk + Slack - 1 |-> Garbage]
  BY DEF Init
<1>2. req.start \in Addresses /\ req.end \in Addresses /\ req.width \in Nat \ {0}
      /\ req.alignment \in Nat \ {0} /\ req.width <= req.end - req.start
      /\ (req.alignment >= req.width => req.alignment % req.width = 0)
  BY <1>1, SnapshotAssumption
<1>3. req.start \in Nat /\ req.end \in Nat /\ req.start <= req.end
  BY <1>2, RangeAssumption DEF Addresses
<1>4. TypeOK
  <2>1. blocks \in Seq({blocks[i] : i \in DOMAIN blocks})
    <3> DEFINE S == {blocks[i] : i \in DOMAIN blocks}
    <3> HIDE DEF S
    <3>1. <<>> \in Seq(S)
      OBVIOUS
    <3>2. QED
      BY <3>1, <1>1 DEF S
  <2>2. raw \in [0 .. Chunk + Slack - 1 -> Byte]
    BY <1>1 DEF Byte
  <2>3. QED
    BY <2>1, <2>2, <1>1, <1>2 DEF TypeOK
<1>5. Within
  BY <1>1, <1>3 DEF Within
<1>6. Inside
  BY <1>1, <1>3 DEF Inside
<1>7. OnValue
  <2>1. ASSUME req.alignment >= req.width, req.start % req.alignment = 0
        PROVE  req.start % req.width = 0
    BY <2>1, <1>2, <1>3, MultipleOfMultiple
  <2>2. QED
    BY <2>1, <1>1 DEF OnValue
<1>8. SlotsAreExact
  <2>1. ASSUME NEW a \in Addresses PROVE ~Stored(a) /\ a \notin req.start .. cursor - 1
    BY <1>1, <1>3 DEF Stored
  <2>2. QED
    BY <2>1, <1>1 DEF SlotsAreExact
<1>9. SpansFit /\ AlignedValuesAreRead
  BY <1>1 DEF SpansFit, AlignedValuesAreRead, FreshValues
<1>10. QED
  BY <1>4, <1>5, <1>6, <1>7, <1>8, <1>9 DEF IndInv

\* The last slot of a block is an address.
LEMMA LastSlotFacts ==
    ASSUME TypeOK, NEW i \in DOMAIN blocks
    PROVE  LastSlot(blocks[i]) \in Nat
<1> DEFINE c == blocks[i].count - 1
<1>1. c \in Nat /\ blocks[i].base \in Nat
  <2>1. blocks[i].base \in Addresses /\ blocks[i].count \in 1 .. Chunk
    BY DEF TypeOK
  <2>2. Chunk \in Nat /\ AddressLimit \in Nat
    BY RequestFacts
  <2>3. QED
    BY <2>1, <2>2 DEF Addresses
<1>2. req.alignment \in Nat \ {0}
  BY RequestFacts
<1>3. LastSlot(blocks[i]) = blocks[i].base + c * req.alignment
  BY DEF LastSlot, Address
<1> HIDE DEF c
<1>4. c * req.alignment \in Nat
  BY <1>1, <1>2, Product
<1>5. QED
  BY <1>1, <1>3, <1>4

\* Parts of the invariant that depend only on the request and the blocks.
LEMMA BlocksKept ==
    ASSUME UNCHANGED <<layout, req, blocks>>
    PROVE  /\ \A a : Stored(a)' <=> Stored(a)
           /\ \A a : Readable(a)' <=> Readable(a)
           /\ SpansFit => SpansFit'
           /\ AlignedValuesAreRead => AlignedValuesAreRead'
<1>1. ASSUME NEW a PROVE (Stored(a)' <=> Stored(a)) /\ (Readable(a)' <=> Readable(a))
  BY DEF Stored, Readable, Address
<1>2. SpansFit => SpansFit'
  BY DEF SpansFit
<1>3. AlignedValuesAreRead => AlignedValuesAreRead'
  BY DEF AlignedValuesAreRead, FreshValues, Address
<1>4. QED
  BY <1>1, <1>2, <1>3

\* The invariant does not depend on the state of the loop, which Stop and Done change.
LEMMA OthersKeep ==
    ASSUME IndInv, Stop \/ Done \/ UNCHANGED vars
    PROVE  IndInv'
<1>1. UNCHANGED <<layout, req, cursor, mappingEnd, raw, blocks>>
      /\ state' \in {"running", "error", "done"}
  BY DEF IndInv, TypeOK, Stop, Done, vars
<1>2. TypeOK' /\ Within' /\ Inside' /\ OnValue'
  BY <1>1 DEF IndInv, TypeOK, Within, Inside, Reading, OnValue
<1>3. SlotsAreExact'
  <2>1. /\ \A i \in DOMAIN blocks : LastSlot(blocks[i]) < cursor
        /\ \A i, j \in DOMAIN blocks : i < j => LastSlot(blocks[i]) < blocks[j].base
        /\ \A a \in Addresses : Stored(a) <=> a \in req.start .. cursor - 1 /\ Readable(a)
    BY DEF IndInv, SlotsAreExact
  <2>2. /\ \A i \in DOMAIN blocks' : LastSlot(blocks[i])' < cursor'
        /\ \A i, j \in DOMAIN blocks' : i < j => LastSlot(blocks[i])' < blocks'[j].base
    BY <2>1, <1>1 DEF LastSlot, Address
  <2>3. ASSUME NEW a \in Addresses
        PROVE  Stored(a)' <=> a \in req'.start .. cursor' - 1 /\ Readable(a)'
    BY <2>1, <1>1, BlocksKept
  <2>4. QED
    BY <2>2, <2>3 DEF SlotsAreExact
<1>4. SpansFit' /\ AlignedValuesAreRead'
  BY <1>1, BlocksKept DEF IndInv
<1>5. QED
  BY <1>2, <1>3, <1>4 DEF IndInv

\* Planning: what is passed without reading holds no readable slot.
LEMMA PlanKeeps ==
    ASSUME IndInv, Plan
    PROVE  IndInv'
<1> DEFINE p == searchPlanMapping(cursor, req.end, queryMapping(layout, cursor))
<1>1. cursor < req.end /\ cursor >= mappingEnd /\ UNCHANGED <<layout, req, raw, blocks>>
  BY DEF Plan, proceeding
<1>2. \/ p.action = "invalid" /\ state' = "error" /\ UNCHANGED <<cursor, mappingEnd>>
      \/ p.action = "skip" /\ cursor' = p.end /\ UNCHANGED <<state, mappingEnd>>
      \/ p.action = "read" /\ mappingEnd' = p.end /\ UNCHANGED <<state, cursor>>
  BY DEF Plan
<1>3. TypeOK /\ Within
  BY DEF IndInv
<1>4. /\ p.action # "invalid" =>
             /\ p.end \in Nat /\ cursor < p.end /\ p.end <= req.end
             /\ p.end % req.width = 0 \/ p.end = req.end
      /\ p.action = "skip" => \A a \in Nat : cursor <= a /\ a < p.end => ~Readable(a)
      /\ p.action = "read" =>
             \E i \in DOMAIN layout :
                 /\ layout[i].readable /\ layout[i].addr <= cursor
                 /\ p.end = Least(layout[i].addr + layout[i].size, req.end)
  BY <1>1, <1>3, PlanFacts
<1>5. cursor \in Nat /\ mappingEnd \in Nat /\ req.start \in Nat /\ req.end \in Nat
      /\ AddressLimit \in Nat /\ req.end <= AddressLimit - 1
  BY <1>3, RequestFacts DEF TypeOK, Addresses
<1> HIDE DEF p
<1>6. SpansFit' /\ AlignedValuesAreRead' /\ (\A a : Stored(a)' <=> Stored(a))
      /\ (\A a : Readable(a)' <=> Readable(a))
  BY <1>1, BlocksKept DEF IndInv
<1>7. /\ \A i \in DOMAIN blocks' : LastSlot(blocks[i])' < cursor'
      /\ \A i, j \in DOMAIN blocks' : i < j => LastSlot(blocks[i])' < blocks'[j].base
  <2>1. /\ \A i \in DOMAIN blocks : LastSlot(blocks[i]) < cursor
        /\ \A i, j \in DOMAIN blocks : i < j => LastSlot(blocks[i]) < blocks[j].base
    BY DEF IndInv, SlotsAreExact
  <2>2. \A i \in DOMAIN blocks : LastSlot(blocks[i])' = LastSlot(blocks[i])
    BY <1>1 DEF LastSlot, Address
  <2>3. cursor' \in Nat /\ cursor <= cursor'
    BY <1>2, <1>4, <1>5
  <2>4. ASSUME NEW i \in DOMAIN blocks PROVE LastSlot(blocks[i]) < cursor'
    <3>1. LastSlot(blocks[i]) \in Int
      BY <1>3, LastSlotFacts
    <3>2. QED
      BY <2>1, <2>3, <3>1, <1>5
  <2>5. QED
    BY <2>1, <2>2, <2>4, <1>1
<1>8. CASE p.action = "invalid" /\ state' = "error" /\ UNCHANGED <<cursor, mappingEnd>>
  <2>1. TypeOK' /\ Within' /\ Inside' /\ OnValue'
    BY <1>1, <1>8 DEF IndInv, TypeOK, Within, Inside, Reading, OnValue
  <2>2. ASSUME NEW a \in Addresses
        PROVE  Stored(a)' <=> a \in req'.start .. cursor' - 1 /\ Readable(a)'
    BY <1>1, <1>6, <1>8 DEF IndInv, SlotsAreExact
  <2>3. SlotsAreExact'
    BY <2>2, <1>7 DEF SlotsAreExact
  <2>4. QED
    BY <2>1, <2>3, <1>6 DEF IndInv
<1>9. CASE p.action = "skip" /\ cursor' = p.end /\ UNCHANGED <<state, mappingEnd>>
  <2>1. p.end \in Nat /\ cursor < p.end /\ p.end <= req.end
        /\ (p.end % req.width = 0 \/ p.end = req.end)
        /\ \A a \in Nat : cursor <= a /\ a < p.end => ~Readable(a)
    BY <1>4, <1>9
  <2>2. TypeOK'
    <3>1. p.end \in Addresses
      BY <2>1, <1>5 DEF Addresses
    <3>2. QED
      BY <3>1, <1>1, <1>3, <1>9 DEF TypeOK
  <2>3. Within' /\ Inside'
    BY <2>1, <1>1, <1>3, <1>5, <1>9 DEF Within, Inside
  <2>4. OnValue'
    BY <2>1, <1>1, <1>9 DEF OnValue
  <2>5. ASSUME NEW a \in Addresses
        PROVE  Stored(a)' <=> a \in req'.start .. cursor' - 1 /\ Readable(a)'
    <3>1. Stored(a) <=> a \in req.start .. cursor - 1 /\ Readable(a)
      BY DEF IndInv, SlotsAreExact
    <3>2. a \in Nat
      BY <1>5 DEF Addresses
    <3>3. cursor <= a /\ a < p.end => ~Readable(a)
      BY <2>1, <3>2
    <3>4. Readable(a) => (a \in req.start .. cursor - 1 <=> a \in req.start .. p.end - 1)
      BY <3>2, <3>3, <2>1, <1>5
    <3>5. QED
      BY <3>1, <3>4, <1>1, <1>6, <1>9
  <2>6. SlotsAreExact'
    BY <2>5, <1>7 DEF SlotsAreExact
  <2>7. QED
    BY <2>2, <2>3, <2>4, <2>6, <1>6 DEF IndInv
<1>10. CASE p.action = "read" /\ mappingEnd' = p.end /\ UNCHANGED <<state, cursor>>
  <2>1. PICK i \in DOMAIN layout :
            /\ layout[i].readable /\ layout[i].addr <= cursor
            /\ p.end = Least(layout[i].addr + layout[i].size, req.end)
    BY <1>4, <1>10
  <2>2. p.end \in Nat /\ cursor < p.end /\ p.end <= req.end
    BY <1>4, <1>10
  <2>3. TypeOK'
    <3>1. p.end \in Addresses
      BY <2>2, <1>5 DEF Addresses
    <3>2. QED
      BY <3>1, <1>1, <1>3, <1>10 DEF TypeOK
  <2>4. Within' /\ OnValue'
    BY <2>2, <1>1, <1>3, <1>10 DEF IndInv, Within, OnValue
  <2>5. Inside'
    <3>1. Reading(i)'
      BY <2>1, <1>1, <1>10 DEF Reading
    <3>2. QED
      BY <3>1, <1>1 DEF Inside
  <2>6. ASSUME NEW a \in Addresses
        PROVE  Stored(a)' <=> a \in req'.start .. cursor' - 1 /\ Readable(a)'
    BY <1>1, <1>6, <1>10 DEF IndInv, SlotsAreExact
  <2>7. SlotsAreExact'
    BY <2>6, <1>7 DEF SlotsAreExact
  <2>8. QED
    BY <2>3, <2>4, <2>5, <2>7, <1>6 DEF IndInv
<1>11. QED
  BY <1>2, <1>8, <1>9, <1>10

\* The values of a block are copied from the buffer.
Copied(block) ==
    \A n \in 0 .. slots - 1 : \A b \in 0 .. req.width - 1 :
        block.values[n][b] = raw'[first + n * req.alignment + b - cursor]

\* What a chunk adds to the blocks and to the buffer.
LEMMA ChunkStep ==
    ASSUME IndInv, SnapshotChunk, NEW L, L = Len(blocks) + 1
    PROVE  /\ AtChunk /\ cursor' = cursor + amount
           /\ UNCHANGED <<layout, req, state, mappingEnd>>
           /\ raw' \in [0 .. Chunk + Slack - 1 -> Byte]
           /\ \A i \in 0 .. Chunk + Slack - 1 : i < readSize => raw'[i] = cursor + i
           /\ slots = 0 => blocks' = blocks
           /\ slots # 0 =>
                  /\ L \notin DOMAIN blocks /\ DOMAIN blocks' = DOMAIN blocks \cup {L}
                  /\ L \in Nat /\ DOMAIN blocks \subseteq Nat
                  /\ \A i \in DOMAIN blocks : i < L /\ blocks'[i] = blocks[i]
                  /\ blocks'[L].base = first /\ blocks'[L].count = slots
                  /\ Copied(blocks'[L])
                  /\ blocks' \in Seq({blocks'[i] : i \in DOMAIN blocks'})
<1>1. AtChunk
  BY DEF IndInv, AtChunk, SnapshotChunk
<1>2. raw \in [0 .. Chunk + Slack - 1 -> Byte]
      /\ raw' = [i \in DOMAIN raw |-> IF i < readSize THEN cursor + i ELSE raw[i]]
  BY DEF IndInv, TypeOK, SnapshotChunk
<1>3. readSize \in Nat /\ cursor + readSize <= mappingEnd
  BY <1>1, ReadSizeFacts
<1>4. cursor \in Nat /\ mappingEnd \in Nat /\ mappingEnd < AddressLimit /\ AddressLimit \in Nat
      /\ Chunk \in Nat /\ Slack \in Nat
  BY RangeAssumption, SnapshotAssumption DEF IndInv, TypeOK, Addresses
<1>5. ASSUME NEW i \in 0 .. Chunk + Slack - 1
      PROVE  raw'[i] \in Byte /\ (i < readSize => raw'[i] = cursor + i)
  <2>1. raw'[i] = IF i < readSize THEN cursor + i ELSE raw[i]
    BY <1>2
  <2>2. i < readSize => cursor + i \in Addresses
    BY <1>3, <1>4 DEF Addresses
  <2>3. QED
    BY <2>1, <2>2, <1>2 DEF Byte
<1>6. raw' \in [0 .. Chunk + Slack - 1 -> Byte]
  BY <1>2, <1>5
<1> DEFINE vals == [n \in 0 .. slots - 1 |-> [b \in 0 .. req.width - 1 |->
                        raw'[first + n * req.alignment + b - cursor]]]
           nb == [base |-> first, count |-> slots, values |-> vals]
<1>7. blocks' = IF slots = 0 THEN blocks ELSE Append(blocks, nb)
  BY DEF SnapshotChunk
<1>8. cursor' = cursor + amount /\ UNCHANGED <<layout, req, state, mappingEnd>>
  BY DEF SnapshotChunk
<1>9. \A n \in 0 .. slots - 1 : \A b \in 0 .. req.width - 1 :
          vals[n][b] = raw'[first + n * req.alignment + b - cursor]
  OBVIOUS
<1> HIDE DEF vals
<1>10. nb.base = first /\ nb.count = slots /\ nb.values = vals
  OBVIOUS
<1> HIDE DEF nb
<1>11. ASSUME slots # 0
       PROVE  /\ Len(blocks) \in Nat /\ DOMAIN blocks = 1 .. Len(blocks)
              /\ DOMAIN blocks' = 1 .. Len(blocks) + 1
              /\ \A i \in DOMAIN blocks : blocks'[i] = blocks[i]
              /\ blocks'[L] = nb
              /\ blocks' \in Seq({blocks'[i] : i \in DOMAIN blocks'})
  <2> DEFINE S == {blocks[i] : i \in DOMAIN blocks}
  <2>1. blocks \in Seq(S)
    BY DEF IndInv, TypeOK
  <2> HIDE DEF S
  <2>2. blocks' = Append(blocks, nb)
    BY <1>7, <1>11
  <2>3. QED
    BY <2>1, <2>2, Appending
<1>12. ASSUME slots # 0
       PROVE  /\ L \notin DOMAIN blocks /\ DOMAIN blocks' = DOMAIN blocks \cup {L}
              /\ L \in Nat /\ DOMAIN blocks \subseteq Nat
              /\ \A i \in DOMAIN blocks : i < L
  BY <1>11, <1>12
<1>13. ASSUME slots # 0
       PROVE  /\ blocks'[L].base = first /\ blocks'[L].count = slots
              /\ Copied(blocks'[L])
  BY <1>9, <1>10, <1>11, <1>13 DEF Copied
<1>14. QED
  <2>1. slots # 0 => /\ \A i \in DOMAIN blocks : blocks'[i] = blocks[i]
                     /\ blocks' \in Seq({blocks'[i] : i \in DOMAIN blocks'})
    BY <1>11, Zenon
  <2>2. slots = 0 => blocks' = blocks
    BY <1>7
  <2>3. \A i \in 0 .. Chunk + Slack - 1 : i < readSize => raw'[i] = cursor + i
    BY <1>5, Zenon
  <2>4. QED
    BY <2>1, <2>2, <2>3, <1>1, <1>6, <1>8, <1>12, <1>13, Zenon

\* What is stored after a chunk: what was stored, and the slots of the chunk.
LEMMA ChunkStores ==
    ASSUME IndInv, SnapshotChunk, NEW a
    PROVE  Stored(a)' <=> \/ Stored(a)
                          \/ \E n \in 0 .. slots - 1 : a = first + n * req.alignment
<1>0. PICK L : L = Len(blocks) + 1
  OBVIOUS
<1>1. UNCHANGED req
  BY DEF SnapshotChunk
<1>2. CASE slots = 0
  <2>1. blocks' = blocks
    BY <1>0, <1>2, ChunkStep
  <2>2. Stored(a)' <=> Stored(a)
    BY <2>1, <1>1 DEF Stored, Address
  <2>3. ~ \E n \in 0 .. slots - 1 : a = first + n * req.alignment
    BY <1>2
  <2>4. QED
    BY <2>2, <2>3
<1>3. CASE slots # 0
  <2>1. /\ L \notin DOMAIN blocks /\ DOMAIN blocks' = DOMAIN blocks \cup {L}
        /\ \A i \in DOMAIN blocks : blocks'[i] = blocks[i]
        /\ blocks'[L].base = first /\ blocks'[L].count = slots
    BY <1>0, <1>3, ChunkStep
  <2>2. Stored(a)' <=> \E i \in DOMAIN blocks' : \E n \in 0 .. blocks'[i].count - 1 :
                           a = blocks'[i].base + n * req.alignment
    BY <1>1 DEF Stored, Address
  <2>3. Stored(a) <=> \E i \in DOMAIN blocks : \E n \in 0 .. blocks[i].count - 1 :
                          a = blocks[i].base + n * req.alignment
    BY DEF Stored, Address
  <2>4. (\E i \in DOMAIN blocks' : \E n \in 0 .. blocks'[i].count - 1 :
             a = blocks'[i].base + n * req.alignment)
        <=> \/ \E i \in DOMAIN blocks : \E n \in 0 .. blocks'[i].count - 1 :
                   a = blocks'[i].base + n * req.alignment
            \/ \E n \in 0 .. blocks'[L].count - 1 : a = blocks'[L].base + n * req.alignment
    BY <2>1, Zenon
  <2>5. (\E i \in DOMAIN blocks : \E n \in 0 .. blocks'[i].count - 1 :
             a = blocks'[i].base + n * req.alignment) <=> Stored(a)
    BY <2>1, <2>3
  <2>6. QED
    BY <2>1, <2>2, <2>4, <2>5
<1>4. QED
  BY <1>2, <1>3

\* A chunk adds blocks behind those there are.
LEMMA ChunkKeepsOrder ==
    ASSUME IndInv, SnapshotChunk
    PROVE  /\ \A i \in DOMAIN blocks' : LastSlot(blocks[i])' < cursor'
           /\ \A i, j \in DOMAIN blocks' : i < j => LastSlot(blocks[i])' < blocks'[j].base
<1>0. PICK L : L = Len(blocks) + 1
  OBVIOUS
<1>1. /\ AtChunk /\ TypeOK /\ cursor' = cursor + amount /\ UNCHANGED req
  BY ChunkStep DEF IndInv
<1>2. /\ \A i \in DOMAIN blocks : LastSlot(blocks[i]) < cursor
      /\ \A i, j \in DOMAIN blocks : i < j => LastSlot(blocks[i]) < blocks[j].base
  BY DEF IndInv, SlotsAreExact
<1>3. cursor \in Nat /\ amount \in Nat
  BY <1>1, AmountFacts, RequestFacts DEF TypeOK, Addresses
<1>4. \A i \in DOMAIN blocks : LastSlot(blocks[i]) \in Nat
  BY <1>1, LastSlotFacts
<1>5. \A i \in DOMAIN blocks : LastSlot(blocks[i]) < cursor'
  BY <1>1, <1>2, <1>3, <1>4
<1>6. CASE slots = 0
  <2>1. blocks' = blocks
    BY <1>0, <1>6, ChunkStep
  <2>2. \A i \in DOMAIN blocks : LastSlot(blocks[i])' = LastSlot(blocks[i])
    BY <2>1, <1>1 DEF LastSlot, Address
  <2>3. QED
    BY <2>1, <2>2, <1>2, <1>5
<1>7. CASE slots # 0
  <2>1. /\ L \notin DOMAIN blocks /\ DOMAIN blocks' = DOMAIN blocks \cup {L}
        /\ L \in Nat /\ DOMAIN blocks \subseteq Nat
        /\ \A i \in DOMAIN blocks : i < L /\ blocks'[i] = blocks[i]
        /\ blocks'[L].base = first /\ blocks'[L].count = slots
    BY <1>0, <1>7, ChunkStep
  <2>2. \A i \in DOMAIN blocks : LastSlot(blocks[i])' = LastSlot(blocks[i])
    BY <2>1, <1>1 DEF LastSlot, Address
  <2>3. LastSlot(blocks[L])' = first + (slots - 1) * req.alignment
    BY <2>1, <1>1 DEF LastSlot, Address
  <2>4. slots \in Nat /\ slots - 1 \in Nat /\ slots - 1 < slots
    BY <1>1, <1>7, SlotIsStored
  <2>5. first # AddressLimit - 1 /\ first + (slots - 1) * req.alignment < cursor + amount
    BY <2>4, <1>1, SlotIsStored
  <2>6. first \in Nat /\ cursor <= first
    BY <2>5, <1>1, FirstFacts
  <2>7. ASSUME NEW i \in DOMAIN blocks' PROVE LastSlot(blocks[i])' < cursor'
    BY <2>1, <2>2, <2>3, <2>5, <1>1, <1>5
  <2>8. ASSUME NEW i \in DOMAIN blocks', NEW j \in DOMAIN blocks', i < j
        PROVE  LastSlot(blocks[i])' < blocks'[j].base
    <3>1. i # L
      <4>1. SUFFICES ASSUME i = L PROVE FALSE
        OBVIOUS
      <4>2. j \in DOMAIN blocks => j < L
        BY <2>1
      <4>3. i \in Nat /\ j \in Nat
        BY <2>1
      <4>4. QED
        BY <4>1, <4>2, <4>3, <2>1, <2>8
    <3>2. i \in DOMAIN blocks
      BY <3>1, <2>1
    <3>3. CASE j = L
      <4>1. blocks'[j].base = first
        BY <3>3, <2>1
      <4>2. LastSlot(blocks[i]) < cursor /\ LastSlot(blocks[i]) \in Nat
        BY <3>2, <1>2, <1>4
      <4>3. LastSlot(blocks[i])' = LastSlot(blocks[i])
        BY <3>2, <2>2
      <4>4. QED
        BY <4>1, <4>2, <4>3, <2>6, <1>3
    <3>4. CASE j # L
      <4>1. j \in DOMAIN blocks /\ blocks'[j] = blocks[j]
        BY <3>4, <2>1
      <4>2. LastSlot(blocks[i]) < blocks[j].base
        BY <4>1, <3>2, <2>8, <1>2
      <4>3. QED
        BY <4>1, <4>2, <3>2, <2>2
    <3>5. QED
      BY <3>3, <3>4
  <2>9. QED
    BY <2>7, <2>8
<1>8. QED
  BY <1>6, <1>7

\* A chunk: the slots passed are stored, and their values were read if slots do not overlap.
LEMMA ChunkKeeps ==
    ASSUME IndInv, SnapshotChunk
    PROVE  IndInv'
<1>0. PICK L : L = Len(blocks) + 1
  OBVIOUS
<1>1. AtChunk /\ cursor' = cursor + amount /\ UNCHANGED <<layout, req, state, mappingEnd>>
      /\ raw' \in [0 .. Chunk + Slack - 1 -> Byte]
  BY ChunkStep
<1>2. TypeOK /\ Within /\ Inside /\ OnValue /\ SlotsAreExact /\ SpansFit /\ AlignedValuesAreRead
  BY DEF IndInv
<1>3. cursor \in Nat /\ mappingEnd \in Nat /\ req.start \in Nat /\ req.end \in Nat
      /\ AddressLimit \in Nat /\ req.end <= AddressLimit - 1 /\ req.start <= cursor
      /\ mappingEnd <= req.end /\ cursor < mappingEnd /\ req.width \in Nat \ {0}
      /\ req.alignment \in Nat \ {0}
  <2>1. cursor \in Nat /\ mappingEnd \in Nat /\ req.start <= cursor /\ mappingEnd <= req.end
        /\ cursor < mappingEnd
    BY <1>1, <1>2 DEF AtChunk, TypeOK, Within, Addresses
  <2>2. req.start \in Nat /\ req.end \in Nat /\ AddressLimit \in Nat
        /\ req.end <= AddressLimit - 1 /\ req.width \in Nat \ {0} /\ req.alignment \in Nat \ {0}
    BY <1>2, RequestFacts DEF Addresses
  <2>3. QED
    BY <2>1, <2>2
<1>4. amount \in Nat \ {0} /\ cursor + amount <= mappingEnd
  BY <1>1, AmountFacts
<1>5. slots # 0 =>
          /\ L \notin DOMAIN blocks /\ DOMAIN blocks' = DOMAIN blocks \cup {L}
          /\ \A i \in DOMAIN blocks : blocks'[i] = blocks[i]
          /\ blocks'[L].base = first /\ blocks'[L].count = slots
          /\ Copied(blocks'[L])
          /\ blocks' \in Seq({blocks'[i] : i \in DOMAIN blocks'})
  <2>1. slots # 0 =>
            /\ L \notin DOMAIN blocks /\ DOMAIN blocks' = DOMAIN blocks \cup {L}
            /\ \A i \in DOMAIN blocks : blocks'[i] = blocks[i]
            /\ blocks'[L].base = first /\ blocks'[L].count = slots
    BY <1>0, ChunkStep
  <2>2. slots # 0 =>
            Copied(blocks'[L])
    BY <1>0, ChunkStep
  <2>3. slots # 0 => blocks' \in Seq({blocks'[i] : i \in DOMAIN blocks'})
    BY <1>0, ChunkStep
  <2>4. QED
    BY <2>1, <2>2, <2>3, Zenon
<1>6. slots = 0 => blocks' = blocks
  BY ChunkStep
<1>7. slots \in Nat /\ slots <= Chunk /\ Chunk \in Nat
      /\ (slots # 0 => /\ first \in Addresses
                       /\ (slots - 1) * req.alignment + req.width <= Chunk + Slack)
  BY <1>1, <1>2, SlotsFit, RequestFacts
<1>8. TypeOK'
  <2>1. cursor' \in Addresses
    BY <1>1, <1>3, <1>4 DEF Addresses
  <2>2. blocks' \in Seq({blocks'[i] : i \in DOMAIN blocks'})
    <3>1. CASE slots = 0
      <4>1. blocks \in Seq({blocks[i] : i \in DOMAIN blocks}) /\ blocks' = blocks
        BY <3>1, <1>2, <1>6 DEF TypeOK
      <4>2. QED
        BY <4>1, Zenon
    <3>2. QED
      BY <3>1, <1>5, Zenon
  <2>3. ASSUME NEW i \in DOMAIN blocks'
        PROVE  blocks'[i].base \in Addresses /\ blocks'[i].count \in 1 .. Chunk
    <3>1. \A j \in DOMAIN blocks : blocks[j].base \in Addresses /\ blocks[j].count \in 1 .. Chunk
      BY <1>2 DEF TypeOK
    <3>2. slots # 0 => slots \in 1 .. Chunk
      BY <1>7
    <3>3. QED
      BY <3>1, <3>2, <1>5, <1>6, <1>7
  <2>4. QED
    BY <2>1, <2>2, <2>3, <1>1, <1>2 DEF TypeOK
<1>9. Within'
  BY <1>1, <1>3, <1>4 DEF Within
<1>10. Inside'
  <2>1. SUFFICES ASSUME cursor' < mappingEnd' PROVE \E i \in DOMAIN layout' : Reading(i)'
    BY DEF Inside
  <2>2. PICK i \in DOMAIN layout : Reading(i)
    BY <1>2, <1>3 DEF Inside
  <2>3. layout[i].addr \in Nat
    BY <1>2, LayoutFacts
  <2>4. layout[i].addr <= cursor'
    BY <2>2, <2>3, <1>1, <1>3, <1>4 DEF Reading
  <2>5. Reading(i)'
    BY <2>2, <2>4, <1>1 DEF Reading
  <2>6. QED
    BY <2>2, <2>5, <1>1
<1>11. OnValue'
  <2>1. SUFFICES ASSUME Aligned
                 PROVE  (cursor + amount) % req.width = 0 \/ cursor + amount = req.end
    BY <1>1 DEF OnValue, Aligned
  <2>2. CASE amount # mappingEnd - cursor
    BY <2>1, <2>2, <1>1, <1>2, ChunkEnd
  <2>3. CASE amount = mappingEnd - cursor
    <3>1. cursor + amount = mappingEnd
      BY <2>3, <1>3
    <3>2. PICK i \in DOMAIN layout : Reading(i)
      BY <1>2, <1>3 DEF Inside
    <3>3. mappingEnd = layout[i].addr + layout[i].size \/ mappingEnd = req.end
      BY <3>2 DEF Reading, Least
    <3>4. layout[i].addr \in Nat /\ layout[i].size \in Nat
          /\ layout[i].addr % req.width = 0 /\ layout[i].size % req.width = 0
      BY <1>2, LayoutFacts
    <3>5. (layout[i].addr + layout[i].size) % req.width = 0
      BY <3>4, <1>3, SumOfMultiples
    <3>6. QED
      BY <3>1, <3>3, <3>5
  <2>4. QED
    BY <2>2, <2>3
<1>12. SlotsAreExact'
  <2>1. ASSUME NEW a \in Addresses
        PROVE  Stored(a)' <=> a \in req'.start .. cursor' - 1 /\ Readable(a)'
    <3>1. a \in Nat
      BY <1>3 DEF Addresses
    <3>2. Stored(a) <=> a \in req.start .. cursor - 1 /\ Readable(a)
      BY <1>2 DEF SlotsAreExact
    <3>3. Stored(a)' <=> Stored(a) \/ (cursor <= a /\ a < cursor + amount /\ Readable(a))
      BY <3>1, <1>1, <1>2, ChunkStores, ChunkIsExact
    <3>4. Readable(a)' <=> Readable(a)
      BY <1>1 DEF Readable
    <3>5. a \in req.start .. cursor + amount - 1
              <=> a \in req.start .. cursor - 1 \/ (cursor <= a /\ a < cursor + amount)
      BY <3>1, <1>3, <1>4
    <3>6. Stored(a)' <=> a \in req.start .. cursor + amount - 1 /\ Readable(a)
      BY <3>2, <3>3, <3>5
    <3>7. req' = req /\ cursor' = cursor + amount
      BY <1>1
    <3>8. a \in req'.start .. cursor' - 1 <=> a \in req.start .. cursor + amount - 1
      BY <3>1, <3>7, <1>3, <1>4
    <3>9. QED
      BY <3>4, <3>6, <3>8
  <2>2. QED
    BY <2>1, ChunkKeepsOrder DEF SlotsAreExact
<1>13. SpansFit'
  <2>1. ASSUME NEW i \in DOMAIN blocks'
        PROVE  (blocks'[i].count - 1) * req.alignment + req.width <= Chunk + Slack
    <3>1. CASE slots = 0 \/ i # L
      <4>1. i \in DOMAIN blocks /\ blocks'[i] = blocks[i]
        BY <3>1, <1>5, <1>6
      <4>2. QED
        BY <4>1, <1>2 DEF SpansFit
    <3>2. CASE slots # 0 /\ i = L
      BY <3>2, <1>5, <1>7
    <3>3. QED
      BY <3>1, <3>2
  <2>2. QED
    BY <2>1, <1>1 DEF SpansFit
<1>14. AlignedValuesAreRead'
  <2>1. SUFFICES ASSUME Aligned PROVE FreshValues'
    BY <1>1 DEF AlignedValuesAreRead, Aligned
  <2>2. FreshValues
    BY <2>1, <1>2 DEF AlignedValuesAreRead, Aligned
  <2>3. ASSUME NEW i \in DOMAIN blocks', NEW n \in 0 .. blocks'[i].count - 1,
               NEW b \in 0 .. req.width - 1
        PROVE  blocks'[i].values[n][b] = blocks'[i].base + n * req.alignment + b
    <3>1. CASE slots = 0 \/ i # L
      <4>1. i \in DOMAIN blocks /\ blocks'[i] = blocks[i]
        BY <3>1, <1>5, <1>6
      <4>2. QED
        BY <4>1, <2>2 DEF FreshValues, Address
    <3>2. CASE slots # 0 /\ i = L
      <4> DEFINE x == first + n * req.alignment + b - cursor
      <4>1. n \in 0 .. slots - 1 /\ blocks'[i].base = first
        BY <3>2, <1>5
      <4>2. blocks'[i].values[n][b] = raw'[x]
        BY <4>1, <3>2, <1>5 DEF Copied
      <4>3. x \in 0 .. readSize - 1 /\ x \in 0 .. Chunk + Slack - 1
        BY <4>1, <2>1, <1>1, <1>2, ChunkIsRead
      <4>4. readSize \in Nat
        BY <1>1, ReadSizeFacts
      <4>5. raw'[x] = cursor + x
        <5>1. \A k \in 0 .. Chunk + Slack - 1 : k < readSize => raw'[k] = cursor + k
          BY ChunkStep
        <5> HIDE DEF x
        <5>2. x < readSize
          BY <4>3, <4>4
        <5>3. QED
          BY <5>1, <5>2, <4>3
      <4>6. first \in Int /\ n * req.alignment \in Int /\ b \in Int
        <5>1. n \in Nat /\ b \in Int
          BY <4>1, <1>3, <1>7
        <5>2. first \in Int
          BY <1>1, FirstFacts
        <5>3. QED
          BY <5>1, <5>2, <1>3, Product
      <4>7. cursor + x = first + n * req.alignment + b
        BY <4>6, <1>3
      <4>8. QED
        BY <4>1, <4>2, <4>5, <4>7
    <3>3. QED
      BY <3>1, <3>2
  <2>4. QED
    BY <2>3, <1>1 DEF FreshValues, Address
<1>15. QED
  BY <1>8, <1>9, <1>10, <1>11, <1>12, <1>13, <1>14 DEF IndInv

-----------------------------------------------------------------------------
(***************************************************************************)
(* The inductive invariant of runBegin: the cursor stays in its range and, *)
(* inside a mapping, in a readable one; what was passed has been stored.   *)
(***************************************************************************)
THEOREM Invariance == Spec => []IndInv
<1>1. IndInv /\ [Next]_vars => IndInv'
  <2>1. SUFFICES ASSUME IndInv, [Next]_vars PROVE IndInv'
    OBVIOUS
  <2>2. CASE Plan
    BY <2>1, <2>2, PlanKeeps
  <2>3. CASE SnapshotChunk
    BY <2>1, <2>3, ChunkKeeps
  <2>4. CASE Stop \/ Done \/ UNCHANGED vars
    BY <2>1, <2>4, OthersKeep
  <2>5. QED
    BY <2>1, <2>2, <2>3, <2>4 DEF Next
<1>2. QED
  BY Start, <1>1, PTL DEF Spec

(***************************************************************************)
(* The slots that runBegin stores are exactly the aligned slots inside     *)
(* readable mappings that its cursor has passed, ascending and each once,  *)
(* for every alignment, width, chunk size, range and layout.               *)
(***************************************************************************)
THEOREM SlotsAreExactHolds == Spec => []SlotsAreExact
<1>1. IndInv => SlotsAreExact
  BY DEF IndInv
<1>2. QED
  BY Invariance, <1>1, PTL

(***************************************************************************)
(* runBegin writes neither past raw nor past values, and every block spans *)
(* no more than a refinement can read.                                     *)
(***************************************************************************)
THEOREM BuffersSufficeHolds == Spec => []BuffersSuffice
<1>1. IndInv => BuffersSuffice
  BY ReadsFit DEF IndInv, BuffersSuffice
<1>2. QED
  BY Invariance, <1>1, PTL

(***************************************************************************)
(* If slots do not overlap and the range starts on one, runBegin stores    *)
(* only bytes it read from the slot's own address.                         *)
(***************************************************************************)
THEOREM AlignedValuesAreReadHolds == Spec => []AlignedValuesAreRead
<1>1. IndInv => AlignedValuesAreRead
  BY DEF IndInv
<1>2. QED
  BY Invariance, <1>1, PTL
=============================================================================
