------------------------- MODULE InputWorkersProofs -------------------------
(***************************************************************************)
(* Theorems about the virtual controller and the threads that use it: a    *)
(* controller that a takeover disconnected stays on the list of addresses  *)
(* to call back, and handing the slot back never lets go of what a client  *)
(* holds.                                                                  *)
(***************************************************************************)
EXTENDS InputWorkers, FiniteSetTheorems, TLAPS

-----------------------------------------------------------------------------
(* keeping, the filter of the address list.                                *)

(* An interval from 1 has as many numbers as its upper end.                *)
LEMMA IntervalSize ==
    ASSUME NEW n \in Nat
    PROVE IsFiniteSet(1 .. n) /\ Cardinality(1 .. n) = n
  BY FS_Interval

kept(q, S)    == {i \in DOMAIN q : q[i] \in S}
rank(q, S, i) == Cardinality({j \in kept(q, S) : j <= i})

(* keeping with its local definitions named.                               *)
LEMMA KeepingDef ==
    ASSUME NEW q, NEW S
    PROVE keeping(q, S) = [k \in 1 .. Cardinality(kept(q, S)) |->
                              q[CHOOSE i \in kept(q, S) : rank(q, S, i) = k]]
  BY DEF keeping, kept, rank

(* The positions that are kept are finitely many, at most as many as the   *)
(* list is long.                                                           *)
LEMMA KeptFinite ==
    ASSUME NEW T, NEW q \in Seq(T), NEW S
    PROVE /\ IsFiniteSet(kept(q, S))
          /\ Cardinality(kept(q, S)) \in Nat
          /\ Cardinality(kept(q, S)) <= Len(q)
<1>1. Len(q) \in Nat /\ kept(q, S) \in SUBSET (1 .. Len(q))
  BY DEF kept
<1>2. IsFiniteSet(1 .. Len(q)) /\ Cardinality(1 .. Len(q)) = Len(q)
  BY <1>1, IntervalSize
<1>3. IsFiniteSet(kept(q, S)) /\ Cardinality(kept(q, S)) <= Len(q)
  BY <1>1, <1>2, FS_Subset
<1> QED
  BY <1>3, FS_CardinalityType

(* Each kept position has a rank of its own, from 1 to their number.       *)
LEMMA RankIsInjective ==
    ASSUME NEW T, NEW q \in Seq(T), NEW S
    PROVE /\ \A i \in kept(q, S) : rank(q, S, i) \in 1 .. Cardinality(kept(q, S))
          /\ \A i, j \in kept(q, S) : rank(q, S, i) = rank(q, S, j) => i = j
<1> DEFINE K == kept(q, S)
           U(i) == {j \in K : j <= i}
<1>1. IsFiniteSet(K) /\ K \subseteq Nat
  <2>1. K \subseteq Nat
    BY DEF kept
  <2> QED
    BY <2>1, KeptFinite
<1>2. \A i \in K : U(i) \in SUBSET K /\ i \in U(i)
  BY <1>1
<1>3. \A i \in K : IsFiniteSet(U(i)) /\ Cardinality(U(i)) <= Cardinality(K)
  BY <1>1, <1>2, FS_Subset
<1>4. \A i \in K : Cardinality(U(i)) \in Nat /\ Cardinality(U(i)) # 0
  <2> TAKE i \in K
  <2>1. Cardinality(U(i)) \in Nat
    BY <1>3, FS_CardinalityType
  <2>2. U(i) # {}
    BY <1>2
  <2> QED
    BY <1>3, <2>1, <2>2, FS_EmptySet
<1>5. \A i, j \in K : i < j => Cardinality(U(i)) # Cardinality(U(j))
  <2> SUFFICES ASSUME NEW i \in K, NEW j \in K, i < j, Cardinality(U(i)) = Cardinality(U(j))
               PROVE FALSE
    OBVIOUS
  <2>1. U(i) \in SUBSET U(j) /\ j \in U(j) /\ j \notin U(i)
    BY <1>1
  <2> HIDE DEF U
  <2>2. IsFiniteSet(U(j))
    BY <1>3
  <2>3. U(i) = U(j)
    BY <2>1, <2>2, FS_Subset
  <2> QED
    BY <2>1, <2>3
<1>6. \A i \in K : rank(q, S, i) = Cardinality(U(i))
  BY DEF rank
<1> HIDE DEF U, K
<1>7. \A i \in K : rank(q, S, i) \in 1 .. Cardinality(K)
  <2> TAKE i \in K
  <2>1. Cardinality(K) \in Nat
    BY <1>1, FS_CardinalityType
  <2> QED
    BY <1>3, <1>4, <1>6, <2>1
<1>8. \A i, j \in K : rank(q, S, i) = rank(q, S, j) => i = j
  BY <1>1, <1>5, <1>6
<1> QED
  BY <1>7, <1>8 DEF K

(* The k-th entry that is kept stands at the position of rank k.           *)
LEMMA RankIsOnto ==
    ASSUME NEW T, NEW q \in Seq(T), NEW S, NEW k \in 1 .. Cardinality(kept(q, S))
    PROVE \E i \in kept(q, S) : rank(q, S, i) = k
<1> DEFINE K == kept(q, S)
           R == 1 .. Cardinality(K)
           r == [i \in K |-> rank(q, S, i)]
<1>1. IsFiniteSet(K) /\ Cardinality(K) \in Nat
  BY KeptFinite
<1>2. r \in Injection(K, R)
  BY RankIsInjective DEF Injection, IsInjective
<1>3. IsFiniteSet(R) /\ Cardinality(R) = Cardinality(K)
  BY <1>1, IntervalSize
<1>4. r \in Surjection(K, R)
  <2> HIDE DEF R, r, K
  <2> QED
    BY <1>2, <1>3, FS_Injection
<1> QED
  BY <1>4 DEF Surjection

(* keeping is a list of the entries that are wanted, with each of them, and *)
(* not longer than the list it is taken from.                              *)
LEMMA KeepingIsFilter ==
    ASSUME NEW T, NEW q \in Seq(T), NEW S
    PROVE /\ keeping(q, S) \in Seq(T)
          /\ Len(keeping(q, S)) <= Len(q)
          /\ Range(keeping(q, S)) = Range(q) \cap S
<1> DEFINE K == kept(q, S)
           n == Cardinality(K)
           at(k) == CHOOSE i \in K : rank(q, S, i) = k
           f == [k \in 1 .. n |-> q[at(k)]]
<1>1. n \in Nat /\ n <= Len(q)
  BY KeptFinite
<1>2. \A k \in 1 .. n : at(k) \in K /\ rank(q, S, at(k)) = k
  BY RankIsOnto
<1>3. \A i \in K : rank(q, S, i) \in 1 .. n /\ at(rank(q, S, i)) = i
  BY RankIsInjective, <1>2
<1>4. K \subseteq DOMAIN q /\ (\A i \in K : q[i] \in S) /\ (\A i \in DOMAIN q : q[i] \in T /\ (q[i] \in S => i \in K))
  BY DEF kept
<1>5. keeping(q, S) = f
  BY KeepingDef
<1> HIDE DEF K, n, at
<1>6. f \in [1 .. n -> T]
  BY <1>2, <1>4
<1>7. f \in Seq(T) /\ Len(f) = n /\ DOMAIN f = 1 .. n
  BY <1>1, <1>6
<1>8. \A x \in Range(q) \cap S : x \in Range(f)
  <2> TAKE x \in Range(q) \cap S
  <2>1. PICK i \in DOMAIN q : q[i] = x
    BY DEF Range
  <2>2. i \in K
    BY <1>4, <2>1
  <2> QED
    BY <1>3, <2>1, <2>2 DEF Range
<1>9. \A x \in Range(f) : x \in Range(q) \cap S
  BY <1>2, <1>4 DEF Range
<1> QED
  BY <1>1, <1>5, <1>7, <1>8, <1>9

-----------------------------------------------------------------------------
(* The functions of the controller.                                        *)

\* What may fail of a call's steps.
Outcomes == [addr : SUBSET Pads, drop : SUBSET Pads, first : BOOLEAN, second : BOOLEAN]

\* The controller's part of the invariant.
Remembered(t) == \A p \in Pads : t.link[p] = "taken" => p \in Range(t.saved)
Good(t)       == t \in States /\ Len(t.saved) <= SavedMax /\ Remembered(t)

\* From t to u the list and the links are the same.
SameList(t, u) == u.saved = t.saved /\ u.link = t.link

\* From t to u a pad comes to be unlisted only with a full list, and lost only when its address is not
\* among those that can be read; a full list stays full.
Labels(t, u, readable) ==
    /\ Len(t.saved) = SavedMax => Len(u.saved) = SavedMax
    /\ \A p \in Pads : \/ u.link[p] = t.link[p]
                       \/ /\ u.link[p] = "unlisted" => Len(u.saved) = SavedMax
                          /\ u.link[p] = "lost" => p \notin readable

Sizes == /\ PadOrder \in Seq(Pads) /\ Len(PadOrder) \in Nat
         /\ SavedMax \in Nat /\ SavedMax # 0 /\ Retries \in Nat /\ Retries # 0
         /\ LinkPasses \in Nat /\ LinkPasses < Retries

(* The constants, with their types spelled out.                            *)
LEMMA SizesHold == Sizes
  BY ControllerAssumption DEF Sizes

(* The pads that are connected are at most as many as are listed.          *)
LEMMA PadsFinite ==
    ASSUME NEW P \in SUBSET Pads
    PROVE Cardinality(P) \in 0 .. Len(PadOrder)
<1> DEFINE n == Len(PadOrder)
           f == [i \in 1 .. n |-> PadOrder[i]]
<1>1. n \in Nat /\ DOMAIN PadOrder = 1 .. n
  BY SizesHold DEF Sizes
<1>2. IsFiniteSet(1 .. n) /\ Cardinality(1 .. n) = n
  BY <1>1, IntervalSize
<1>3. f \in Surjection(1 .. n, Pads)
  BY <1>1 DEF Surjection, Pads, Range
<1> HIDE DEF n, f
<1>4. IsFiniteSet(Pads) /\ Cardinality(Pads) <= n
  BY <1>2, <1>3, FS_Surjection
<1>5. Cardinality(Pads) \in Nat
  BY <1>4, FS_CardinalityType
<1>6. IsFiniteSet(P) /\ Cardinality(P) <= Cardinality(Pads)
  BY <1>4, FS_Subset
<1>7. Cardinality(P) \in Nat
  BY <1>6, FS_CardinalityType
<1> QED
  BY <1>1, <1>4, <1>5, <1>6, <1>7 DEF n

(* The pads of a set, as hidsys lists them.                                *)
LEMMA ListingType ==
    ASSUME NEW P \in SUBSET Pads
    PROVE listing[P] \in Seq(Pads) /\ Len(listing[P]) \in Nat /\ Range(listing[P]) = P
<1>1. listing[P] = keeping(PadOrder, P)
  BY DEF listing
<1>2. keeping(PadOrder, P) \in Seq(Pads) /\ Range(keeping(PadOrder, P)) = P
  BY SizesHold, KeepingIsFilter DEF Sizes, Pads
<1> QED
  BY <1>1, <1>2

(* What the console lists fits its range.                                  *)
LEMMA ListedType ==
    ASSUME NEW t \in States
    PROVE listed(t) \in Counts /\ sampled(t) \in Counts /\ signature(t) \in (1 .. 2) \X Counts
<1>1. Cardinality(on(t)) \in 0 .. Len(PadOrder)
  BY PadsFinite DEF on
<1>2. listed(t) \in Counts
  BY <1>1, SizesHold DEF listed, Counts, Sizes
<1>3. sampled(t) \in Counts
  BY <1>2, SizesHold DEF sampled, Counts, Sizes
<1> QED
  BY <1>2, <1>3 DEF signature, States

(* A pad whose address drops from the list is labelled with the reason.    *)
LEMMA LosingType ==
    ASSUME NEW link \in [Pads -> Links], NEW P, NEW why \in {"unlisted", "lost"}
    PROVE /\ losing(link, P, why) \in [Pads -> Links]
          /\ \A p \in Pads : losing(link, P, why)[p] = "taken" <=> p \notin P /\ link[p] = "taken"
          /\ \A p \in Pads : losing(link, P, why)[p] = link[p] \/ (p \in P /\ losing(link, P, why)[p] = why)
  BY DEF losing, Links

(* The labels of two changes, one after the other.                         *)
LEMMA LabelsTrans ==
    ASSUME NEW t, NEW u, NEW v, NEW readable, Labels(t, u, readable), Labels(u, v, readable)
    PROVE Labels(t, v, readable)
  BY DEF Labels

(* The labels of a change that leaves the list alone.                      *)
LEMMA LabelsSame ==
    ASSUME NEW t, NEW u, NEW readable, SameList(t, u)
    PROVE Labels(t, u, readable)
  BY DEF Labels, SameList

(* The tail of a list has all entries but the first.                       *)
LEMMA TailRange ==
    ASSUME NEW T, NEW q \in Seq(T), q # <<>>
    PROVE /\ Tail(q) \in Seq(T) /\ Len(Tail(q)) = Len(q) - 1
          /\ \A x \in Range(q) : x \in Range(Tail(q)) \/ x = Head(q)
<1>1. Tail(q) \in Seq(T) /\ Len(Tail(q)) = Len(q) - 1 /\ Len(q) \in Nat
  OBVIOUS
<1>2. \A x \in Range(q) : x \in Range(Tail(q)) \/ x = Head(q)
  <2> TAKE x \in Range(q)
  <2>1. PICK i \in 1 .. Len(q) : q[i] = x
    BY DEF Range
  <2>2. CASE i = 1
    BY <2>1, <2>2
  <2>3. CASE i # 1
    <3>1. i - 1 \in 1 .. Len(Tail(q))
      BY <1>1, <2>3
    <3>2. Tail(q)[i - 1] = x
      BY <2>1, <2>3
    <3>3. DOMAIN Tail(q) = 1 .. Len(Tail(q))
      BY <1>1
    <3> QED
      BY <3>1, <3>2, <3>3 DEF Range
  <2> QED
    BY <2>2, <2>3
<1> QED
  BY <1>1, <1>2

(* An explicit address joins the list, and may push another one out of a   *)
(* full list.                                                              *)
LEMMA RememberingGood ==
    ASSUME NEW t, Good(t), NEW a \in Pads \cup {Stranger}
    PROVE LET u == remembering(t, a)
          IN Good(u) /\ u.init = t.init /\ u.held = t.held /\ Labels(t, u, Pads)
<1> USE DEF Good
<1>1. CASE a \in Range(t.saved)
  BY <1>1 DEF remembering, Labels
<1>2. CASE a \notin Range(t.saved)
  <2> DEFINE full == Len(t.saved) >= SavedMax
             rest == IF full THEN Tail(t.saved) ELSE t.saved
             out  == IF full THEN {Head(t.saved)} ELSE {}
             link == losing(t.link, out, "unlisted")
             u    == [t EXCEPT !.saved = Append(rest, a), !.link = link]
  <2>1. remembering(t, a) = u
    BY <1>2 DEF remembering
  <2>2. t.saved \in Seq(Pads \cup {Stranger}) /\ t.link \in [Pads -> Links]
    BY DEF States
  <2>3. /\ rest \in Seq(Pads \cup {Stranger}) /\ Len(rest) < SavedMax
        /\ \A x \in Range(t.saved) : x \in Range(rest) \/ x \in out
        /\ Len(t.saved) = SavedMax \/ out # {} => Len(rest) = SavedMax - 1
    <3>1. CASE full
      <4>1. t.saved # <<>>
        BY <2>2, <3>1, SizesHold DEF Sizes
      <4>2. rest = Tail(t.saved) /\ out = {Head(t.saved)}
        BY <3>1
      <4> QED
        BY <2>2, <4>1, <4>2, TailRange, SizesHold DEF Sizes
    <3>2. CASE ~full
      BY <2>2, <3>2, SizesHold DEF Sizes
    <3> QED
      BY <3>1, <3>2
  <2>4. /\ link \in [Pads -> Links] /\ \A p \in Pads : link[p] = "taken" => p \notin out /\ t.link[p] = "taken"
        /\ \A p \in Pads : link[p] = t.link[p] \/ (p \in out /\ link[p] = "unlisted")
    BY <2>2, LosingType
  <2> HIDE DEF rest, out, link
  <2>5. /\ Append(rest, a) \in Seq(Pads \cup {Stranger}) /\ Len(Append(rest, a)) <= SavedMax
        /\ Len(Append(rest, a)) = Len(rest) + 1
        /\ \A x \in Range(rest) : x \in Range(Append(rest, a))
    <3>1. \A i \in DOMAIN rest : i \in DOMAIN Append(rest, a) /\ Append(rest, a)[i] = rest[i]
      BY <2>3
    <3> QED
      BY <2>3, <3>1, SizesHold DEF Sizes, Range
  <2>6. u \in States /\ u.saved = Append(rest, a) /\ u.link = link /\ u.init = t.init /\ u.held = t.held
    BY <2>4, <2>5 DEF States
  <2>7. Remembered(u)
    BY <2>3, <2>4, <2>5, <2>6 DEF Remembered
  <2>8. Labels(t, u, Pads)
    <3>1. Len(t.saved) = SavedMax \/ out # {} => Len(u.saved) = SavedMax
      BY <2>3, <2>5, <2>6, SizesHold DEF Sizes
    <3> QED
      BY <2>4, <2>6, <3>1 DEF Labels
  <2> QED
    BY <2>1, <2>5, <2>6, <2>7, <2>8
<1> QED
  BY <1>1, <1>2

(* A list with another one behind it.                                      *)
LEMMA ConcatRange ==
    ASSUME NEW T, NEW a \in Seq(T), NEW b \in Seq(T)
    PROVE /\ a \o b \in Seq(T) /\ Len(a \o b) = Len(a) + Len(b)
          /\ Range(a) \subseteq Range(a \o b) /\ Range(b) \subseteq Range(a \o b)
<1>1. a \o b \in Seq(T) /\ Len(a \o b) = Len(a) + Len(b) /\ Len(a) \in Nat /\ Len(b) \in Nat
  OBVIOUS
<1>2. DOMAIN a = 1 .. Len(a) /\ DOMAIN (a \o b) = 1 .. Len(a \o b)
  BY <1>1
<1>3. \A i \in 1 .. Len(a) : i \in 1 .. Len(a \o b) /\ (a \o b)[i] = a[i]
  BY <1>1
<1>4. DOMAIN b = 1 .. Len(b) /\ \A i \in 1 .. Len(b) : Len(a) + i \in 1 .. Len(a \o b) /\ (a \o b)[Len(a) + i] = b[i]
  BY <1>1
<1> QED
  BY <1>1, <1>2, <1>3, <1>4 DEF Range

(* The pads of a slot join the list as far as it has room.                 *)
LEMMA SavingGood ==
    ASSUME NEW t, Good(t), NEW f \in Outcomes
    PROVE \E q \in Seq(Pads \cup {Stranger}), n \in 0 .. Retries :
             /\ savingAddress(t, f) = [t EXCEPT !.saved = q, !.attempts = n]
             /\ Len(q) <= SavedMax /\ Range(t.saved) \subseteq Range(q)
             /\ Len(t.saved) = SavedMax => Len(q) = SavedMax
             /\ \A p \in t.holder \cap f.addr : p \in Range(q) \/ Len(q) = SavedMax
<1> DEFINE A    == Pads \cup {Stranger}
           new  == listing[(t.holder \cap f.addr) \ Range(t.saved)]
           room == SavedMax - Len(t.saved)
           m    == IF room < Len(new) THEN room ELSE Len(new)
           q    == t.saved \o SubSeq(new, 1, m)
           n    == IF new # <<>> /\ room > 0 THEN 0 ELSE t.attempts
<1>1. savingAddress(t, f) = [t EXCEPT !.saved = q, !.attempts = n]
  BY DEF savingAddress
<1>2. t.saved \in Seq(A) /\ Len(t.saved) \in Nat /\ t.attempts \in 0 .. Retries /\ t.holder \in SUBSET Pads
  BY DEF Good, States
<1>3. /\ new \in Seq(Pads) /\ Len(new) \in Nat
      /\ \A p \in t.holder \cap f.addr : p \in Range(t.saved) \/ p \in Range(new)
  BY <1>2, ListingType
<1>4. room \in Nat /\ n \in 0 .. Retries
  BY <1>2, SizesHold DEF Good, Sizes
<1> HIDE DEF new
<1>5. m \in 0 .. Len(new) /\ m <= room /\ (m = room \/ m = Len(new))
  BY <1>3, <1>4
<1> HIDE DEF m
<1>6. SubSeq(new, 1, m) \in Seq(A) /\ Len(SubSeq(new, 1, m)) = m
  BY <1>3, <1>5
<1>7. q \in Seq(A) /\ Len(q) = Len(t.saved) + m /\ Range(t.saved) \subseteq Range(q)
  <2> HIDE DEF A
  <2> QED
    BY <1>2, <1>6, ConcatRange
<1>8. Len(q) <= SavedMax /\ (m = room => Len(q) = SavedMax) /\ (Len(t.saved) = SavedMax => Len(q) = SavedMax)
  <2> HIDE DEF q
  <2> QED
    BY <1>2, <1>4, <1>5, <1>7, SizesHold DEF Sizes
<1>9. m = Len(new) => Range(new) \subseteq Range(q)
  <2> DEFINE part == SubSeq(new, 1, m)
  <2> SUFFICES ASSUME m = Len(new) PROVE Range(new) \subseteq Range(q)
    OBVIOUS
  <2>1. /\ DOMAIN new = 1 .. Len(new) /\ DOMAIN part = 1 .. Len(new)
        /\ \A i \in 1 .. Len(new) : part[i] = new[i]
    BY <1>3
  <2>2. Range(new) \subseteq Range(part)
    <3> HIDE DEF part
    <3> QED
      BY <2>1 DEF Range
  <2>3. Range(part) \subseteq Range(q)
    <3> HIDE DEF A
    <3> QED
      BY <1>2, <1>6, ConcatRange
  <2> HIDE DEF part, q
  <2> QED
    BY <2>2, <2>3
<1>10. \A p \in t.holder \cap f.addr : p \in Range(q) \/ Len(q) = SavedMax
  <2> HIDE DEF q
  <2> QED
    BY <1>3, <1>5, <1>7, <1>8, <1>9
<1> HIDE DEF q, n
<1> QED
  BY <1>1, <1>4, <1>7, <1>8, <1>10

(* Who is disconnected is on the list, or found it full, or is lost.       *)
LEMMA DisconnectingGood ==
    ASSUME NEW t, Good(t), NEW f \in Outcomes, NEW how \in {"taken", "kicked"}
    PROVE LET u == disconnecting(t, f, how)
          IN Good(u) /\ u.init = t.init /\ u.held = t.held /\ Labels(t, u, f.addr)
<1>1. PICK q \in Seq(Pads \cup {Stranger}), n \in 0 .. Retries :
             /\ savingAddress(t, f) = [t EXCEPT !.saved = q, !.attempts = n]
             /\ Len(q) <= SavedMax /\ Range(t.saved) \subseteq Range(q)
             /\ Len(t.saved) = SavedMax => Len(q) = SavedMax
             /\ \A p \in t.holder \cap f.addr : p \in Range(q) \/ Len(q) = SavedMax
  BY SavingGood
<1> DEFINE gone == t.holder \cap f.drop
           link == [p \in Pads |-> IF p \notin gone THEN t.link[p] ELSE IF p \in Range(q) THEN how
                                   ELSE IF p \in f.addr THEN "unlisted" ELSE "lost"]
           u    == [t EXCEPT !.saved = q, !.attempts = n, !.holder = t.holder \ gone, !.link = link]
<1>2. t \in States /\ t.holder \in SUBSET Pads /\ t.link \in [Pads -> Links]
  BY DEF Good, States
<1>3. disconnecting(t, f, how) = u
  BY <1>1, <1>2 DEF disconnecting, States
<1>4. link \in [Pads -> Links] /\ \A p \in Pads : link[p] = "taken" => p \in Range(q)
  BY <1>1, <1>2 DEF Links, Good, Remembered
<1>5. \A p \in Pads : \/ link[p] = t.link[p]
                     \/ /\ link[p] = "unlisted" => p \in t.holder \cap f.addr /\ p \notin Range(q)
                        /\ link[p] = "lost" => p \notin f.addr
  OBVIOUS
<1> HIDE DEF link, gone
<1>6. u \in States /\ u.saved = q /\ u.link = link /\ u.init = t.init /\ u.held = t.held
  BY <1>2, <1>4 DEF States
<1>7. Labels(t, u, f.addr)
  BY <1>1, <1>5, <1>6 DEF Labels
<1> QED
  BY <1>1, <1>3, <1>4, <1>6, <1>7 DEF Good, Remembered

(* A takeover.                                                             *)
LEMMA TakingOverGood ==
    ASSUME NEW t, Good(t), NEW f \in Outcomes
    PROVE LET u == takingOver(t, f)
          IN Good(u) /\ u.init = t.init /\ u.held = t.held /\ Labels(t, u, f.addr)
<1> DEFINE d == disconnecting(t, f, "taken")
<1>1. Good(d) /\ d.init = t.init /\ d.held = t.held /\ Labels(t, d, f.addr)
  BY DisconnectingGood
<1>2. kicking(t, f) = IF d.holder = t.holder THEN d ELSE [d EXCEPT !.yield = TRUE, !.sample = NoSample]
  BY DEF kicking
<1> HIDE DEF d
<1>3. Good([d EXCEPT !.yield = TRUE, !.sample = NoSample])
  BY <1>1 DEF Good, States, Remembered
<1>4. LET u == [d EXCEPT !.yield = TRUE, !.sample = NoSample]
      IN u.init = d.init /\ u.held = d.held /\ SameList(d, u)
  BY <1>1 DEF Good, States, SameList
<1>5. Labels(t, [d EXCEPT !.yield = TRUE, !.sample = NoSample], f.addr)
  BY <1>1, <1>4, LabelsSame, LabelsTrans
<1>6. Labels(t, t, f.addr)
  BY DEF Labels
<1> QED
  BY <1>1, <1>2, <1>3, <1>4, <1>5, <1>6 DEF takingOver

(* Taking the device down changes nothing about the list.                  *)
LEMMA TorndownGood ==
    ASSUME NEW t, Good(t)
    PROVE Good(torndown(t)) /\ ~torndown(t).init /\ torndown(t).held = t.held /\ SameList(t, torndown(t))
  BY DEF torndown, Good, States, Remembered, SameList

(* Nor does building it.                                                   *)
LEMMA InitialisedGood ==
    ASSUME NEW t, Good(t), NEW ok \in BOOLEAN
    PROVE LET u == initialised(t, ok) IN Good(u) /\ u.init /\ u.held = t.held /\ SameList(t, u)
<1>1. CASE t.init
  BY <1>1 DEF initialised, SameList
<1>2. CASE ~t.init
  <2> DEFINE v == [t EXCEPT !.init = TRUE, !.attached = ok, !.sample = NoSample]
             u == [v EXCEPT !.built = signature(v)]
  <2>1. Good(v) /\ v.init /\ v.held = t.held /\ SameList(t, v)
    BY DEF Good, States, Remembered, SameList
  <2>2. initialised(t, ok) = u
    BY <1>2 DEF initialised
  <2> HIDE DEF v
  <2>3. signature(v) \in (1 .. 2) \X Counts
    BY <2>1, ListedType DEF Good
  <2>4. Good(u) /\ u.init /\ u.held = v.held /\ SameList(v, u)
    BY <2>1, <2>3 DEF Good, States, Remembered, SameList
  <2> QED
    BY <2>1, <2>2, <2>4 DEF SameList
<1> QED
  BY <1>1, <1>2

(* ensureControllerLocked ends with a device, whatever failed.             *)
LEMMA EnsuredGood ==
    ASSUME NEW t, Good(t), NEW f \in Outcomes
    PROVE LET u == ensured(t, f) IN Good(u) /\ u.init /\ u.held = t.held /\ Labels(t, u, f.addr)
<1>1. CASE deviceAttached(t)
  BY <1>1 DEF ensured, deviceAttached, Labels
<1>2. CASE ~deviceAttached(t)
  <2> DEFINE v == torndown(takingOver(t, f))
  <2>1. Good(v) /\ v.held = t.held /\ Labels(t, v, f.addr)
    BY TakingOverGood, TorndownGood, LabelsSame, LabelsTrans
  <2>2. ensured(t, f) = initialised(v, f.first) /\ f.first \in BOOLEAN
    BY <1>2 DEF ensured, Outcomes
  <2> HIDE DEF v
  <2> QED
    BY <2>1, <2>2, InitialisedGood, LabelsSame, LabelsTrans
<1> QED
  BY <1>1, <1>2

(* So does a write.                                                        *)
LEMMA WroteGood ==
    ASSUME NEW t, Good(t), NEW f \in Outcomes
    PROVE LET u == wrote(t, f) IN Good(u) /\ u.init /\ u.held = t.held /\ Labels(t, u, f.addr)
<1> DEFINE e == ensured(t, f)
           v == torndown(takingOver(e, f))
<1>1. Good(e) /\ e.init /\ e.held = t.held /\ Labels(t, e, f.addr)
  BY EnsuredGood
<1>2. wrote(t, f) = IF accepts(e) THEN e ELSE initialised(v, f.second)
  BY DEF wrote
<1>3. f.second \in BOOLEAN
  BY DEF Outcomes
<1> HIDE DEF e
<1>4. Good(v) /\ v.held = e.held /\ Labels(e, v, f.addr)
  BY <1>1, TakingOverGood, TorndownGood, LabelsSame, LabelsTrans
<1> HIDE DEF v
<1>5. LET u == initialised(v, f.second) IN Good(u) /\ u.init /\ u.held = v.held /\ Labels(t, u, f.addr)
  BY <1>1, <1>3, <1>4, InitialisedGood, LabelsSame, LabelsTrans
<1> QED
  BY <1>1, <1>2, <1>4, <1>5

(* A button or the stick is pressed or let go: the device stays.           *)
LEMMA PressedGood ==
    ASSUME NEW t, Good(t), NEW f \in Outcomes, NEW b \in Buttons
    PROVE /\ Good(pressed(t, b, f)) /\ pressed(t, b, f).init /\ Labels(t, pressed(t, b, f), f.addr)
          /\ Good(released(t, b, f)) /\ released(t, b, f).init /\ Labels(t, released(t, b, f), f.addr)
<1> DEFINE x == [t EXCEPT !.held = @ \cup {b}]
           y == [t EXCEPT !.held = @ \ {b}]
<1>1. Good(x) /\ Good(y) /\ SameList(t, x) /\ SameList(t, y)
  BY DEF Good, States, Remembered, SameList
<1>2. pressed(t, b, f) = wrote(x, f) /\ released(t, b, f) = wrote(y, f)
  BY DEF pressed, released
<1> HIDE DEF x, y
<1> QED
  BY <1>1, <1>2, WroteGood, LabelsSame, LabelsTrans

(* detachController lets go of everything.                                 *)
LEMMA DetachedGood ==
    ASSUME NEW t, Good(t)
    PROVE Good(detached(t)) /\ detached(t).held = {} /\ SameList(t, detached(t))
<1> DEFINE d == torndown(t)
<1>1. Good(d) /\ SameList(t, d)
  BY TorndownGood
<1>2. detached(t) = [d EXCEPT !.held = {}]
  BY DEF detached
<1> HIDE DEF d
<1> QED
  BY <1>1, <1>2 DEF Good, States, Remembered, SameList

(* Handing the slot back needs that nothing is held.                       *)
LEMMA ReleasedIdleGood ==
    ASSUME NEW t, Good(t)
    PROVE LET u == releasedIdle(t)
          IN Good(u) /\ ((u.init = t.init /\ u.held = t.held) \/ u.held = {}) /\ SameList(t, u)
<1> DEFINE d == torndown(t)
           u == [d EXCEPT !.built = NoLayout, !.yield = FALSE]
<1>1. Good(d) /\ d.held = t.held /\ SameList(t, d)
  BY TorndownGood
<1>2. \/ releasedIdle(t) = t
      \/ t.held = {} /\ releasedIdle(t) = u
  BY DEF releasedIdle
<1> HIDE DEF d
<1>3. Good(u) /\ u.held = d.held /\ SameList(d, u)
  BY <1>1, ZenonT(40) DEF Good, States, Remembered, SameList
<1> HIDE DEF u
<1> QED
  BY <1>1, <1>2, <1>3 DEF SameList

(* controllerRefreshIfIdle.                                                *)
LEMMA RefreshedGood ==
    ASSUME NEW t, Good(t), NEW limited
    PROVE Good(refreshed(t, limited)) /\ SameList(t, refreshed(t, limited))
<1> DEFINE v == [t EXCEPT !.age = "new"]
           d == [v EXCEPT !.built = signature(t), !.refreshed = TRUE]
<1>1. signature(t) \in (1 .. 2) \X Counts
  BY ListedType DEF Good
<1>2. refreshed(t, limited) = v \/ refreshed(t, limited) = torndown(d)
  BY DEF refreshed
<1>3. Good(v) /\ SameList(t, v)
  BY DEF Good, States, Ages, Remembered, SameList
<1> HIDE DEF v
<1>4. Good(d) /\ SameList(v, d)
  BY <1>1, <1>3 DEF Good, States, Remembered, SameList
<1> QED
  BY <1>2, <1>3, <1>4, TorndownGood DEF SameList

(* A page takes no address from the list, and no pad becomes a taken one.  *)
LEMMA TriggeredGood ==
    ASSUME NEW t, Good(t), NEW q, NEW bad
    PROVE LET u == triggered(t, q, bad)
          IN /\ Good(u) /\ u.saved = t.saved /\ u.attempts = t.attempts /\ u.init = t.init /\ u.held = t.held
             /\ \A p \in Pads : u.link[p] = "taken" => t.link[p] = "taken"
             /\ \A p \in Pads : u.link[p] = t.link[p] \/ u.link[p] = "paging"
             /\ paging(t) # {} => u = t
<1> DEFINE able == keeping(q, {p \in Pads \ bad : t.link[p] \in {"taken", "kicked", "unlisted", "lost"}})
           x    == Head(able)
           link == [t.link EXCEPT ![x] = "paging"]
           u    == [t EXCEPT !.link = link, !.linkAge = 0]
<1>1. triggered(t, q, bad) = t \/ (triggered(t, q, bad) = u /\ paging(t) = {})
  BY DEF triggered
<1>2. t.link \in [Pads -> Links]
  BY DEF Good, States
<1> HIDE DEF x
<1>3. /\ link \in [Pads -> Links] /\ \A p \in Pads : link[p] = "taken" => t.link[p] = "taken"
      /\ \A p \in Pads : link[p] = t.link[p] \/ link[p] = "paging"
  BY <1>2 DEF Links
<1> HIDE DEF link
<1>4. u \in States /\ u.saved = t.saved /\ u.link = link /\ u.attempts = t.attempts /\ u.init = t.init /\ u.held = t.held
  <2>1. 0 \in 0 .. LinkPasses
    BY SizesHold DEF Sizes
  <2> QED
    BY <1>3, <2>1 DEF Good, States
<1>5. Good(u)
  BY <1>3, <1>4 DEF Good, Remembered
<1> HIDE DEF u
<1> QED
  BY <1>1, <1>3, <1>4, <1>5

(* One pass of controllerServiceReconnect: an address leaves the list when *)
(* its page was accepted; when the budget is used up, what is left is lost. *)
LEMMA ReconnectedGood ==
    ASSUME NEW t, Good(t), NEW bad, paging(t) = {} \/ t.linkAge < LinkPasses \/ t.saved = <<>> \/ t.init
    PROVE LET u == reconnected(t, bad)
          IN /\ Good(u) /\ u.init = t.init /\ u.held = t.held
             /\ \A p \in Pads : \/ u.link[p] = t.link[p] \/ u.link[p] = "paging"
                              \/ (u.link[p] = "lost" /\ t.attempts + 1 >= Retries)
<1>1. CASE t.saved = <<>> \/ t.init
  <2>1. reconnected(t, bad) = t
    BY <1>1 DEF reconnected
  <2> QED
    BY <2>1
<1>2. CASE ~(t.saved = <<>> \/ t.init)
  <2> DEFINE A     == Pads \cup {Stranger}
             v     == triggered(t, t.saved, bad)
             retry == keeping(t.saved, {Stranger} \cup {p \in Pads : v.link[p] = t.link[p]})
             last  == retry = <<>> \/ t.attempts + 1 >= Retries
             q     == IF last THEN <<>> ELSE retry
             n     == IF last THEN 0 ELSE v.attempts + 1
             link  == losing(v.link, IF last THEN Range(retry) ELSE {}, "lost")
             age   == IF paging(t) # {} THEN v.linkAge + 1 ELSE v.linkAge
             u     == [v EXCEPT !.saved = q, !.attempts = n, !.link = link, !.linkAge = age]
  <2>1. reconnected(t, bad) = u
    BY <1>2 DEF reconnected
  <2>2. /\ Good(v) /\ v.saved = t.saved /\ v.attempts = t.attempts /\ v.init = t.init /\ v.held = t.held
        /\ \A p \in Pads : v.link[p] = t.link[p] \/ v.link[p] = "paging"
        /\ \A p \in Pads : v.link[p] = "taken" => t.link[p] = "taken"
        /\ paging(t) # {} => v = t
    BY TriggeredGood
  <2> HIDE DEF v
  <2>3. t.saved \in Seq(A) /\ Len(t.saved) \in Nat /\ Len(t.saved) <= SavedMax
    BY DEF Good, States
  <2>4. /\ retry \in Seq(A) /\ Len(retry) <= Len(t.saved)
        /\ Range(retry) = Range(t.saved) \cap ({Stranger} \cup {p \in Pads : v.link[p] = t.link[p]})
    <3> HIDE DEF A
    <3> QED
      BY <2>3, KeepingIsFilter
  <2>5. \A p \in Pads : v.link[p] = "taken" => p \in Range(retry)
    BY <2>2, <2>4 DEF Good, Remembered
  <2>12. retry = <<>> => Range(retry) = {}
    BY DEF Range
  <2> HIDE DEF retry
  <2>6. q \in Seq(A) /\ Len(q) <= SavedMax
    BY <2>3, <2>4, SizesHold DEF Sizes
  <2>7. n \in 0 .. Retries
    BY <2>2, SizesHold DEF Good, States, Sizes
  <2>8. age \in 0 .. LinkPasses
    BY <1>2, <2>2, SizesHold DEF Good, States, Sizes
  <2>9. /\ link \in [Pads -> Links] /\ \A p \in Pads : link[p] = "taken" => ~last /\ v.link[p] = "taken"
        /\ \A p \in Pads : \/ link[p] = v.link[p]
                         \/ (link[p] = "lost" /\ p \in (IF last THEN Range(retry) ELSE {}))
    <3>1. v.link \in [Pads -> Links]
      BY <2>2 DEF Good, States
    <3> DEFINE P == IF last THEN Range(retry) ELSE {}
    <3>2. /\ losing(v.link, P, "lost") \in [Pads -> Links]
          /\ \A p \in Pads : losing(v.link, P, "lost")[p] = "taken" <=> p \notin P /\ v.link[p] = "taken"
          /\ \A p \in Pads : \/ losing(v.link, P, "lost")[p] = v.link[p]
                           \/ (p \in P /\ losing(v.link, P, "lost")[p] = "lost")
      <4> HIDE DEF P
      <4> QED
        BY <3>1, LosingType
    <3> QED
      BY <2>5, <3>2
  <2>10. \A p \in Pads : link[p] = "taken" => p \in Range(q)
    BY <2>5, <2>9
  <2>13. \A p \in Pads : \/ link[p] = v.link[p]
                        \/ (link[p] = "lost" /\ t.attempts + 1 >= Retries)
    BY <2>9, <2>12
  <2> HIDE DEF q, n, age, link, last
  <2>11. u \in States /\ u.saved = q /\ u.link = link /\ u.init = t.init /\ u.held = t.held
    BY <2>2, <2>6, <2>7, <2>8, <2>9 DEF Good, States
  <2> QED
    BY <2>1, <2>2, <2>6, <2>10, <2>11, <2>13 DEF Good, Remembered
<1> QED
  BY <1>1, <1>2

(* Giving the list up loses everybody on it.                               *)
LEMMA GivenUpGood ==
    ASSUME NEW t, Good(t)
    PROVE LET u == givenUp(t)
          IN /\ Good(u) /\ u.init = t.init /\ u.held = t.held
             /\ \A p \in Pads : u.link[p] = t.link[p] \/ u.link[p] = "lost"
<1> DEFINE link == losing(t.link, Range(t.saved), "lost")
           u    == [t EXCEPT !.saved = <<>>, !.attempts = 0, !.link = link]
<1>1. givenUp(t) = t \/ givenUp(t) = u
  BY DEF givenUp
<1>2. /\ link \in [Pads -> Links] /\ \A p \in Pads : link[p] # "taken"
      /\ \A p \in Pads : link[p] = t.link[p] \/ link[p] = "lost"
  BY LosingType DEF Good, States, Remembered
<1> HIDE DEF link
<1>3. u \in States /\ Len(u.saved) = 0 /\ u.link = link /\ u.init = t.init /\ u.held = t.held
  <2>1. 0 \in 0 .. Retries /\ <<>> \in Seq(Pads \cup {Stranger}) /\ Len(<<>>) = 0
    BY SizesHold DEF Sizes
  <2> QED
    BY <1>2, <2>1 DEF Good, States
<1> HIDE DEF u
<1> QED
  BY <1>1, <1>2, <1>3, SizesHold DEF Good, Remembered, Sizes

-----------------------------------------------------------------------------
(* The threads and the invariant.                                          *)

\* Each thread holds its mutex while it works on its job, which is then not empty.
ClickReady  == /\ click \in [pc : ClickPcs, job : Seq(Items), token : BOOLEAN, locked : BOOLEAN]
               /\ click.locked <=> click.pc \notin {"poll", "reset"}
               /\ click.pc \in {"half", "stamp"} => click.job # <<>>
TouchReady  == /\ finger \in [pc : TouchPcs, state : BOOLEAN, points : 0 .. 2, hold : BOOLEAN, token : BOOLEAN,
                              locked : BOOLEAN]
               /\ finger.locked <=> finger.pc \notin {"poll", "reset"}
               /\ finger.pc \in {"init", "down"} \/ (~finger.locked /\ finger.state) => finger.points # 0
TypistReady == /\ typist \in [pc : KeyPcs, state : BOOLEAN, keys : 0 .. 2, locked : BOOLEAN]
               /\ typist.locked <=> typist.pc # "poll"
               /\ typist.pc \in {"init", "type"} \/ (~typist.locked /\ typist.state) => typist.keys # 0

Threads == main \in [pc : MainPcs, op : Ops, letGo : BOOLEAN] /\ left \in 0 .. MaxEvents /\ ClickReady /\ TouchReady /\ TypistReady

InputInv == Good(s) /\ Threads

\* Only controllerRefreshIfIdle leaves a device taken down under what is held.
HeldStep == \/ Refresh \/ s'.init \/ s'.held = {}
            \/ s'.held = s.held /\ s'.init = s.init

\* Why a pad is not called back.
LinkStep == \A p \in Pads : s'.link[p] # s.link[p] =>
               /\ s'.link[p] = "unlisted" => Len(s'.saved) = SavedMax
               /\ s'.link[p] = "lost"     => left' < left \/ (At("reconnect") /\ s.attempts + 1 >= Retries)

\* A step that keeps the controller's part of the invariant, what is held, and the labels of the pads.
Keeps == Good(s') /\ HeldStep /\ LinkStep

(* What fails is a set of outcomes.                                        *)
LEMMA FailuresType == Fine \in Outcomes /\ Failures \subseteq Outcomes
  BY ZenonT(40) DEF Fine, Failures, Outcomes

(* What is left of the events.                                             *)
LEMMA LeftType ==
    ASSUME left \in 0 .. MaxEvents, Ill \/ NotIll \/ Input
    PROVE left' \in 0 .. MaxEvents
  BY InputAssumption DEF Ill, NotIll, Input

(* A pad is lost only with a call that fails.                              *)
LEMMA LabelsMet ==
    ASSUME InputInv, NEW f, f = Fine \/ Ill, Labels(s, s', f.addr)
    PROVE LinkStep
<1>1. left \in 0 .. MaxEvents /\ MaxEvents \in Nat
  BY InputAssumption DEF InputInv, Threads
<1>2. f.addr = Pads \/ left' < left
  BY <1>1 DEF Fine, Ill
<1> QED
  BY <1>2 DEF Labels, LinkStep

(* Where no call fails, no pad is lost.                                    *)
LEMMA LabelsFine ==
    ASSUME Labels(s, s', Pads)
    PROVE LinkStep
  BY DEF Labels, LinkStep

(* A write under the lock meets some outcome, and keeps the device.        *)
LEMMA LockedPress ==
    ASSUME InputInv, NEW b \in Buttons,
           Locked(LAMBDA f : pressed(s, b, f)) \/ Locked(LAMBDA f : released(s, b, f))
    PROVE Keeps /\ s'.init /\ left' \in 0 .. MaxEvents
<1>1. PICK f \in Outcomes : (s' = pressed(s, b, f) \/ s' = released(s, b, f)) /\ (f = Fine \/ Ill)
  BY FailuresType DEF Locked
<1>2. Ill \/ NotIll
  BY DEF Locked
<1>3. Good(s') /\ s'.init /\ Labels(s, s', f.addr)
  BY <1>1, PressedGood DEF InputInv
<1> QED
  BY <1>1, <1>2, <1>3, LabelsMet, LeftType DEF InputInv, Threads, Keeps, HeldStep

(* So do the calls that only build the device.                             *)
LEMMA LockedBuild ==
    ASSUME InputInv, Locked(LAMBDA f : ensured(s, f)) \/ Locked(LAMBDA f : initialised(s, f.first))
    PROVE Keeps /\ s'.init /\ left' \in 0 .. MaxEvents
<1>1. PICK f \in Outcomes : (s' = ensured(s, f) \/ s' = initialised(s, f.first)) /\ (f = Fine \/ Ill)
  BY FailuresType DEF Locked
<1>2. Good(s') /\ s'.init /\ Labels(s, s', f.addr)
  <2>1. f.first \in BOOLEAN /\ Good(s)
    BY DEF Outcomes, InputInv
  <2>2. Good(ensured(s, f)) /\ ensured(s, f).init /\ Labels(s, ensured(s, f), f.addr)
    BY <2>1, EnsuredGood
  <2>3. LET u == initialised(s, f.first) IN Good(u) /\ u.init /\ Labels(s, u, f.addr)
    BY <2>1, InitialisedGood, LabelsSame
  <2> QED
    BY <1>1, <2>2, <2>3
<1>3. Ill \/ NotIll
  BY DEF Locked
<1> QED
  BY <1>1, <1>2, <1>3, LabelsMet, LeftType DEF InputInv, Threads, Keeps, HeldStep

-----------------------------------------------------------------------------
(* The steps.                                                              *)

(* A step that leaves the controller alone.                                *)
LEMMA SameController ==
    ASSUME InputInv, UNCHANGED s
    PROVE Keeps
  BY DEF InputInv, Keeps, HeldStep, LinkStep

(* A change of fields that neither the list nor the buttons depend on.     *)
LEMMA OtherFields ==
    ASSUME InputInv, s' \in States, s'.saved = s.saved, s'.link = s.link, s'.init = s.init, s'.held = s.held
    PROVE Keeps
  BY DEF InputInv, Good, Remembered, Keeps, HeldStep, LinkStep

(* Commands and services of the main loop: what they do to the controller. *)
LEMMA MainKeeps ==
    ASSUME InputInv,
           \/ Command \/ clickCancel \/ touchCommand \/ touchCancel \/ keyCommand \/ detachController
           \/ configureTakeover \/ controllerKick \/ controllerReconnect \/ mainSteps
    PROVE Keeps
<1> USE DEF InputInv
<1>1. CASE \/ Command \/ clickCancel \/ touchCommand \/ touchCancel \/ keyCommand
           \/ makeClickSeq \/ makeTouch \/ makeKeys
  BY <1>1, SameController DEF Command, clickCancel, touchCommand, touchCancel, keyCommand,
                              makeClickSeq, makeTouch, makeKeys
<1>2. CASE detachController
  <2>1. s' = detached(s)
    BY <1>2 DEF detachController
  <2> QED
    BY <2>1, DetachedGood, LabelsSame, LabelsFine DEF Keeps, HeldStep
<1>3. CASE configureTakeover
  <2>1. s' = [s EXCEPT !.takeover = ~@]
    BY <1>3 DEF configureTakeover
  <2>2. s' \in States /\ s'.saved = s.saved /\ s'.link = s.link /\ s'.init = s.init /\ s'.held = s.held
    BY <2>1 DEF Good, States
  <2> QED
    BY <2>2, OtherFields
<1>4. CASE controllerKick
  <2>1. s' = disconnecting(s, Fine, "kicked")
    BY <1>4 DEF controllerKick
  <2>2. Good(s') /\ s'.init = s.init /\ s'.held = s.held /\ Labels(s, s', Pads)
    <3>1. Fine \in Outcomes /\ Fine.addr = Pads /\ "kicked" \in {"taken", "kicked"}
      BY FailuresType DEF Fine
    <3> QED
      BY <2>1, <3>1, DisconnectingGood
  <2> QED
    BY <2>2, LabelsFine DEF Keeps, HeldStep
<1>5. CASE controllerReconnect
  <2> DEFINE T(a) == IF a = "all" THEN s ELSE [remembering(s, a) EXCEPT !.attempts = 0]
  <2>1. PICK a \in Pads \cup {Stranger, "all"} :
           s' = IF s.init THEN T(a) ELSE triggered(T(a), T(a).saved, {})
    BY <1>5 DEF controllerReconnect
  <2>2. Good(T(a)) /\ T(a).init = s.init /\ T(a).held = s.held /\ Labels(s, T(a), Pads)
    <3>1. CASE a = "all"
      BY <3>1 DEF Labels
    <3>2. CASE a # "all"
      <4> DEFINE r == remembering(s, a)
      <4>1. Good(r) /\ r.init = s.init /\ r.held = s.held /\ Labels(s, r, Pads)
        BY <3>2, RememberingGood
      <4>2. T(a) = [r EXCEPT !.attempts = 0]
        BY <3>2
      <4>3. 0 \in 0 .. Retries
        BY SizesHold DEF Sizes
      <4> HIDE DEF r
      <4> DEFINE u == [r EXCEPT !.attempts = 0]
      <4>5. r \in States
        BY <4>1 DEF Good
      <4>6. u \in States
        BY <4>3, <4>5 DEF States
      <4>7. u.saved = r.saved /\ u.link = r.link /\ u.init = r.init /\ u.held = r.held
        BY <4>5 DEF States
      <4>4. Good(u) /\ u.init = r.init /\ u.held = r.held /\ SameList(r, u)
        <5> HIDE DEF u
        <5> QED
          BY <4>1, <4>6, <4>7 DEF Good, Remembered, SameList
      <4>8. T(a) = u
        BY <4>2
      <4> HIDE DEF u, T
      <4>9. Labels(r, u, Pads)
        BY <4>4, LabelsSame
      <4>10. Labels(s, u, Pads)
        BY <4>1, <4>9, LabelsTrans
      <4> QED
        BY <4>1, <4>4, <4>8, <4>10
    <3> QED
      BY <3>1, <3>2
  <2> HIDE DEF T
  <2>3. LET u == triggered(T(a), T(a).saved, {})
        IN Good(u) /\ u.init = s.init /\ u.held = s.held /\ Labels(T(a), u, Pads)
    BY <2>2, TriggeredGood DEF Labels
  <2>4. Good(s') /\ s'.init = s.init /\ s'.held = s.held /\ Labels(s, s', Pads)
    BY <2>1, <2>2, <2>3, LabelsTrans
  <2> QED
    BY <2>4, LabelsFine DEF Keeps, HeldStep
<1>6. CASE Refresh
  <2>1. PICK limited : s' = refreshed(s, limited)
    BY <1>6 DEF Refresh
  <2>2. Good(s') /\ SameList(s, s')
    BY <2>1, RefreshedGood
  <2> QED
    BY <1>6, <2>2, LabelsSame, LabelsFine DEF Keeps, HeldStep
<1>7. CASE press \/ release \/ setStick
  BY <1>7, LockedPress DEF press, release, setStick, Buttons
<1>8. CASE controllerServiceIdle
  <2>1. PICK n \in {sampled(s)} \cup (IF s.sample = NoSample THEN {} ELSE {s.sample}) :
           s' = IF s.init THEN [s EXCEPT !.sample = n] ELSE s
    BY <1>8 DEF controllerServiceIdle
  <2>2. sampled(s) \in Counts
    BY ListedType DEF Good
  <2>3. s' \in States /\ s'.saved = s.saved /\ s'.link = s.link /\ s'.init = s.init /\ s'.held = s.held
    BY <2>1, <2>2 DEF Good, States
  <2> QED
    BY <2>3, OtherFields
<1>9. CASE ReleaseIdle
  <2>1. s' = releasedIdle(s)
    BY <1>9 DEF ReleaseIdle
  <2> QED
    BY <2>1, ReleasedIdleGood, LabelsSame, LabelsFine DEF Keeps, HeldStep
<1>10. CASE controllerServiceReconnect
  <2>1. /\ paging(s) = {} \/ s.linkAge < LinkPasses \/ s.saved = <<>> \/ s.init
        /\ (\E bad : s' = reconnected(s, bad)) \/ (s' = givenUp(s) /\ Ill)
        /\ At("reconnect")
    BY <1>10 DEF controllerServiceReconnect
  <2>2. CASE \E bad : s' = reconnected(s, bad)
    <3>1. /\ Good(s') /\ s'.init = s.init /\ s'.held = s.held
          /\ \A p \in Pads : \/ s'.link[p] = s.link[p] \/ s'.link[p] = "paging"
                           \/ (s'.link[p] = "lost" /\ s.attempts + 1 >= Retries)
      BY <2>1, <2>2, ReconnectedGood
    <3> QED
      BY <2>1, <3>1 DEF Keeps, HeldStep, LinkStep
  <2>3. CASE s' = givenUp(s) /\ Ill
    <3>1. /\ Good(s') /\ s'.init = s.init /\ s'.held = s.held
          /\ \A p \in Pads : s'.link[p] = s.link[p] \/ s'.link[p] = "lost"
      BY <2>3, GivenUpGood
    <3>2. left' < left
      BY <2>3, InputAssumption DEF Ill, Threads
    <3> QED
      BY <3>1, <3>2 DEF Keeps, HeldStep, LinkStep
  <2> QED
    BY <2>1, <2>2, <2>3
<1> QED
  BY <1>1, <1>2, <1>3, <1>4, <1>5, <1>6, <1>7, <1>8, <1>9, <1>10 DEF mainSteps

(* The three threads and the console.                                      *)
LEMMA OthersKeep ==
    ASSUME InputInv, clickSteps \/ touchSteps \/ keySteps \/ Quiet \/ Connect \/ Claim \/ Reconfigure
    PROVE Keeps
<1>1. CASE clickSteps
  <2>1. \/ UNCHANGED s
        \/ s' = [s EXCEPT !.seq = FALSE] \/ s' = [s EXCEPT !.seq = TRUE] \/ s' = [s EXCEPT !.age = "new"]
        \/ Locked(LAMBDA f : ensured(s, f))
        \/ Locked(LAMBDA f : pressed(s, "A", f)) \/ Locked(LAMBDA f : released(s, "A", f))
    <3>1. CASE sub_click
      BY <3>1 DEF sub_click
    <3>2. CASE SequenceBegin
      BY <3>2 DEF SequenceBegin
    <3>3. CASE SequenceItem
      <4>1. click.job \in Seq(Items)
        BY DEF InputInv, Threads, ClickReady
      <4>2. click.job # <<>> => Head(click.job) \in {"+", "click", "-", "wait"}
        BY <4>1 DEF Items
      <4> QED
        BY <3>3, <4>2 DEF SequenceItem
    <3>4. CASE SequenceHalf \/ SequenceStamp
      BY <3>4 DEF SequenceHalf, SequenceStamp
    <3> QED
      BY <1>1, <3>1, <3>2, <3>3, <3>4 DEF clickSteps, clickSequence
  <2>2. CASE s' = [s EXCEPT !.seq = FALSE] \/ s' = [s EXCEPT !.seq = TRUE] \/ s' = [s EXCEPT !.age = "new"]
    <3>1. s' \in States /\ s'.saved = s.saved /\ s'.link = s.link /\ s'.init = s.init /\ s'.held = s.held
      BY <2>2, ZenonT(40) DEF InputInv, Good, States, Ages
    <3> QED
      BY <3>1, OtherFields
  <2> QED
    BY <2>1, <2>2, SameController, LockedBuild, LockedPress DEF Buttons
<1>2. CASE touchSteps \/ keySteps
  <2>1. UNCHANGED s \/ Locked(LAMBDA f : initialised(s, f.first))
    BY <1>2 DEF touchSteps, touch, sub_touch, keySteps, key, sub_key
  <2> QED
    BY <2>1, SameController, LockedBuild
<1>3. CASE Quiet
  <2>1. s' \in States /\ s'.saved = s.saved /\ s'.link = s.link /\ s'.init = s.init /\ s'.held = s.held
    BY <1>3 DEF Quiet, InputInv, Good, States, Ages
  <2> QED
    BY <2>1, OtherFields
<1>4. CASE Connect
  <2>1. PICK p \in Pads : s' = [s EXCEPT !.link[p] = "on", !.linkAge = 0]
    BY <1>4 DEF Connect, paging
  <2> DEFINE link == [s.link EXCEPT ![p] = "on"]
  <2>2. s' = [s EXCEPT !.link = link, !.linkAge = 0]
    BY <2>1
  <2>3. /\ link \in [Pads -> Links] /\ \A x \in Pads : link[x] = "taken" => s.link[x] = "taken"
        /\ \A x \in Pads : link[x] = s.link[x] \/ link[x] = "on"
    BY DEF InputInv, Good, States, Links
  <2>4. 0 \in 0 .. LinkPasses
    BY SizesHold DEF Sizes
  <2> HIDE DEF link
  <2>5. s' \in States /\ s'.saved = s.saved /\ s'.link = link /\ s'.init = s.init /\ s'.held = s.held
    BY <2>2, <2>3, <2>4 DEF InputInv, Good, States
  <2> QED
    BY <2>3, <2>5 DEF InputInv, Good, Remembered, Keeps, HeldStep, LinkStep
<1>5. CASE Claim \/ Reconfigure
  <2>1. on(s) \in SUBSET Pads
    BY DEF on
  <2>2. s' \in States /\ s'.saved = s.saved /\ s'.link = s.link /\ s'.init = s.init /\ s'.held = s.held
    <3>1. CASE Claim
      BY <2>1, <3>1 DEF Claim, InputInv, Good, States
    <3>2. CASE Reconfigure
      <4>1. PICK dropped \in BOOLEAN, holder \in {s.holder, on(s)} :
               s' = [s EXCEPT !.topo = 3 - @, !.attached = @ /\ ~dropped, !.holder = holder]
        BY <3>2 DEF Reconfigure
      <4>2. s \in States /\ 3 - s.topo \in 1 .. 2 /\ holder \in SUBSET Pads
        BY <2>1 DEF InputInv, Good, States
      <4>3. (s.attached /\ ~dropped) \in BOOLEAN
        OBVIOUS
      <4> QED
        BY <4>1, <4>2, <4>3, ZenonT(40) DEF States
    <3> QED
      BY <1>5, <3>1, <3>2
  <2> QED
    BY <2>2, OtherFields
<1> QED
  BY <1>1, <1>2, <1>3, <1>4, <1>5

(* The click thread: only it works on a sequence, under clickMutex, so that *)
(* the sequence is there when it goes on to the next item.                 *)
LEMMA ClickKept ==
    ASSUME ClickReady, UNCHANGED click \/ makeClickSeq \/ clickCancel \/ clickSteps
    PROVE ClickReady'
<1> USE DEF ClickReady
<1>1. CASE UNCHANGED click
  BY <1>1
<1>2. CASE makeClickSeq
  BY <1>2, InputAssumption DEF makeClickSeq, ClickPcs
<1>3. CASE clickCancel
  BY <1>3 DEF clickCancel
<1>4. CASE sub_click
  <2>1. CASE click.pc = "poll" /\ click' = [click EXCEPT !.pc = "begin", !.locked = TRUE]
    BY <2>1 DEF ClickPcs
  <2>2. CASE click.pc = "poll" /\ click' = [click EXCEPT !.token = FALSE]
    BY <2>2 DEF ClickPcs
  <2>3. CASE click.pc = "end" /\ click' = SequenceDone
    <3>1. <<>> \in Seq(Items)
      OBVIOUS
    <3> QED
      BY <2>3, <3>1 DEF SequenceDone, ClickPcs
  <2>4. CASE click.pc = "reset" /\ click' = [click EXCEPT !.pc = "poll", !.token = FALSE]
    BY <2>4 DEF ClickPcs
  <2> QED
    BY <1>4, <2>1, <2>2, <2>3, <2>4 DEF sub_click
<1>5. CASE SequenceBegin
  BY <1>5 DEF SequenceBegin, ClickPcs
<1>6. CASE SequenceItem
  BY <1>6 DEF SequenceItem, ClickPcs
<1>7. CASE SequenceHalf
  BY <1>7 DEF SequenceHalf, ClickPcs
<1>8. CASE SequenceStamp
  <2>1. click.job # <<>> /\ Tail(click.job) \in Seq(Items)
    BY <1>8 DEF SequenceStamp
  <2> QED
    BY <1>8, <2>1 DEF SequenceStamp, ClickPcs
<1> QED
  BY <1>1, <1>2, <1>3, <1>4, <1>5, <1>6, <1>7, <1>8 DEF clickSteps, clickSequence

(* The touch thread: there is a point left whenever the finger goes down.  *)
LEMMA TouchKept ==
    ASSUME TouchReady, UNCHANGED finger \/ makeTouch \/ touchCancel \/ touchSteps
    PROVE TouchReady'
<1> USE DEF TouchReady
<1>1. CASE UNCHANGED finger
  BY <1>1
<1>2. CASE makeTouch
  <2>1. PICK n \in 1 .. 2, hold \in BOOLEAN : finger' = [finger EXCEPT !.points = n, !.hold = hold, !.state = TRUE]
    BY <1>2 DEF makeTouch
  <2>2. n \in 0 .. 2 /\ n # 0
    OBVIOUS
  <2>3. ~finger.locked
    BY <1>2 DEF makeTouch
  <2> QED
    BY <2>1, <2>2, <2>3 DEF TouchPcs
<1>3. CASE touchCancel
  BY <1>3 DEF touchCancel
<1>4. CASE sub_touch
  <2>1. CASE finger.pc = "poll" /\ finger.state /\ finger' = [finger EXCEPT !.pc = "init", !.locked = TRUE]
    BY <2>1 DEF TouchPcs
  <2>2. CASE finger.pc = "poll" /\ finger' = [finger EXCEPT !.token = FALSE]
    BY <2>2 DEF TouchPcs
  <2>3. CASE finger.pc = "reset" /\ finger' = [finger EXCEPT !.pc = "poll", !.token = FALSE]
    BY <2>3 DEF TouchPcs
  <2> QED
    BY <1>4, <2>1, <2>2, <2>3 DEF sub_touch
<1>5. CASE touch
  <2>1. CASE finger.pc = "init" /\ finger' = [finger EXCEPT !.pc = "down"]
    BY <2>1 DEF TouchPcs
  <2>2. CASE finger.pc = "down"
    <3>1. PICK pc \in {"up", "down"} :
             /\ finger' = [finger EXCEPT !.points = @ - 1, !.pc = pc]
             /\ pc = "down" => finger.points # 1
      BY <1>5, <2>2 DEF touch
    <3>2. finger.points - 1 \in 0 .. 2 /\ finger.points # 0
      BY <2>2
    <3>3. /\ finger' \in [pc : TouchPcs, state : BOOLEAN, points : 0 .. 2, hold : BOOLEAN, token : BOOLEAN,
                           locked : BOOLEAN]
          /\ finger'.pc = pc /\ finger'.points = finger.points - 1 /\ finger'.locked = finger.locked
      BY <3>1, <3>2 DEF TouchPcs
    <3>4. finger.locked /\ (pc = "down" => finger.points - 1 # 0)
      BY <2>2, <3>1
    <3> QED
      BY <3>3, <3>4
  <2>3. CASE finger.pc = "up"
    BY <1>5, <2>3 DEF touch, TouchPcs
  <2>4. CASE finger.pc = "unset"
    <3>1. finger' = [finger EXCEPT !.pc = "reset", !.state = FALSE, !.locked = FALSE, !.points = 0, !.hold = FALSE]
      BY <1>5, <2>4 DEF touch
    <3>2. finger' = [pc |-> "reset", state |-> FALSE, points |-> 0, hold |-> FALSE, token |-> finger.token,
                     locked |-> FALSE]
      BY <3>1
    <3>3. finger.token \in BOOLEAN /\ 0 \in 0 .. 2
      OBVIOUS
    <3> QED
      BY <3>2, <3>3 DEF TouchPcs
  <2> QED
    BY <1>5, <2>1, <2>2, <2>3, <2>4 DEF touch
<1> QED
  BY <1>1, <1>2, <1>3, <1>4, <1>5 DEF touchSteps

(* The keyboard thread: there is a key left whenever one is typed.         *)
LEMMA TypistKept ==
    ASSUME TypistReady, UNCHANGED typist \/ makeKeys \/ keySteps
    PROVE TypistReady'
<1> USE DEF TypistReady
<1>1. CASE UNCHANGED typist
  BY <1>1
<1>2. CASE makeKeys
  <2>1. PICK n \in 1 .. 2 : typist' = [typist EXCEPT !.keys = n, !.state = TRUE]
    BY <1>2 DEF makeKeys
  <2>2. n \in 0 .. 2 /\ n # 0 /\ typist.pc = "poll"
    BY <1>2 DEF makeKeys
  <2> QED
    BY <2>1, <2>2 DEF KeyPcs
<1>3. CASE sub_key
  BY <1>3 DEF sub_key, KeyPcs
<1>4. CASE key
  <2>1. CASE typist.pc = "init"
    BY <1>4, <2>1 DEF key, KeyPcs
  <2>2. CASE typist.pc = "type"
    <3>1. PICK pc \in {"unset", "type"} :
             /\ typist' = [typist EXCEPT !.keys = @ - 1, !.pc = pc]
             /\ pc = "type" => typist.keys # 1
      BY <1>4, <2>2 DEF key
    <3>2. typist.keys - 1 \in 0 .. 2 /\ typist.keys # 0
      BY <2>2
    <3>3. /\ typist' \in [pc : KeyPcs, state : BOOLEAN, keys : 0 .. 2, locked : BOOLEAN]
          /\ typist'.pc = pc /\ typist'.keys = typist.keys - 1 /\ typist'.locked = typist.locked
      BY <3>1, <3>2 DEF KeyPcs
    <3>4. typist.locked /\ (pc = "type" => typist.keys - 1 # 0)
      BY <2>2, <3>1
    <3> QED
      BY <3>3, <3>4
  <2>3. CASE typist.pc = "unset"
    BY <1>4, <2>3 DEF key, KeyPcs
  <2> QED
    BY <1>4, <2>1, <2>2, <2>3 DEF key
<1> QED
  BY <1>1, <1>2, <1>3, <1>4 DEF keySteps

(* How the main loop moves.                                                *)
LEMMA MainMoves ==
    ASSUME Next
    PROVE \/ UNCHANGED main
          \/ \E pc \in MainPcs : Goto(pc)
          \/ Done
          \/ \E op \in Ops : main' = [main EXCEPT !.pc = "refresh", !.op = op]
          \/ Refresh
<1>1. CASE mainSteps
  <2>1. CASE press
    BY <2>1 DEF press, MainPcs
  <2>2. CASE controllerServiceIdle \/ ReleaseIdle
    BY <2>2 DEF controllerServiceIdle, ReleaseIdle, MainPcs
  <2> QED
    BY <1>1, <2>1, <2>2 DEF mainSteps, release, setStick, makeClickSeq, makeTouch, makeKeys,
                            controllerServiceReconnect
<1>2. CASE Command \/ touchCommand \/ keyCommand
  BY <1>2 DEF Command, touchCommand, keyCommand, MainPcs
<1> QED
  BY <1>1, <1>2 DEF Next, clickCancel, touchCancel, detachController, configureTakeover, controllerKick,
     controllerReconnect, clickSteps, ClickFrame, touchSteps, keySteps, Quiet, Connect, Claim, Reconfigure

(* Whose steps change the click thread.                                    *)
LEMMA ClickMoves ==
    ASSUME Next
    PROVE UNCHANGED click \/ makeClickSeq \/ clickCancel \/ clickSteps
  BY DEF Next, mainSteps, threads, Command, touchCommand, touchCancel, keyCommand, detachController,
         configureTakeover, controllerKick, controllerReconnect, Refresh, press, release, setStick, makeTouch,
         makeKeys, controllerServiceIdle, ReleaseIdle, controllerServiceReconnect, touchSteps, keySteps,
         Quiet, Connect, Claim, Reconfigure

(* The main loop and the events.                                           *)
LEMMA MainKept ==
    ASSUME InputInv, Next
    PROVE main' \in [pc : MainPcs, op : Ops, letGo : BOOLEAN] /\ left' \in 0 .. MaxEvents
<1>1. main \in [pc : MainPcs, op : Ops, letGo : BOOLEAN] /\ left \in 0 .. MaxEvents
  BY DEF InputInv, Threads
<1>2. left' \in 0 .. MaxEvents
  <2>1. CASE \/ Command \/ clickCancel \/ touchCommand \/ touchCancel \/ keyCommand \/ detachController
             \/ configureTakeover \/ controllerKick \/ controllerReconnect \/ Reconfigure
    BY <1>1, <2>1, LeftType DEF Command, clickCancel, touchCommand, touchCancel, keyCommand, detachController,
                          configureTakeover, controllerKick, controllerReconnect, Reconfigure
  <2>2. CASE mainSteps
    <3>1. CASE press \/ release \/ setStick
      BY <3>1, LockedPress DEF press, release, setStick, Buttons
    <3>2. CASE controllerServiceReconnect
      BY <1>1, <3>2, LeftType DEF controllerServiceReconnect
    <3> QED
      BY <1>1, <2>2, <3>1, <3>2 DEF mainSteps, Refresh, makeClickSeq, makeTouch, makeKeys,
                              controllerServiceIdle, ReleaseIdle
  <2>3. CASE clickSteps
    <3>1. CASE SequenceItem
      <4>1. click.job # <<>> => Head(click.job) \in {"+", "click", "-", "wait"}
        BY DEF InputInv, Threads, ClickReady, Items
      <4>2. NotIll \/ Locked(LAMBDA f : pressed(s, "A", f)) \/ Locked(LAMBDA f : released(s, "A", f))
        BY <3>1, <4>1 DEF SequenceItem
      <4> QED
        BY <1>1, <4>2, LockedPress, LeftType DEF Buttons
    <3>2. CASE SequenceBegin
      BY <1>1, <3>2, LockedBuild, LeftType DEF SequenceBegin
    <3>3. CASE SequenceHalf
      BY <3>3, LockedPress DEF SequenceHalf, Buttons
    <3> QED
      BY <1>1, <2>3, <3>1, <3>2, <3>3, LeftType DEF clickSteps, clickSequence
  <2>4. CASE touchSteps \/ keySteps
    BY <1>1, <2>4, LockedBuild, LeftType DEF touchSteps, touch, sub_touch, keySteps, key, sub_key
  <2>5. CASE Quiet \/ Connect \/ Claim
    BY <1>1, <2>5 DEF Quiet, Connect, Claim
  <2> QED
    BY <2>1, <2>2, <2>3, <2>4, <2>5 DEF Next
<1>3. \/ UNCHANGED main
      \/ \E pc \in MainPcs : Goto(pc)
      \/ Done
      \/ \E op \in Ops : main' = [main EXCEPT !.pc = "refresh", !.op = op]
      \/ Refresh
  BY MainMoves
<1>4. main' \in [pc : MainPcs, op : Ops, letGo : BOOLEAN]
  <2>1. CASE Refresh
    <3>1. (s'.held # {} /\ ~s'.init) \in BOOLEAN
      OBVIOUS
    <3>2. PICK pc \in MainPcs, op \in Ops, letGo \in BOOLEAN : main' = [pc |-> pc, op |-> op, letGo |-> letGo]
      BY <1>1, <2>1, <3>1 DEF Refresh, AtRest, MainPcs, Ops
    <3> QED
      BY <3>2
  <2> QED
    BY <1>1, <1>3, <2>1 DEF Goto, Done, AtRest, MainPcs, Ops
<1> QED
  BY <1>2, <1>4

(* Every step keeps the places of the threads and what they know of their  *)
(* jobs.                                                                   *)
LEMMA ThreadsKept ==
    ASSUME InputInv, Next
    PROVE Threads'
<1>1. UNCHANGED click \/ makeClickSeq \/ clickCancel \/ clickSteps
  BY ClickMoves
<1>2. UNCHANGED finger \/ makeTouch \/ touchCancel \/ touchSteps
  BY ZenonT(40) DEF Next, mainSteps, threads, Command, clickCancel, touchCommand, keyCommand, detachController,
         configureTakeover, controllerKick, controllerReconnect, Refresh, press, release, setStick, makeClickSeq,
         makeKeys, controllerServiceIdle, ReleaseIdle, controllerServiceReconnect, clickSteps, ClickFrame,
         keySteps, Quiet, Connect, Claim, Reconfigure
<1>3. UNCHANGED typist \/ makeKeys \/ keySteps
  BY DEF Next, mainSteps, threads, Command, clickCancel, touchCommand, touchCancel, keyCommand, detachController,
         configureTakeover, controllerKick, controllerReconnect, Refresh, press, release, setStick, makeClickSeq,
         makeTouch, controllerServiceIdle, ReleaseIdle, controllerServiceReconnect, clickSteps, ClickFrame,
         touchSteps, Quiet, Connect, Claim, Reconfigure
<1>4. ClickReady' /\ TouchReady' /\ TypistReady'
  BY <1>1, <1>2, <1>3, ClickKept, TouchKept, TypistKept DEF InputInv, Threads
<1> QED
  BY <1>4, MainKept DEF Threads

(* Every step keeps the invariant.                                         *)
LEMMA InputStep ==
    ASSUME InputInv, [Next]_vars
    PROVE InputInv' /\ (Keeps \/ UNCHANGED vars)
<1>1. CASE Next
  <2>1. Keeps
    BY <1>1, MainKeeps, OthersKeep DEF Next
  <2> QED
    BY <1>1, <2>1, ThreadsKept DEF InputInv, Keeps, Good, Remembered
<1>2. CASE UNCHANGED vars
  BY <1>2 DEF vars, InputInv, Good, Remembered, Threads, ClickReady, TouchReady, TypistReady
<1> QED
  BY <1>1, <1>2

\* What will build a device again that was taken down under what is held.
Rebuilding == \/ At("act") \/ At("queue")
              \/ (click.job # <<>> /\ click.pc \in {"poll", "begin", "reset"})
              \/ main.letGo

(* The refresh itself leaves the command, or the mark that it was refused. *)
LEMMA RefreshRebuilds ==
    ASSUME InputInv, Refresh, s'.held # {}, ~s'.init
    PROVE Rebuilding'
<1>1. main \in [pc : MainPcs, op : Ops, letGo : BOOLEAN]
  BY DEF InputInv, Threads
<1>2. CASE main.op = "badSeq"
  <2>1. main' = [AtRest EXCEPT !.letGo = TRUE]
    BY <1>2 DEF Refresh
  <2> QED
    BY <2>1 DEF AtRest, Rebuilding
<1>3. CASE main.op # "badSeq"
  <2>1. main'.pc \in {"queue", "act"}
    BY <1>1, <1>3 DEF Refresh
  <2> QED
    BY <2>1 DEF At, Rebuilding
<1> QED
  BY <1>2, <1>3

(* The main loop gives the device to a command that builds it or to the     *)
(* click thread.                                                           *)
LEMMA MainRebuilds ==
    ASSUME InputInv, Rebuilding, ~s'.init, ~Refresh, UNCHANGED click \/ makeClickSeq \/ clickCancel,
           Next
    PROVE Rebuilding'
<1>1. main \in [pc : MainPcs, op : Ops, letGo : BOOLEAN]
  BY DEF InputInv, Threads
<1>2. ~press /\ ~release /\ ~setStick
  BY LockedPress DEF press, release, setStick, Buttons
<1>3. main'.letGo = main.letGo
  <2>1. \/ UNCHANGED main
        \/ \E pc \in MainPcs : Goto(pc)
        \/ Done
        \/ \E op \in Ops : main' = [main EXCEPT !.pc = "refresh", !.op = op]
    BY <1>2, MainMoves
  <2> QED
    BY <1>1, <2>1 DEF Goto, Done, AtRest
<1>4. At("queue") /\ ~makeClickSeq => UNCHANGED main
  BY <1>2 DEF At, Next, mainSteps, Command, clickCancel, touchCommand, touchCancel, keyCommand, detachController,
       configureTakeover, controllerKick, controllerReconnect, Refresh, makeTouch, makeKeys, controllerServiceIdle,
       ReleaseIdle, controllerServiceReconnect, clickSteps, ClickFrame, touchSteps, keySteps, Quiet, Connect,
       Claim, Reconfigure
<1>5. At("act") => UNCHANGED main
  BY <1>2 DEF At, Next, mainSteps, Command, clickCancel, touchCommand, touchCancel, keyCommand, detachController,
       configureTakeover, controllerKick, controllerReconnect, Refresh, makeTouch, makeKeys, controllerServiceIdle,
       ReleaseIdle, controllerServiceReconnect, clickSteps, ClickFrame, touchSteps, keySteps, Quiet, Connect,
       Claim, Reconfigure, makeClickSeq
<1>6. CASE makeClickSeq
  <2>1. click'.job # <<>> /\ click'.pc = click.pc /\ click.pc \in {"poll", "reset"}
    BY <1>6, InputAssumption DEF makeClickSeq, InputInv, Threads, ClickReady
  <2> QED
    BY <2>1 DEF Rebuilding
<1>7. CASE ~makeClickSeq
  <2>1. click'.job = click.job /\ click'.pc = click.pc
    BY <1>7 DEF clickCancel, InputInv, Threads, ClickReady
  <2> QED
    BY <1>3, <1>4, <1>5, <1>7, <2>1 DEF Rebuilding, At
<1> QED
  BY <1>6, <1>7

(* The click thread builds it before the first item.                       *)
LEMMA ClickRebuilds ==
    ASSUME InputInv, Rebuilding, ~s'.init, clickSteps
    PROVE Rebuilding'
<1>1. UNCHANGED main
  BY DEF clickSteps, ClickFrame
<1>2. CASE click.job # <<>> /\ click.pc \in {"poll", "begin", "reset"}
  <2>1. ~(click.pc = "begin")
    <3> SUFFICES ASSUME click.pc = "begin" PROVE FALSE
      OBVIOUS
    <3>1. SequenceBegin
      BY DEF clickSteps, clickSequence, sub_click, SequenceItem, SequenceHalf, SequenceStamp
    <3>2. Locked(LAMBDA f : ensured(s, f))
      BY <3>1 DEF SequenceBegin
    <3> QED
      BY <3>2, LockedBuild
  <2>2. sub_click
    BY <1>2, <2>1 DEF clickSteps, clickSequence, SequenceBegin, SequenceItem, SequenceHalf, SequenceStamp
  <2>3. click'.job = click.job /\ click'.pc \in {"poll", "begin"}
    BY <1>2, <2>1, <2>2 DEF sub_click, InputInv, Threads, ClickReady
  <2> QED
    BY <1>2, <2>3 DEF Rebuilding
<1>3. CASE ~(click.job # <<>> /\ click.pc \in {"poll", "begin", "reset"})
  BY <1>1, <1>3 DEF Rebuilding, At
<1> QED
  BY <1>2, <1>3

(* A step keeps what is held, or builds the device again.                  *)
LEMMA HeldKept ==
    ASSUME InputInv, HeldIsKept, [Next]_vars
    PROVE HeldIsKept'
<1> SUFFICES ASSUME s'.held # {}, ~s'.init PROVE Rebuilding'
  BY DEF HeldIsKept, Rebuilding, At
<1>1. CASE UNCHANGED vars
  BY <1>1 DEF vars, threads, HeldIsKept, Rebuilding, At
<1>2. CASE Next
  <2>1. CASE Refresh
    BY <2>1, RefreshRebuilds
  <2>2. CASE ~Refresh
    <3>1. Keeps \/ UNCHANGED vars
      BY InputStep
    <3>2. s.held # {} /\ ~s.init
      BY <2>2, <3>1 DEF Keeps, HeldStep, vars
    <3>3. Rebuilding
      BY <3>2 DEF HeldIsKept, Rebuilding
    <3>4. UNCHANGED click \/ makeClickSeq \/ clickCancel \/ clickSteps
      BY <1>2, ClickMoves
    <3> QED
      BY <1>2, <2>2, <3>3, <3>4, MainRebuilds, ClickRebuilds
  <2> QED
    BY <2>1, <2>2
<1> QED
  BY <1>1, <1>2

(* The controller at boot.                                                 *)
LEMMA InputInit == Init => InputInv
<1> SUFFICES ASSUME Init PROVE InputInv
  OBVIOUS
<1>1. PICK holder \in {{}, Pads} : s = atBoot(holder)
  BY DEF Init
<1>2. 0 \in 0 .. Retries /\ 0 \in 0 .. LinkPasses /\ <<>> \in Seq(Pads \cup {Stranger}) /\ Len(<<>>) = 0
  BY SizesHold DEF Sizes
<1>3. s \in States /\ s.saved = <<>> /\ s.link = [p \in Pads |-> "on"]
  BY <1>1, <1>2 DEF atBoot, States, Ages, Links
<1>4. Good(s)
  BY <1>2, <1>3, SizesHold DEF Good, Remembered, Sizes
<1>5. Threads
  BY InputAssumption DEF Init, Threads, AtRest, MainPcs, Ops, ClickPcs, TouchPcs, KeyPcs,
                         ClickReady, TouchReady, TypistReady
<1> QED
  BY <1>4, <1>5 DEF InputInv

(* The inductive invariant of the input threads and the controller holds   *)
(* for any pads, list size, budget, sequences and number of events.        *)
THEOREM InputInvHolds == Spec => []InputInv
<1>1. InputInv /\ [Next]_vars => InputInv'
  BY InputStep
<1> QED
  BY <1>1, InputInit, PTL DEF Spec

(* A controller that a takeover disconnected stays on the list until a     *)
(* page for it was accepted (controllerServiceReconnect), unless a full    *)
(* list has no room for it or drops it (controllerSaveAddress,             *)
(* controllerRememberAddressLocked), a call fails or the budget is used up; *)
(* the list never outgrows its array.                                      *)
THEOREM TakenIsRememberedHolds == Spec => TakenIsRemembered
<1>1. InputInv => Remembers
  BY DEF InputInv, Good, Remembered, Threads, ClickReady, TouchReady, TypistReady, Remembers, TypeOK
<1>2. InputInv /\ [Next]_vars => LinkStep \/ UNCHANGED vars
  BY InputStep DEF Keeps
<1> QED
  BY <1>1, <1>2, InputInvHolds, PTL DEF Spec, TakenIsRemembered, LinkStep

(* A device taken down under a held button is built again by the command   *)
(* that took it down or by the sequence it queued (controllerRefreshIfIdle, *)
(* clickSequence), and handing the slot back (controllerServiceIdle) never  *)
(* takes it down; only a clickSeq refused after its refresh lets go.        *)
THEOREM HeldIsKeptHolds == Spec => []HeldIsKept
<1>1. Init => HeldIsKept
  BY DEF Init, atBoot, HeldIsKept
<1>2. InputInv /\ HeldIsKept /\ [Next]_vars => HeldIsKept'
  BY HeldKept
<1> QED
  BY <1>1, <1>2, InputInvHolds, PTL DEF Spec
=============================================================================
