----------------------------- MODULE HashProofs -----------------------------
(***************************************************************************)
(* Proofs about CNHash for every hash function, list of sizes and key: the *)
(* table always has room for what it takes in, nothing in it is ever       *)
(* hidden from the probes, and it implements the multimap.                 *)
(***************************************************************************)
EXTENDS CNHash, FiniteSetTheorems, FunctionTheorems, WellFoundedInduction, TLAPS

\* What an element of the array can be: empty, or a pair with its key's hash
Cell ==
  {x \in [key : Keys \cup {NoKey}, data : Data, hashvalue : Nat] :
     x = Empty \/ (x.key \in Keys /\ x.hashvalue = Hash(x.key) /\ x.hashvalue # 0)}

Pair(k, d) == [key |-> k, data |-> d, hashvalue |-> Hash(k)]

-----------------------------------------------------------------------------
(* Numbers                                                                 *)

LEMMA Divided ==
  ASSUME NEW a \in Nat, NEW s \in Nat, s > 0
  PROVE  a = s * (a \div s) + (a % s) /\ a % s \in 0 .. s - 1 /\ a \div s \in Nat
OBVIOUS

LEMMA Remainder ==
  ASSUME NEW s \in Nat, s > 0, NEW q \in Nat, NEW r \in 0 .. s - 1
  PROVE  (s * q + r) % s = r
OBVIOUS

LEMMA WithinTwo ==
  ASSUME NEW s \in Nat, NEW x \in 0 .. 2 * s - 1
  PROVE  x % s = (IF x < s THEN x ELSE x - s)
OBVIOUS

\* Adding before the remainder or after it is the same.
LEMMA RemainderOfSum ==
  ASSUME NEW a \in Nat, NEW s \in Nat, s > 0, NEW n \in 0 .. s - 1
  PROVE  (a + n) % s = ((a % s) + n) % s
<1> DEFINE q == a \div s
<1> DEFINE r == a % s
<1>1. a = s * q + r /\ r \in 0 .. s - 1 /\ q \in Nat
  BY Divided
<1>2. a % s = r
  OBVIOUS
<1> HIDE DEF q, r
<1>3. (r + n) % s = (IF r + n < s THEN r + n ELSE r + n - s)
  <2>1. r + n \in 0 .. 2 * s - 1
    BY <1>1
  <2> DEFINE x == r + n
  <2> HIDE DEF x
  <2>2. x \in 0 .. 2 * s - 1
    BY <2>1 DEF x
  <2>3. x % s = (IF x < s THEN x ELSE x - s)
    BY <2>2, WithinTwo
  <2> QED
    BY <2>3, <1>1 DEF x
<1>4. CASE r + n < s
  <2> DEFINE x == r + n
  <2>1. x \in 0 .. s - 1 /\ a + n = s * q + x
    BY <1>1, <1>4
  <2> HIDE DEF x
  <2>2. (a + n) % s = x
    BY <2>1, <1>1, Remainder
  <2> QED
    BY <2>2, <1>2, <1>3, <1>4 DEF x
<1>5. CASE ~(r + n < s)
  <2> DEFINE x == r + n - s
  <2> DEFINE p == q + 1
  <2>1. x \in 0 .. s - 1 /\ p \in Nat /\ s * p = s * q + s
    BY <1>1, <1>5
  <2>2. a + n = s * p + x
    BY <2>1, <1>1
  <2> HIDE DEF x, p
  <2>3. (a + n) % s = x
    BY <2>1, <2>2, Remainder
  <2> QED
    BY <2>3, <1>2, <1>3, <1>5 DEF x
<1> QED
  BY <1>4, <1>5

LEMMA Least ==
  ASSUME NEW S \in SUBSET Nat, S # {}
  PROVE  \E n \in S : \A m \in S : n <= m
<1>1. PICK n \in S : \A m \in S : <<m, n>> \notin OpToRel(<, Nat)
  BY WFMin, NatLessThanWellFounded, Zenon
<1>2. \A m \in S : ~(m < n)
  BY <1>1, Zenon DEF OpToRel
<1> QED
  BY <1>2

-----------------------------------------------------------------------------
(* Probing                                                                 *)

LEMMA HashType ==
  ASSUME NEW k \in Keys
  PROVE  Hash(k) \in 0 .. HASH_WRAP - 1 /\ Hash(k) # 0 /\ Hash(k) \in Nat
<1> DEFINE a == Hf[k]
<1>1. a \in Nat /\ HASH_WRAP \in Nat /\ HASH_WRAP > 0 /\ Hash(k) = a % HASH_WRAP /\ a % HASH_WRAP # 0
  BY HashAssumption DEF Hash
<1> HIDE DEF a
<1>2. a % HASH_WRAP \in 0 .. HASH_WRAP - 1
  BY <1>1, Divided
<1> QED
  BY <1>1, <1>2

\* Probing goes from the home place of a hash to the end and on from the start.
LEMMA ProbeAt ==
  ASSUME array_size \in Nat, array_size > 0, NEW h \in Nat, NEW n \in Places
  PROVE  /\ h % array_size \in Places
         /\ Probe(h, n) \in Places
         /\ Probe(h, n) = (IF (h % array_size) + n < array_size
                           THEN (h % array_size) + n
                           ELSE (h % array_size) + n - array_size)
<1> DEFINE s == array_size
<1> DEFINE r == h % s
<1>1. s \in Nat /\ s > 0 /\ n \in 0 .. s - 1 /\ Places = 0 .. s - 1
  BY DEF Places
<1>2. Probe(h, n) = (r + n) % s
  BY DEF Probe
<1> HIDE DEF s
<1>3. r \in 0 .. s - 1
  BY <1>1, Divided
<1> HIDE DEF r
<1> DEFINE x == r + n
<1>4. x \in 0 .. 2 * s - 1
  BY <1>1, <1>3
<1> HIDE DEF x
<1>5. x % s = (IF x < s THEN x ELSE x - s)
  BY <1>1, <1>4, WithinTwo
<1>6. /\ r \in Places
      /\ Probe(h, n) \in Places
      /\ Probe(h, n) = (IF r + n < s THEN r + n ELSE r + n - s)
  BY <1>1, <1>2, <1>3, <1>5 DEF x
<1> QED
  BY <1>6 DEF s, r

\* It visits every place, each once.
LEMMA ProbeReaches ==
  ASSUME array_size \in Nat, array_size > 0, NEW h \in Nat, NEW p \in Places
  PROVE  \E n \in Places : Probe(h, n) = p
<1> DEFINE r == h % array_size
<1> DEFINE n == IF p >= r THEN p - r ELSE p - r + array_size
<1>1. 0 \in Places
  BY DEF Places
<1>2. r \in Places
  BY <1>1, ProbeAt
<1> HIDE DEF r
<1>3. n \in Places
  BY <1>2 DEF Places
<1>4. Probe(h, n) = (IF r + n < array_size THEN r + n ELSE r + n - array_size)
  <2> HIDE DEF n
  <2> QED
    BY <1>3, ProbeAt DEF r
<1>5. Probe(h, n) = p
  BY <1>2, <1>3, <1>4 DEF Places
<1> QED
  BY <1>3, <1>5

LEMMA ProbeOnce ==
  ASSUME array_size \in Nat, array_size > 0, NEW h \in Nat, NEW m \in Places, NEW n \in Places,
         Probe(h, m) = Probe(h, n)
  PROVE  m = n
<1> DEFINE r == h % array_size
<1>1. /\ r \in Places
      /\ Probe(h, n) = (IF r + n < array_size THEN r + n ELSE r + n - array_size)
      /\ Probe(h, m) = (IF r + m < array_size THEN r + m ELSE r + m - array_size)
  BY ProbeAt
<1> HIDE DEF r
<1> QED
  BY <1>1 DEF Places

\* Where there is an empty place, FreePlace is one that probing reaches.
LEMMA FreePlaceIsFree ==
  ASSUME array_size \in Nat, array_size > 0, NEW h \in Nat, NEW e,
         NEW q \in Places, e[q].hashvalue = 0
  PROVE  \E n \in Places : /\ FreePlace(e, h) = Probe(h, n)
                           /\ e[Probe(h, n)].hashvalue = 0
                           /\ RunsTo(e, h, n)
<1> DEFINE S == {n \in Places : e[Probe(h, n)].hashvalue = 0}
<1>1. S \in SUBSET Nat /\ S # {}
  <2>1. PICK n \in Places : Probe(h, n) = q
    BY ProbeReaches
  <2>2. n \in S
    BY <2>1
  <2>3. \A m \in Places : m \in Nat
    BY DEF Places
  <2> QED
    BY <2>2, <2>3
<1>2. PICK n \in S : \A m \in S : n <= m
  BY <1>1, Least
<1>3. n \in Places /\ e[Probe(h, n)].hashvalue = 0
  BY <1>2
<1>4. RunsTo(e, h, n)
  <2> SUFFICES ASSUME NEW m \in 0 .. n - 1 PROVE e[Probe(h, m)].hashvalue # 0
    BY DEF RunsTo
  <2>1. m \in Places /\ ~(n <= m)
    BY <1>3 DEF Places
  <2> QED
    BY <2>1, <1>2
<1> DEFINE c == CHOOSE x \in Places : e[Probe(h, x)].hashvalue = 0 /\ RunsTo(e, h, x)
<1>5. c \in Places /\ e[Probe(h, c)].hashvalue = 0 /\ RunsTo(e, h, c)
  BY <1>3, <1>4, Zenon
<1>6. FreePlace(e, h) = Probe(h, c)
  BY DEF FreePlace
<1> QED
  BY <1>5, <1>6

-----------------------------------------------------------------------------
(* Counting                                                                *)

HashTypes ==
  /\ table_size_index \in 1 .. Len(Sizes)
  /\ elements \in [Places -> Cell]
  /\ nr_elements \in Nat /\ i \in Nat
  /\ pc \in {"none", "idle", "rehash", "delete"}
  /\ pc \in {"rehash", "delete"} => key \in Keys
  /\ pc = "rehash" => data \in Data

\* While the table grows it holds at most what was taken from the old array.
Growing ==
  pc = "rehash" =>
    /\ table_size_index > 1
    /\ old \in [0 .. Sizes[table_size_index - 1] - 1 -> Cell]
    /\ i <= Sizes[table_size_index - 1]
    /\ Cardinality(Populated(elements)) <= Cardinality({p \in Populated(old) : p < i})
    /\ Cardinality(Populated(old)) <= Room(table_size_index - 1)

RoomInv == HashTypes /\ RoomLeft /\ Growing

LEMMA SizeTypes ==
  ASSUME NEW n \in 1 .. Len(Sizes)
  PROVE  /\ Sizes[n] \in Nat /\ Sizes[n] > 1
         /\ Sizes[n] \div 2 \in Nat /\ 2 * (Sizes[n] \div 2) <= Sizes[n]
         /\ Sizes[n] \div 2 < Sizes[n] /\ Sizes[n] \div 2 > 0
<1>1. Sizes[n] \in Nat /\ Sizes[n] > 1
  BY SizesAssumption
<1> QED
  BY <1>1

LEMMA RoomIsInt ==
  ASSUME NEW m \in 1 .. Len(Sizes)
  PROVE  CountedTwiceBy(m) \in Nat /\ Room(m) \in Int
<1> DEFINE l == m - 1
<1>1. m # 1 => l \in 1 .. Len(Sizes)
  BY SizesAssumption
<1>2. CountedTwiceBy(m) = IF m = 1 THEN 0 ELSE Sizes[l] \div 2
  BY DEF CountedTwiceBy
<1> HIDE DEF l
<1>3. (m # 1 => Sizes[l] \div 2 \in Nat) /\ Sizes[m] \div 2 \in Nat
  BY <1>1, SizeTypes
<1>4. CountedTwiceBy(m) \in Nat
  BY <1>2, <1>3
<1> QED
  BY <1>3, <1>4 DEF Room

\* An array has room for everything of the one before and one element more.
LEMMA RoomToGrow ==
  ASSUME NEW n \in 2 .. Len(Sizes), NEW c \in Nat, c <= Room(n - 1)
  PROVE  /\ c + (Sizes[n - 1] \div 2) + 1 <= Sizes[n] \div 2
         /\ CountedTwiceBy(n) = Sizes[n - 1] \div 2
<1> DEFINE m == n - 1
<1>1. m \in 1 .. Len(Sizes) - 1 /\ m + 1 = n /\ n # 1 /\ Len(Sizes) \in Nat
  BY SizesAssumption
<1>2. Room(m) < Room(m + 1)
  <2> HIDE DEF m
  <2> QED
    BY <1>1, SizesAssumption
<1>3. /\ Room(n) = (Sizes[n] \div 2) - CountedTwiceBy(n)
      /\ CountedTwiceBy(n) = Sizes[m] \div 2
  BY <1>1 DEF Room, CountedTwiceBy
<1>4. Sizes[m] \div 2 \in Nat /\ Sizes[n] \div 2 \in Nat
  <2> HIDE DEF m
  <2>1. m \in 1 .. Len(Sizes) /\ n \in 1 .. Len(Sizes)
    BY <1>1
  <2> QED
    BY <2>1, SizeTypes
<1>5. Room(m) \in Int
  <2> HIDE DEF m
  <2>1. m \in 1 .. Len(Sizes)
    BY <1>1
  <2> QED
    BY <2>1, RoomIsInt
<1> QED
  BY <1>1, <1>2, <1>3, <1>4, <1>5

LEMMA ArraySize ==
  ASSUME HashTypes
  PROVE  /\ array_size \in Nat /\ array_size > 1
         /\ array_size \div 2 \in Nat /\ array_size \div 2 < array_size
         /\ array_size \div 2 > 0
BY SizeTypes DEF HashTypes, array_size

LEMMA EmptyCell ==
  /\ Empty \in Cell /\ Empty.hashvalue = 0 /\ Empty.key \notin Keys
  /\ Empty = [key |-> NoKey, data |-> NoData, hashvalue |-> 0]
  /\ \A x \in Cell : /\ x.hashvalue \in Nat
                     /\ x = Empty <=> x.hashvalue = 0
                     /\ x # Empty => x.key \in Keys /\ x.hashvalue = Hash(x.key) /\ x.data \in Data
BY HashAssumption DEF Empty, Cell

LEMMA PairCell ==
  ASSUME NEW k \in Keys, NEW d \in Data
  PROVE  /\ Pair(k, d) \in Cell /\ Pair(k, d).hashvalue = Hash(k) /\ Hash(k) # 0
         /\ Pair(k, d).key = k /\ Pair(k, d).data = d
BY HashType DEF Pair, Cell

\* The populated places of an array can be counted.
LEMMA PopulatedFinite ==
  ASSUME NEW n \in Nat, NEW e \in [0 .. n - 1 -> Cell]
  PROVE  /\ IsFiniteSet(Populated(e)) /\ Cardinality(Populated(e)) \in Nat
         /\ Populated(e) \subseteq 0 .. n - 1
         /\ Cardinality(Populated(e)) < n => \E q \in 0 .. n - 1 : e[q].hashvalue = 0
<1>1. Populated(e) \subseteq 0 .. n - 1
  BY DEF Populated
<1>2. IsFiniteSet(0 .. n - 1) /\ Cardinality(0 .. n - 1) = n
  BY FS_Interval
<1>3. IsFiniteSet(Populated(e)) /\ Cardinality(Populated(e)) \in Nat
  BY <1>1, <1>2, FS_Subset, FS_CardinalityType
<1>4. ASSUME \A q \in 0 .. n - 1 : e[q].hashvalue # 0
      PROVE  Cardinality(Populated(e)) = n
  <2>1. Populated(e) = 0 .. n - 1
    BY <1>4 DEF Populated
  <2> QED
    BY <2>1, <1>2
<1> QED
  BY <1>1, <1>3, <1>4

\* Array f is e with x at place p.
Replaced(e, f, p, x) == f = [e EXCEPT ![p] = x]

LEMMA OneMore ==
  ASSUME NEW n \in Nat, NEW e \in [0 .. n - 1 -> Cell], NEW p \in 0 .. n - 1, NEW x \in Cell,
         NEW f, x # Empty, p \notin Populated(e), Replaced(e, f, p, x)
  PROVE  /\ f \in [0 .. n - 1 -> Cell]
         /\ Populated(f) = Populated(e) \cup {p}
         /\ Cardinality(Populated(f)) = Cardinality(Populated(e)) + 1
<1>1. f \in [0 .. n - 1 -> Cell]
  BY DEF Replaced
<1>2. x.hashvalue # 0
  BY EmptyCell
<1>3. Populated(f) = Populated(e) \cup {p}
  BY <1>2 DEF Populated, Replaced
<1>4. IsFiniteSet(Populated(e))
  BY PopulatedFinite
<1>5. Cardinality(Populated(e) \cup {p}) = Cardinality(Populated(e)) + 1
  BY <1>4, FS_AddElement
<1> QED
  BY <1>1, <1>3, <1>5

LEMMA OneLess ==
  ASSUME NEW n \in Nat, NEW e \in [0 .. n - 1 -> Cell], NEW p \in 0 .. n - 1,
         NEW f, p \in Populated(e), Replaced(e, f, p, Empty)
  PROVE  /\ f \in [0 .. n - 1 -> Cell]
         /\ Populated(f) = Populated(e) \ {p}
         /\ Cardinality(Populated(f)) = Cardinality(Populated(e)) - 1
<1>0. Empty \in Cell /\ Empty.hashvalue = 0
  BY EmptyCell
<1>1. f \in [0 .. n - 1 -> Cell]
  BY <1>0 DEF Replaced
<1>2. Populated(f) = Populated(e) \ {p}
  BY <1>0 DEF Populated, Replaced
<1>3. IsFiniteSet(Populated(e))
  BY PopulatedFinite
<1>4. Cardinality(Populated(e) \ {p}) = Cardinality(Populated(e)) - 1
  BY <1>3, FS_RemoveElement
<1> QED
  BY <1>1, <1>2, <1>4

\* An array that is made has nothing in it.
LEMMA EmptyArrays ==
  ASSUME NEW n \in Nat
  PROVE  /\ EmptyArray(n) \in [0 .. n - 1 -> Cell]
         /\ Populated(EmptyArray(n)) = {} /\ Cardinality(Populated(EmptyArray(n))) = 0
<1>1. EmptyArray(n) \in [0 .. n - 1 -> Cell] /\ Populated(EmptyArray(n)) = {}
  BY EmptyCell DEF EmptyArray, Populated
<1> QED
  BY <1>1, FS_EmptySet

-----------------------------------------------------------------------------
(* Insertion                                                               *)

\* What Store leaves: the array as it was, or with the pair on a free place that
\* probing reaches.
Stored(k, d) ==
  \/ IsThere(k) /\ elements' = elements /\ nr_elements' = nr_elements
  \/ /\ ~IsThere(k)
     /\ nr_elements' = nr_elements + 1
     /\ \E n \in Places :
          /\ elements' = [elements EXCEPT ![Probe(Hash(k), n)] = Pair(k, d)]
          /\ elements[Probe(Hash(k), n)].hashvalue = 0
          /\ RunsTo(elements, Hash(k), n)
          /\ Probe(Hash(k), n) \in Places

LEMMA StoreStores ==
  ASSUME HashTypes, NEW k \in Keys, NEW d \in Data, Store(k, d),
         Cardinality(Populated(elements)) < array_size
  PROVE  /\ Stored(k, d)
         /\ elements' \in [Places -> Cell] /\ nr_elements' \in Nat
         /\ \/ /\ Cardinality(Populated(elements')) = Cardinality(Populated(elements)) + 1
               /\ nr_elements' = nr_elements + 1
            \/ /\ Cardinality(Populated(elements')) = Cardinality(Populated(elements))
               /\ nr_elements' = nr_elements
<1> DEFINE h == Hash(k)
<1> DEFINE x == Pair(k, d)
<1>0. h \in Nat
  BY HashType
<1>1. array_size \in Nat /\ array_size > 0 /\ Places = 0 .. array_size - 1
  BY ArraySize DEF Places
<1>2. elements \in [0 .. array_size - 1 -> Cell] /\ nr_elements \in Nat
  BY <1>1 DEF HashTypes
<1>3. PICK q \in Places : elements[q].hashvalue = 0
  BY <1>1, <1>2, PopulatedFinite
<1>4. PICK n \in Places : /\ FreePlace(elements, h) = Probe(h, n)
                          /\ elements[Probe(h, n)].hashvalue = 0
                          /\ RunsTo(elements, h, n)
  <2> HIDE DEF h
  <2> QED
    BY <1>0, <1>1, <1>3, FreePlaceIsFree
<1>5. Probe(h, n) \in Places
  <2> HIDE DEF h
  <2> QED
    BY <1>0, <1>1, ProbeAt
<1>6. CASE IsThere(k)
  <2>1. elements' = elements /\ nr_elements' = nr_elements
    BY <1>6 DEF Store
  <2> QED
    BY <1>6, <2>1, <1>1, <1>2 DEF Stored
<1>7. CASE ~IsThere(k)
  <2>1. elements' = [elements EXCEPT ![Probe(h, n)] = x] /\ nr_elements' = nr_elements + 1
    BY <1>7, <1>4 DEF Store, Pair
  <2>2. Stored(k, d)
    BY <1>7, <2>1, <1>4, <1>5 DEF Stored
  <2>3. x \in Cell /\ x # Empty
    BY PairCell, EmptyCell
  <2> DEFINE p == Probe(h, n)
  <2>4. /\ p \in 0 .. array_size - 1 /\ p \notin Populated(elements)
        /\ elements' = [elements EXCEPT ![p] = x]
    BY <1>1, <1>4, <1>5, <2>1 DEF Populated
  <2> HIDE DEF p, x, h
  <2>5. /\ elements' \in [0 .. array_size - 1 -> Cell]
        /\ Cardinality(Populated(elements')) = Cardinality(Populated(elements)) + 1
    <3> DEFINE s == array_size
    <3> DEFINE e == elements
    <3> DEFINE f == elements'
    <3>1. s \in Nat /\ e \in [0 .. s - 1 -> Cell] /\ p \in 0 .. s - 1
      BY <1>1, <1>2, <2>4
    <3>2. p \notin Populated(e) /\ Replaced(e, f, p, x)
      BY <2>4 DEF Replaced
    <3> HIDE DEF s, e, f
    <3>3. f \in [0 .. s - 1 -> Cell] /\ Cardinality(Populated(f)) = Cardinality(Populated(e)) + 1
      BY <3>1, <3>2, <2>3, OneMore
    <3> QED
      BY <3>3 DEF s, e, f
  <2> QED
    BY <1>1, <1>2, <2>1, <2>2, <2>5
<1> QED
  BY <1>6, <1>7

\* A call that is answered at once changes nothing in the table.
Unchanged ==
  /\ UNCHANGED <<elements, table_size_index, nr_elements, pc, i, key, data, old>>

LEMMA UnchangedRoom ==
  ASSUME RoomInv, Unchanged
  PROVE  RoomInv'
BY DEF RoomInv, HashTypes, RoomLeft, Growing, Unchanged, Places, array_size, CountedTwice, TooSmall, Populated

\* An array that is not too small has an empty place.
LEMMA HasEmptyPlace ==
  ASSUME RoomInv, pc # "none"
  PROVE  /\ Cardinality(Populated(elements)) \in Nat /\ CountedTwice \in Nat
         /\ Cardinality(Populated(elements)) < array_size
<1>1. array_size \in Nat /\ array_size > 1 /\ array_size \div 2 \in Nat /\ array_size \div 2 < array_size
  BY ArraySize DEF RoomInv
<1>2. elements \in [0 .. array_size - 1 -> Cell]
  BY DEF RoomInv, HashTypes, Places
<1>3. Cardinality(Populated(elements)) \in Nat
  BY <1>1, <1>2, PopulatedFinite
<1>4. CountedTwice \in Nat
  BY RoomIsInt DEF CountedTwice, RoomInv, HashTypes
<1>5. /\ nr_elements = Cardinality(Populated(elements)) + CountedTwice
      /\ nr_elements <= array_size \div 2
  BY DEF RoomInv, RoomLeft
<1> QED
  BY <1>1, <1>3, <1>4, <1>5

\* The part of an insertion that follows the growth
LEMMA StoredRoom ==
  ASSUME RoomInv, pc # "none", ~TooSmall, NEW k \in Keys, NEW d \in Data, Store(k, d),
         table_size_index' = table_size_index, pc' = "idle", i' \in Nat
  PROVE  RoomInv'
<1>2. /\ Cardinality(Populated(elements)) \in Nat /\ CountedTwice \in Nat
      /\ Cardinality(Populated(elements)) < array_size
  BY HasEmptyPlace
<1>3. /\ elements' \in [Places -> Cell] /\ nr_elements' \in Nat
      /\ \/ /\ Cardinality(Populated(elements')) = Cardinality(Populated(elements)) + 1
            /\ nr_elements' = nr_elements + 1
         \/ /\ Cardinality(Populated(elements')) = Cardinality(Populated(elements))
            /\ nr_elements' = nr_elements
  BY <1>2, StoreStores DEF RoomInv
<1>4. HashTypes'
  BY <1>3 DEF RoomInv, HashTypes, Places, array_size
<1>5. array_size' = array_size /\ CountedTwice' = CountedTwice
  BY DEF array_size, CountedTwice
<1>6. nr_elements = Cardinality(Populated(elements)) + CountedTwice /\ nr_elements <= array_size \div 2
  BY DEF RoomInv, RoomLeft
<1>7. array_size \div 2 \in Nat /\ nr_elements \in Nat
  BY ArraySize DEF RoomInv, HashTypes
<1>8. nr_elements' = Cardinality(Populated(elements')) + CountedTwice'
  BY <1>2, <1>3, <1>5, <1>6
<1>9. nr_elements' <= array_size' \div 2
  BY <1>3, <1>5, <1>6, <1>7 DEF TooSmall
<1> QED
  BY <1>4, <1>8, <1>9 DEF RoomInv, RoomLeft, Growing

\* The new array is empty and the count is what it was: half of the old size.
LEMMA GrowRoom ==
  ASSUME RoomInv, NEW k \in Keys, NEW d \in Data, Grow(k, d)
  PROVE  RoomInv'
<1> DEFINE n == table_size_index + 1
<1>1. /\ pc = "idle" /\ TooSmall /\ table_size_index < Len(Sizes)
      /\ table_size_index' = n /\ elements' = EmptyArray(Sizes[n]) /\ old' = elements
      /\ key' = k /\ data' = d /\ pc' = "rehash" /\ i' = 0 /\ nr_elements' = nr_elements
  BY DEF Grow
<1>2. n \in 2 .. Len(Sizes) /\ n - 1 = table_size_index /\ table_size_index \in 1 .. Len(Sizes)
      /\ n \in 1 .. Len(Sizes)
  BY <1>1, SizesAssumption DEF RoomInv, HashTypes
<1>3. /\ Cardinality(Populated(elements)) \in Nat /\ CountedTwice \in Nat
      /\ nr_elements = Cardinality(Populated(elements)) + CountedTwice
      /\ nr_elements \in Nat /\ nr_elements <= array_size \div 2 /\ nr_elements + 1 > array_size \div 2
      /\ array_size \div 2 \in Nat
  BY <1>1, HasEmptyPlace, ArraySize DEF RoomInv, RoomLeft, TooSmall, HashTypes
<1>4. nr_elements = array_size \div 2
  BY <1>3
<1>5. Room(table_size_index) = Cardinality(Populated(elements))
  BY <1>3, <1>4 DEF Room, CountedTwice, array_size
<1> DEFINE c == Cardinality(Populated(elements))
<1>6. c + (Sizes[n - 1] \div 2) + 1 <= Sizes[n] \div 2 /\ CountedTwiceBy(n) = Sizes[n - 1] \div 2
  <2> DEFINE m == n
  <2>1. m \in 2 .. Len(Sizes) /\ c \in Nat /\ c <= Room(m - 1)
    BY <1>2, <1>3, <1>5
  <2> HIDE DEF m, c
  <2>2. c + (Sizes[m - 1] \div 2) + 1 <= Sizes[m] \div 2 /\ CountedTwiceBy(m) = Sizes[m - 1] \div 2
    BY <2>1, RoomToGrow
  <2> QED
    BY <2>2 DEF m
<1>7. Sizes[n] \in Nat /\ Sizes[n] \div 2 \in Nat /\ Sizes[n - 1] = array_size
  BY <1>2, SizeTypes DEF array_size
<1>8. CountedTwice' = nr_elements /\ array_size' = Sizes[n]
  <2>1. CountedTwice' = CountedTwiceBy(n) /\ array_size' = Sizes[n]
    BY <1>1 DEF CountedTwice, array_size
  <2> QED
    BY <2>1, <1>4, <1>6, <1>7
<1>9. /\ elements' \in [0 .. Sizes[n] - 1 -> Cell]
      /\ Cardinality(Populated(elements')) = 0
  BY <1>1, <1>7, EmptyArrays
<1>10. HashTypes'
  <2>1. Places' = 0 .. Sizes[n] - 1
    BY <1>8 DEF Places
  <2> QED
    BY <1>1, <1>2, <1>3, <1>9, <2>1 DEF HashTypes
<1>11. nr_elements' = Cardinality(Populated(elements')) + CountedTwice'
  BY <1>1, <1>3, <1>8, <1>9
<1>12. nr_elements' + 1 <= array_size' \div 2
  BY <1>1, <1>3, <1>4, <1>6, <1>7, <1>8
<1>13. RoomLeft'
  <2>1. nr_elements' \in Nat /\ array_size' \div 2 \in Nat
    BY <1>1, <1>3, <1>7, <1>8
  <2>2. ~TooSmall' /\ nr_elements' <= array_size' \div 2
    BY <1>12, <2>1 DEF TooSmall
  <2> QED
    BY <1>11, <2>2 DEF RoomLeft
<1>14. Growing'
  <2>1. elements \in [0 .. array_size - 1 -> Cell] /\ array_size \in Nat
    BY ArraySize DEF RoomInv, HashTypes, Places
  <2>2. {p \in Populated(elements) : p < 0} = {}
    <3>1. Populated(elements) \subseteq 0 .. array_size - 1
      BY <2>1, PopulatedFinite
    <3> QED
      BY <3>1, <2>1
  <2>3. Cardinality({p \in Populated(old)' : p < i'}) = 0
    BY <2>2, <1>1, FS_EmptySet DEF Populated
  <2>4. /\ table_size_index' > 1
        /\ Sizes[table_size_index' - 1] = array_size /\ Room(table_size_index' - 1) = Cardinality(Populated(elements))
    BY <1>1, <1>2, <1>5 DEF array_size
  <2>5. Populated(old') = Populated(elements)
    BY <1>1
  <2>6. /\ table_size_index' > 1
        /\ old' \in [0 .. Sizes[table_size_index' - 1] - 1 -> Cell]
        /\ i' <= Sizes[table_size_index' - 1]
    BY <2>1, <2>4, <1>1
  <2>7. /\ Cardinality(Populated(elements')) <= Cardinality({p \in Populated(old') : p < i'})
        /\ Cardinality(Populated(old')) <= Room(table_size_index' - 1)
    BY <2>3, <2>4, <2>5, <1>3, <1>9
  <2> QED
    BY <2>6, <2>7 DEF Growing
<1> QED
  BY <1>10, <1>13, <1>14 DEF RoomInv

\* One element of the old array is inserted again: there was room for it.
LEMMA RehashRoom ==
  ASSUME RoomInv, Rehash
  PROVE  RoomInv'
<1> DEFINE n == table_size_index
<1> DEFINE before == {p \in Populated(old) : p < i}
<1> DEFINE after == {p \in Populated(old) : p < i + 1}
<1> DEFINE c == Cardinality(Populated(elements))
<1>1. /\ pc = "rehash" /\ i \in DOMAIN old
      /\ i' = i + 1 /\ UNCHANGED <<pc, key, data, old, table_size_index>>
      /\ \/ old[i].hashvalue # 0 /\ Store(old[i].key, old[i].data)
         \/ old[i].hashvalue = 0 /\ UNCHANGED <<elements, nr_elements>>
  BY DEF Rehash
<1>2. /\ n > 1 /\ old \in [0 .. Sizes[n - 1] - 1 -> Cell] /\ i <= Sizes[n - 1]
      /\ c <= Cardinality(before)
      /\ Cardinality(Populated(old)) <= Room(n - 1)
  BY <1>1 DEF RoomInv, Growing
<1>3. /\ n \in 2 .. Len(Sizes) /\ n - 1 \in 1 .. Len(Sizes) /\ i \in Nat /\ nr_elements \in Nat
      /\ elements \in [Places -> Cell]
  BY <1>2, SizesAssumption DEF RoomInv, HashTypes
<1>4. Sizes[n - 1] \in Nat
  <2> DEFINE m == n - 1
  <2>1. m \in 1 .. Len(Sizes)
    BY <1>3
  <2> HIDE DEF m
  <2> QED
    BY <2>1, SizeTypes DEF m
<1>5. /\ IsFiniteSet(Populated(old)) /\ Cardinality(Populated(old)) \in Nat
      /\ Populated(old) \subseteq 0 .. Sizes[n - 1] - 1
  <2> DEFINE m == Sizes[n - 1]
  <2>1. m \in Nat /\ old \in [0 .. m - 1 -> Cell]
    BY <1>2, <1>4
  <2> HIDE DEF m
  <2> QED
    BY <2>1, PopulatedFinite DEF m
<1>6. /\ IsFiniteSet(before) /\ Cardinality(before) \in Nat
      /\ IsFiniteSet(after) /\ Cardinality(after) \in Nat /\ Cardinality(after) <= Cardinality(Populated(old))
  <2>1. before \in SUBSET Populated(old) /\ after \in SUBSET Populated(old)
    OBVIOUS
  <2> HIDE DEF before, after
  <2> QED
    BY <2>1, <1>5, FS_Subset, FS_CardinalityType
<1>7. IF old[i].hashvalue # 0 THEN Cardinality(after) = Cardinality(before) + 1
                               ELSE Cardinality(after) = Cardinality(before)
  <2>1. CASE old[i].hashvalue # 0
    <3>1. after = before \cup {i} /\ i \notin before
      BY <1>1, <1>3, <1>5, <2>1 DEF Populated
    <3>2. Cardinality(before \cup {i}) = Cardinality(before) + 1
      <4> HIDE DEF before
      <4> QED
        BY <3>1, <1>6, FS_AddElement
    <3> QED
      BY <3>1, <3>2, <2>1
  <2>2. CASE old[i].hashvalue = 0
    <3>1. i \notin Populated(old)
      BY <2>2 DEF Populated
    <3>2. after = before
      BY <3>1, <1>3, <1>5
    <3> QED
      BY <3>2, <2>2
  <2> QED
    BY <2>1, <2>2
<1> DEFINE c1 == Cardinality(Populated(elements'))
<1>8. c \in Nat /\ CountedTwice \in Nat /\ c < array_size
  BY <1>1, HasEmptyPlace
<1>9. /\ elements' \in [Places -> Cell] /\ nr_elements' \in Nat
      /\ \/ c1 = c + 1 /\ nr_elements' = nr_elements + 1 /\ old[i].hashvalue # 0
         \/ c1 = c /\ nr_elements' = nr_elements
  <2>1. CASE old[i].hashvalue # 0 /\ Store(old[i].key, old[i].data)
    <3>1. old[i] \in Cell
      BY <1>1, <1>2
    <3>2. old[i].key \in Keys /\ old[i].data \in Data
      BY <2>1, <3>1, EmptyCell
    <3> DEFINE k == old[i].key
    <3> DEFINE d == old[i].data
    <3>3. k \in Keys /\ d \in Data /\ Store(k, d)
      BY <2>1, <3>2
    <3> HIDE DEF k, d
    <3> QED
      BY <3>3, <2>1, <1>8, StoreStores DEF RoomInv
  <2>2. CASE old[i].hashvalue = 0 /\ UNCHANGED <<elements, nr_elements>>
    BY <2>2, <1>3
  <2> QED
    BY <1>1, <2>1, <2>2
<1>10. c1 \in Nat /\ c1 <= Cardinality(after) /\ c1 <= Room(n - 1)
  <2>1. c1 \in Nat
    BY <1>8, <1>9
  <2>2. c1 <= Cardinality(after)
    <3> HIDE DEF before, after, c, c1
    <3> QED
      BY <1>2, <1>6, <1>7, <1>8, <1>9
  <2>3. Room(n - 1) \in Int
    <3> DEFINE m == n - 1
    <3>1. m \in 1 .. Len(Sizes)
      BY <1>3
    <3> HIDE DEF m
    <3> QED
      BY <3>1, RoomIsInt DEF m
  <2> QED
    BY <2>1, <2>2, <2>3, <1>2, <1>5, <1>6
<1>11. array_size' = array_size /\ CountedTwice' = CountedTwice /\ Places' = Places
  BY <1>1 DEF array_size, CountedTwice, Places
<1>12. HashTypes'
  BY <1>1, <1>3, <1>9, <1>11 DEF RoomInv, HashTypes
<1>13. nr_elements' = c1 + CountedTwice'
  <2>1. nr_elements = c + CountedTwice
    BY <1>1 DEF RoomInv, RoomLeft
  <2> QED
    BY <2>1, <1>8, <1>9, <1>11
<1>14. nr_elements' + 1 <= array_size' \div 2
  <2>1. c1 + (Sizes[n - 1] \div 2) + 1 <= Sizes[n] \div 2 /\ CountedTwiceBy(n) = Sizes[n - 1] \div 2
    <3> DEFINE m == n
    <3>1. m \in 2 .. Len(Sizes) /\ c1 \in Nat /\ c1 <= Room(m - 1)
      BY <1>3, <1>10
    <3> HIDE DEF m, c1
    <3>2. c1 + (Sizes[m - 1] \div 2) + 1 <= Sizes[m] \div 2 /\ CountedTwiceBy(m) = Sizes[m - 1] \div 2
      BY <3>1, RoomToGrow
    <3> QED
      BY <3>2 DEF m
  <2>2. CountedTwice = CountedTwiceBy(n) /\ array_size = Sizes[n]
    BY DEF CountedTwice, array_size
  <2> QED
    BY <2>1, <2>2, <1>8, <1>10, <1>11, <1>13
<1>15. RoomLeft'
  <2>1. array_size' \div 2 \in Nat
    BY <1>11, ArraySize DEF RoomInv
  <2>2. ~TooSmall' /\ nr_elements' <= array_size' \div 2
    BY <1>9, <1>14, <2>1 DEF TooSmall
  <2> QED
    BY <1>13, <2>2 DEF RoomLeft
<1>16. Growing'
  <2>1. i' <= Sizes[n - 1]
    BY <1>1, <1>2, <1>3, <1>4
  <2>2. Populated(old') = Populated(old) /\ {p \in Populated(old') : p < i'} = after
    BY <1>1
  <2> QED
    BY <2>1, <2>2, <1>1, <1>2, <1>10 DEF Growing
<1> QED
  BY <1>12, <1>15, <1>16 DEF RoomInv

\* The call that made the table grow goes on, and there is room for its pair.
LEMMA RehashedRoom ==
  ASSUME RoomInv, Rehashed
  PROVE  RoomInv'
<1>1. /\ pc = "rehash" /\ i \notin DOMAIN old /\ Store(key, data)
      /\ pc' = "idle" /\ i' = 0 /\ table_size_index' = table_size_index
  BY DEF Rehashed, StoreAndReturn
<1>2. ~TooSmall
  BY <1>1 DEF RoomInv, RoomLeft
<1>3. key \in Keys /\ data \in Data
  BY <1>1 DEF RoomInv, HashTypes
<1> QED
  BY <1>1, <1>2, <1>3, StoredRoom

LEMMA DeletePlaceType ==
  ASSUME HashTypes, pc = "delete"
  PROVE  DeletePlace \in Places
<1> DEFINE a == Hash(key) + i
<1> DEFINE b == a % HASH_WRAP
<1>1. a \in Nat /\ HASH_WRAP \in Nat /\ HASH_WRAP > 0
  BY HashType, HashAssumption DEF HashTypes
<1> HIDE DEF a
<1>2. b \in Nat
  BY <1>1, Divided
<1>3. DeletePlace = b % array_size
  BY DEF DeletePlace, a
<1> HIDE DEF b
<1>4. array_size \in Nat /\ array_size > 0
  BY ArraySize
<1> QED
  BY <1>2, <1>3, <1>4, Divided DEF Places

\* What a turn of the deletion leaves: the place empty, and an element of
\* another key put back on the first free place from its home.
Reinserted(p) ==
  LET e == elements[p]
      without == [elements EXCEPT ![p] = Empty]
  IN
  \/ /\ e.key = key /\ elements' = without /\ nr_elements' = nr_elements - 1
  \/ /\ e.key # key /\ nr_elements' = nr_elements
     /\ \E n \in Places :
          /\ elements' = [without EXCEPT ![Probe(e.hashvalue, n)] = e]
          /\ without[Probe(e.hashvalue, n)].hashvalue = 0
          /\ RunsTo(without, e.hashvalue, n)
          /\ Probe(e.hashvalue, n) \in Places

LEMMA DeleteStepReinserts ==
  ASSUME HashTypes, DeleteStep
  PROVE  /\ DeletePlace \in Places /\ elements[DeletePlace].hashvalue # 0
         /\ Reinserted(DeletePlace)
<1> DEFINE p == DeletePlace
<1> DEFINE e == elements[p]
<1> DEFINE without == [elements EXCEPT ![p] = Empty]
<1>1. /\ pc = "delete" /\ e.hashvalue # 0
      /\ \/ e.key = key /\ elements' = without /\ nr_elements' = nr_elements - 1
         \/ /\ e.key # key /\ nr_elements' = nr_elements
            /\ elements' = [without EXCEPT ![FreePlace(without, e.hashvalue)] = e]
  BY DEF DeleteStep
<1>2. p \in Places
  BY <1>1, DeletePlaceType
<1> HIDE DEF p
<1>3. elements \in [Places -> Cell]
  BY DEF HashTypes
<1>4. e \in Cell /\ e.hashvalue \in Nat
  BY <1>2, <1>3, EmptyCell
<1>5. without[p].hashvalue = 0
  BY <1>2, <1>3, EmptyCell
<1>6. array_size \in Nat /\ array_size > 0
  BY ArraySize
<1> DEFINE h == e.hashvalue
<1>7. PICK n \in Places : /\ FreePlace(without, h) = Probe(h, n)
                          /\ without[Probe(h, n)].hashvalue = 0
                          /\ RunsTo(without, h, n)
  <2>1. h \in Nat
    BY <1>4
  <2> HIDE DEF h, without
  <2> QED
    BY <2>1, <1>2, <1>5, <1>6, FreePlaceIsFree
<1>8. Probe(h, n) \in Places
  <2>1. h \in Nat
    BY <1>4
  <2> HIDE DEF h
  <2> QED
    BY <2>1, <1>6, ProbeAt
<1>9. Reinserted(p)
  BY <1>1, <1>7, <1>8 DEF Reinserted
<1> QED
  BY <1>1, <1>2, <1>9 DEF p

LEMMA DeleteStepRoom ==
  ASSUME RoomInv, DeleteStep
  PROVE  RoomInv'
<1> DEFINE p == DeletePlace
<1> DEFINE e == elements[p]
<1> DEFINE without == [elements EXCEPT ![p] = Empty]
<1> DEFINE s == array_size
<1>1. p \in Places /\ e.hashvalue # 0 /\ Reinserted(p)
  BY DeleteStepReinserts DEF RoomInv
<1>2. /\ pc = "delete" /\ i \in Nat /\ i' = i + 1
      /\ UNCHANGED <<pc, key, data, old, table_size_index>>
  BY DEF DeleteStep, RoomInv, HashTypes
<1>3. s \in Nat /\ Places = 0 .. s - 1 /\ elements \in [0 .. s - 1 -> Cell] /\ s \div 2 \in Nat
  BY ArraySize DEF RoomInv, HashTypes, Places
<1>4. p \in Populated(elements) /\ e \in Cell /\ e # Empty
  BY <1>1, <1>3, EmptyCell DEF Populated
<1> DEFINE c == Cardinality(Populated(elements))
<1>5. c \in Nat /\ CountedTwice \in Nat /\ nr_elements \in Nat
      /\ nr_elements = c + CountedTwice /\ nr_elements <= s \div 2
  BY <1>2, HasEmptyPlace DEF RoomInv, RoomLeft, HashTypes
<1>6. /\ without \in [0 .. s - 1 -> Cell]
      /\ Cardinality(Populated(without)) = c - 1 /\ Cardinality(Populated(without)) \in Nat
  <2>1. s \in Nat /\ elements \in [0 .. s - 1 -> Cell] /\ p \in 0 .. s - 1
        /\ Replaced(elements, without, p, Empty) /\ p \in Populated(elements)
    BY <1>1, <1>3, <1>4 DEF Replaced
  <2> HIDE DEF p, s, without
  <2>2. /\ without \in [0 .. s - 1 -> Cell]
        /\ Cardinality(Populated(without)) = Cardinality(Populated(elements)) - 1
    BY <2>1, OneLess
  <2>3. Cardinality(Populated(without)) \in Nat
    BY <2>1, <2>2, PopulatedFinite
  <2> QED
    BY <2>2, <2>3
<1> DEFINE c1 == Cardinality(Populated(elements'))
<1>7. /\ elements' \in [0 .. s - 1 -> Cell]
      /\ \/ c1 = c - 1 /\ nr_elements' = nr_elements - 1
         \/ c1 = c /\ nr_elements' = nr_elements
  <2>1. CASE e.key = key /\ elements' = without /\ nr_elements' = nr_elements - 1
    BY <2>1, <1>6
  <2>2. CASE e.key # key
    <3>1. nr_elements' = nr_elements
      BY <1>1, <2>2 DEF Reinserted
    <3>2. PICK n \in Places : /\ elements' = [without EXCEPT ![Probe(e.hashvalue, n)] = e]
                              /\ without[Probe(e.hashvalue, n)].hashvalue = 0
                              /\ Probe(e.hashvalue, n) \in Places
      BY <1>1, <2>2 DEF Reinserted
    <3> DEFINE q == Probe(e.hashvalue, n)
    <3> DEFINE f == elements'
    <3>3. /\ q \in 0 .. s - 1 /\ q \notin Populated(without) /\ Replaced(without, f, q, e)
          /\ s \in Nat
      BY <3>2, <1>3 DEF Populated, Replaced
    <3> HIDE DEF q, f, e, without, s
    <3>4. f \in [0 .. s - 1 -> Cell] /\ Cardinality(Populated(f)) = Cardinality(Populated(without)) + 1
      BY <3>3, <1>4, <1>6, OneMore
    <3>5. f \in [0 .. s - 1 -> Cell] /\ Cardinality(Populated(f)) = c
      <4> HIDE DEF c
      <4> QED
        BY <3>4, <1>5, <1>6
    <3> QED
      BY <3>1, <3>5 DEF f
  <2> QED
    BY <1>1, <2>1, <2>2 DEF Reinserted
<1>8. c - 1 \in Nat /\ c1 \in Nat
  <2> HIDE DEF c, c1, without
  <2> QED
    BY <1>5, <1>6, <1>7
<1>9. array_size' = s /\ CountedTwice' = CountedTwice /\ Places' = Places
  BY <1>2 DEF array_size, CountedTwice, Places
<1>10. /\ nr_elements' = c1 + CountedTwice' /\ nr_elements' <= array_size' \div 2
       /\ nr_elements' \in Nat
  <2> HIDE DEF c, c1, s
  <2> QED
    BY <1>3, <1>5, <1>7, <1>8, <1>9
<1>11. HashTypes'
  BY <1>2, <1>3, <1>7, <1>9, <1>10 DEF RoomInv, HashTypes
<1>12. RoomLeft' /\ Growing'
  BY <1>2, <1>10 DEF RoomLeft, Growing
<1> QED
  BY <1>11, <1>12 DEF RoomInv

\* The calls that start, end or make a table
LEMMA OtherRoom ==
  ASSUME RoomInv, (\E k \in Keys : Delete(k)) \/ Deleted \/ Destroy \/ Generate
  PROVE  RoomInv'
<1>1. CASE \E k \in Keys : Delete(k)
  BY <1>1 DEF Delete, RoomInv, HashTypes, RoomLeft, Growing, Places, array_size, CountedTwice
<1>2. CASE Deleted
  BY <1>2 DEF Deleted, RoomInv, HashTypes, RoomLeft, Growing, Places, array_size, CountedTwice
<1>3. CASE Destroy
  <2>1. /\ pc' = "none" /\ elements' = EmptyArray(array_size)
        /\ UNCHANGED <<i, table_size_index, nr_elements>>
    BY <1>3 DEF Destroy
  <2>2. elements' \in [Places -> Cell]
    BY <2>1, ArraySize, EmptyArrays DEF RoomInv, Places
  <2>3. array_size' = array_size /\ Places' = Places
    BY <2>1 DEF array_size, Places
  <2> QED
    BY <2>1, <2>2, <2>3 DEF RoomInv, HashTypes, RoomLeft, Growing
<1>4. CASE Generate
  <2> DEFINE s == Sizes[1]
  <2>1. /\ pc' = "idle" /\ elements' = EmptyArray(s) /\ table_size_index' = 1 /\ nr_elements' = 0
        /\ UNCHANGED <<i, key, data, old>>
    BY <1>4 DEF Generate
  <2>2. 1 \in 1 .. Len(Sizes)
    BY SizesAssumption
  <2>3. s \in Nat /\ s \div 2 \in Nat
    BY <2>2, SizeTypes
  <2>4. array_size' = s /\ Places' = 0 .. s - 1 /\ CountedTwice' = 0
    BY <2>1 DEF array_size, Places, CountedTwice, CountedTwiceBy
  <2> HIDE DEF s
  <2>5. elements' \in [0 .. s - 1 -> Cell] /\ Cardinality(Populated(elements')) = 0
    BY <2>1, <2>3, EmptyArrays
  <2> QED
    BY <2>1, <2>2, <2>3, <2>4, <2>5 DEF RoomInv, HashTypes, RoomLeft, Growing
<1> QED
  BY <1>1, <1>2, <1>3, <1>4

LEMMA InitRoom == Init => RoomInv
<1> SUFFICES ASSUME Init PROVE RoomInv
  OBVIOUS
<1> DEFINE s == Sizes[1]
<1>1. /\ pc = "idle" /\ elements = EmptyArray(s) /\ table_size_index = 1 /\ nr_elements = 0 /\ i = 0
  BY DEF Init
<1>2. 1 \in 1 .. Len(Sizes)
  BY SizesAssumption
<1>3. s \in Nat /\ s \div 2 \in Nat
  BY <1>2, SizeTypes
<1>4. array_size = s /\ Places = 0 .. s - 1 /\ CountedTwice = 0
  BY <1>1 DEF array_size, Places, CountedTwice, CountedTwiceBy
<1> HIDE DEF s
<1>5. elements \in [0 .. s - 1 -> Cell] /\ Cardinality(Populated(elements)) = 0
  BY <1>1, <1>3, EmptyArrays
<1> QED
  BY <1>1, <1>2, <1>3, <1>4, <1>5 DEF RoomInv, HashTypes, RoomLeft, Growing

\* What an insertion or a lookup can be
LEMMA InsertRoom ==
  ASSUME RoomInv, NEW k \in Keys, NEW d \in Data, Insert(k, d)
  PROVE  RoomInv'
<1>1. CASE InsertNow(k, d)
  BY <1>1, StoredRoom DEF InsertNow, StoreAndReturn, callVars, RoomInv, HashTypes
<1>2. CASE InsertFails(k, d)
  BY <1>2, UnchangedRoom DEF InsertFails, Unchanged, callVars
<1>3. CASE Grow(k, d)
  BY <1>3, GrowRoom
<1> QED
  BY <1>1, <1>2, <1>3 DEF Insert

LEMMA LookupRoom ==
  ASSUME RoomInv, NEW answer, Lookup(answer)
  PROVE  RoomInv'
BY UnchangedRoom DEF Lookup, Unchanged, callVars

LEMMA NextRoom == RoomInv /\ [Next]_vars => RoomInv'
<1> SUFFICES ASSUME RoomInv, [Next]_vars PROVE RoomInv'
  OBVIOUS
<1>1. ASSUME NEW k \in Keys, NEW d \in Data, Insert(k, d) PROVE RoomInv'
  BY <1>1, InsertRoom
<1>2. ASSUME NEW k \in Keys, Get(k) \/ GetMultiple(k) PROVE RoomInv'
  BY <1>2, LookupRoom DEF Get, GetMultiple
<1>3. ASSUME NEW k \in Keys, Index(k) PROVE RoomInv'
  <2>1. CASE Get(k)
    BY <2>1, <1>2
  <2>2. CASE Insert(k, NoData)
    BY <2>2, <1>1, HashAssumption
  <2> QED
    BY <1>3, <2>1, <2>2 DEF Index
<1>4. CASE Rehash
  BY <1>4, RehashRoom
<1>5. CASE Rehashed
  BY <1>5, RehashedRoom
<1>6. CASE DeleteStep
  BY <1>6, DeleteStepRoom
<1>7. CASE UNCHANGED vars
  BY <1>7, UnchangedRoom DEF vars, Unchanged
<1> QED
  BY <1>1, <1>2, <1>3, <1>4, <1>5, <1>6, <1>7, OtherRoom DEF Next

\* Whatever the hash function and the sizes, the table never takes in more than
\* half of its places hold: the count drifts by what CountedTwice says and not
\* more, and no insertion that a growth makes would make it grow again
\* (cnhash.h:144-162).
THEOREM RoomAlwaysLeft == Spec => []RoomLeft
<1>1. Spec => []RoomInv
  BY InitRoom, NextRoom, PTL DEF Spec
<1>2. RoomInv => RoomLeft
  BY DEF RoomInv
<1> QED
  BY <1>1, <1>2, PTL

-----------------------------------------------------------------------------
(* Nothing is hidden                                                       *)

\* No hash is so near 2^32 that the sum with a place of the array wraps: then
\* deletion probes the same places as insertion.
NoWrap == \A k \in Keys : \A n \in 1 .. Len(Sizes) : Hash(k) + Sizes[n] <= HASH_WRAP

\* The place of the j-th turn of a deletion, and the places before the a-th
Turn(j) == Probe(Hash(key), j)
Passed(a, q) == \E j \in 0 .. a - 1 : q = Turn(j)

\* Place p is in the run that the deletion has yet to pass.
Ahead(e, a, p) ==
  \E j \in a .. array_size - 1 :
    p = Turn(j) /\ \A l \in a .. j : Turn(l) \in Populated(e)

\* Probing for the hash of what is at p meets populated places only, but where
\* the deletion has passed and is going to put the element back.
PathTo(e, a, p) ==
  \E n \in Places :
    /\ Probe(e[p].hashvalue, n) = p
    /\ \A m \in 0 .. n - 1 :
         \/ Probe(e[p].hashvalue, m) \in Populated(e)
         \/ Passed(a, Probe(e[p].hashvalue, m)) /\ Ahead(e, a, p)

Paths(e, a) == \A p \in Populated(e) : PathTo(e, a, p)

\* The deletion is going to meet an empty place, and the key is not where it
\* has passed.
Deleting ==
  pc = "delete" =>
    /\ \E l \in i .. array_size - 1 : Turn(l) \notin Populated(elements)
    /\ \A j \in 0 .. i - 1 : elements[Turn(j)].key # key
    /\ Paths(elements, i)

HashInv ==
  /\ RoomInv
  /\ pc # "delete" => Paths(elements, 0)
  /\ Deleting

\* Where the paths of two hashes meet, they go on together.
LEMMA Together ==
  ASSUME array_size \in Nat, array_size > 0, NEW g \in Nat, NEW h \in Nat,
         NEW m \in Places, NEW a \in Places, Probe(h, m) = Probe(g, a),
         NEW n \in Places, NEW b \in Places, n >= m, b - a = n - m
  PROVE  Probe(h, n) = Probe(g, b)
<1> DEFINE r == h % array_size
<1> DEFINE q == g % array_size
<1>1. /\ r \in Places /\ q \in Places
      /\ Probe(h, n) = (IF r + n < array_size THEN r + n ELSE r + n - array_size)
      /\ Probe(h, m) = (IF r + m < array_size THEN r + m ELSE r + m - array_size)
      /\ Probe(g, a) = (IF q + a < array_size THEN q + a ELSE q + a - array_size)
      /\ Probe(g, b) = (IF q + b < array_size THEN q + b ELSE q + b - array_size)
  BY ProbeAt
<1> DEFINE s == array_size
<1>2. s \in Nat /\ r \in 0 .. s - 1 /\ q \in 0 .. s - 1 /\ m \in 0 .. s - 1 /\ n \in 0 .. s - 1
      /\ a \in 0 .. s - 1 /\ b \in 0 .. s - 1
  BY <1>1 DEF Places
<1>3. /\ Probe(h, n) = (IF r + n < s THEN r + n ELSE r + n - s)
      /\ (IF r + m < s THEN r + m ELSE r + m - s) = (IF q + a < s THEN q + a ELSE q + a - s)
      /\ Probe(g, b) = (IF q + b < s THEN q + b ELSE q + b - s)
  BY <1>1
<1> HIDE DEF r, q, s
<1> DEFINE x == n - m
<1>4. x \in 0 .. s - 1 /\ n = m + x /\ b = a + x
  BY <1>2
<1> HIDE DEF x
<1>5. CASE r + m < s /\ q + a < s
  BY <1>2, <1>3, <1>4, <1>5
<1>6. CASE r + m >= s /\ q + a < s
  BY <1>2, <1>3, <1>4, <1>6
<1>7. CASE r + m < s /\ q + a >= s
  BY <1>2, <1>3, <1>4, <1>7
<1>8. CASE r + m >= s /\ q + a >= s
  BY <1>2, <1>3, <1>4, <1>8
<1> QED
  BY <1>2, <1>5, <1>6, <1>7, <1>8

LEMMA TurnTypes ==
  ASSUME HashTypes, key \in Keys
  PROVE  /\ Hash(key) \in Nat /\ array_size \in Nat /\ array_size > 0
         /\ \A j \in Places : Turn(j) \in Places
         /\ \A j, l \in Places : Turn(j) = Turn(l) => j = l
         /\ \A p \in Places : \E j \in Places : Turn(j) = p
<1>1. Hash(key) \in Nat
  BY HashType
<1>2. array_size \in Nat /\ array_size > 0
  BY ArraySize
<1> DEFINE h == Hash(key)
<1> HIDE DEF h
<1>3. h \in Nat
  BY <1>1 DEF h
<1>4. \A j \in Places : Probe(h, j) \in Places
  BY <1>2, <1>3, ProbeAt
<1>5. \A j, l \in Places : Probe(h, j) = Probe(h, l) => j = l
  BY <1>2, <1>3, ProbeOnce
<1>6. \A p \in Places : \E j \in Places : Probe(h, j) = p
  BY <1>2, <1>3, ProbeReaches
<1> QED
  BY <1>1, <1>2, <1>4, <1>5, <1>6 DEF h, Turn

LEMMA RunPopulated ==
  ASSUME HashTypes, NEW e \in [Places -> Cell], NEW h \in Nat, NEW n \in Places
  PROVE  RunsTo(e, h, n) <=> \A m \in 0 .. n - 1 : Probe(h, m) \in Populated(e)
<1>1. \A m \in 0 .. n - 1 : m \in Places
  BY ArraySize DEF Places
<1>2. \A m \in 0 .. n - 1 : Probe(h, m) \in Places
  BY <1>1, ArraySize, ProbeAt
<1> QED
  BY <1>2 DEF RunsTo, Populated

\* What is put where probing leads over populated places keeps the paths.
LEMMA PutKeepsPaths ==
  ASSUME HashTypes, NEW f \in [Places -> Cell], NEW a, Paths(f, a),
         NEW x \in Cell, NEW n \in Places, RunsTo(f, x.hashvalue, n),
         Probe(x.hashvalue, n) \in Places,
         NEW g, Replaced(f, g, Probe(x.hashvalue, n), x), x # Empty
  PROVE  Paths(g, a)
<1> DEFINE h == x.hashvalue
<1> DEFINE q == Probe(h, n)
<1>1. q \in Places /\ h \in Nat /\ h # 0
  BY EmptyCell
<1>2. g[q] = x /\ \A r \in Places : r # q => g[r] = f[r]
  <2> HIDE DEF q
  <2> QED
    BY <1>1 DEF Replaced, q
<1>3. Populated(g) = Populated(f) \cup {q}
  <2> HIDE DEF q
  <2>1. g = [f EXCEPT ![q] = x]
    BY DEF Replaced, q
  <2> QED
    BY <2>1, <1>1 DEF Populated
<1>4. \A m \in 0 .. n - 1 : Probe(h, m) \in Populated(f)
  BY <1>1, RunPopulated
<1> HIDE DEF q
<1> SUFFICES ASSUME NEW p \in Populated(g) PROVE PathTo(g, a, p)
  BY DEF Paths
<1>5. CASE p = q
  <2>1. Probe(g[p].hashvalue, n) = p /\ \A m \in 0 .. n - 1 : Probe(g[p].hashvalue, m) \in Populated(g)
    BY <1>2, <1>3, <1>4, <1>5 DEF q
  <2> QED
    BY <2>1 DEF PathTo
<1>6. CASE p # q
  <2>1. p \in Populated(f) /\ g[p] = f[p]
    BY <1>2, <1>3, <1>6 DEF Populated
  <2>2. Ahead(f, a, p) => Ahead(g, a, p)
    BY <1>3 DEF Ahead
  <2>3. PathTo(f, a, p)
    BY <2>1 DEF Paths
  <2> QED
    BY <2>1, <2>2, <2>3, <1>3 DEF PathTo
<1> QED
  BY <1>5, <1>6

\* An element whose path leads over the place of this turn is in the run that
\* the deletion has yet to pass.
LEMMA PathAhead ==
  ASSUME HashTypes, key \in Keys, NEW e, NEW h \in Nat, NEW m \in Places, NEW n \in Places, m < n,
         i \in Places, Probe(h, m) = Turn(i),
         \A k \in 0 .. n - 1 : Probe(h, k) \in Populated(e) \/ Passed(i, Probe(h, k)),
         \E l \in i .. array_size - 1 : Turn(l) \notin Populated(e)
  PROVE  \E j \in i + 1 .. array_size - 1 :
           Probe(h, n) = Turn(j) /\ \A l \in i + 1 .. j - 1 : Turn(l) \in Populated(e)
<1> DEFINE s == array_size
<1> DEFINE g == Hash(key)
<1>1. /\ g \in Nat /\ s \in Nat /\ s > 0
      /\ \A j, l \in Places : Turn(j) = Turn(l) => j = l
  BY TurnTypes
<1>2. /\ Places = 0 .. s - 1 /\ s \in Nat
      /\ i \in 0 .. s - 1 /\ m \in 0 .. s - 1 /\ n \in 0 .. s - 1
  BY <1>1 DEF Places
<1> HIDE DEF g, s
<1>3. ASSUME NEW l \in i .. s - 1, m + (l - i) \in Places
      PROVE  Probe(h, m + (l - i)) = Turn(l)
  <2> DEFINE k == m + (l - i)
  <2>1. k \in Places /\ l \in Places /\ k >= m /\ l - i = k - m
    BY <1>2, <1>3
  <2> HIDE DEF k
  <2>2. array_size \in Nat /\ array_size > 0 /\ Probe(h, m) = Probe(g, i)
    BY <1>1 DEF s, g, Turn
  <2>3. Probe(h, k) = Probe(g, l)
    BY <1>1, <2>1, <2>2, Together
  <2> QED
    BY <2>3 DEF k, g, Turn
<1>4. ASSUME NEW l \in i .. s - 1, m + (l - i) < n
      PROVE  Turn(l) \in Populated(e)
  <2> DEFINE k == m + (l - i)
  <2>1. k \in 0 .. n - 1 /\ k \in Places /\ l \in Places
    BY <1>2, <1>4
  <2>2. Probe(h, k) = Turn(l)
    BY <1>3, <2>1
  <2>3. ~Passed(i, Turn(l))
    <3> SUFFICES ASSUME NEW j \in 0 .. i - 1, Turn(l) = Turn(j) PROVE FALSE
      BY DEF Passed
    <3>1. j \in Places /\ j < l
      BY <1>2
    <3> QED
      BY <3>1, <2>1, <1>1, <1>2
  <2> HIDE DEF k
  <2> QED
    BY <2>1, <2>2, <2>3
<1> DEFINE j == i + (n - m)
<1>5. j < s
  <2> SUFFICES ASSUME ~(j < s) PROVE FALSE
    OBVIOUS
  <2>1. PICK l \in i .. s - 1 : Turn(l) \notin Populated(e)
    BY DEF s
  <2>2. m + (l - i) < n
    BY <1>2
  <2> QED
    BY <2>1, <2>2, <1>4
<1>6. j \in i + 1 .. s - 1 /\ m + (j - i) = n
  BY <1>2, <1>5
<1>7. Probe(h, n) = Turn(j)
  <2>1. j \in i .. s - 1
    BY <1>6, <1>2
  <2> HIDE DEF j
  <2> QED
    BY <2>1, <1>3, <1>6
<1>8. \A l \in i + 1 .. j - 1 : Turn(l) \in Populated(e)
  <2> SUFFICES ASSUME NEW l \in i + 1 .. j - 1 PROVE Turn(l) \in Populated(e)
    OBVIOUS
  <2>1. l \in i .. s - 1 /\ m + (l - i) < n
    BY <1>2, <1>5
  <2> QED
    BY <2>1, <1>4
<1> QED
  BY <1>6, <1>7, <1>8 DEF s

\* Taking out the element of this turn breaks only paths of elements ahead.
LEMMA TakenOut ==
  ASSUME HashTypes, pc = "delete", i \in Places, Deleting, Turn(i) \in Populated(elements),
         NEW f, Replaced(elements, f, Turn(i), Empty), f \in [Places -> Cell],
         Populated(f) = Populated(elements) \ {Turn(i)}
  PROVE  Paths(f, i + 1)
<1> DEFINE P == Turn(i)
<1>1. key \in Keys /\ elements \in [Places -> Cell] /\ i \in Nat
  BY DEF HashTypes
<1>2. /\ \E l \in i .. array_size - 1 : Turn(l) \notin Populated(elements)
      /\ Paths(elements, i)
  BY DEF Deleting
<1>3. \A j, l \in Places : Turn(j) = Turn(l) => j = l
  BY <1>1, TurnTypes
<1>4. \A q : Passed(i, q) => Passed(i + 1, q)
  BY <1>1 DEF Passed
<1>5. Passed(i + 1, P)
  BY <1>1 DEF Passed
<1> SUFFICES ASSUME NEW p \in Populated(f) PROVE PathTo(f, i + 1, p)
  BY DEF Paths
<1>6. p \in Populated(elements) /\ p # P /\ p \in Places
  BY <1>1 DEF Populated
<1>7. f[p] = elements[p]
  <2> HIDE DEF P
  <2> QED
    BY <1>1, <1>6 DEF Replaced, P
<1> DEFINE h == elements[p].hashvalue
<1>8. PICK n \in Places : /\ Probe(h, n) = p
                          /\ \A m \in 0 .. n - 1 : \/ Probe(h, m) \in Populated(elements)
                                                   \/ Passed(i, Probe(h, m)) /\ Ahead(elements, i, p)
  BY <1>2, <1>6 DEF Paths, PathTo
<1>9. h \in Nat
  BY <1>1, <1>6, EmptyCell
<1> HIDE DEF h
<1>10. ASSUME Ahead(elements, i, p) PROVE Ahead(f, i + 1, p)
  <2>1. PICK j \in i .. array_size - 1 : p = Turn(j) /\ \A l \in i .. j : Turn(l) \in Populated(elements)
    BY <1>10 DEF Ahead
  <2>2. j # i
    BY <2>1, <1>6
  <2>3. j \in i + 1 .. array_size - 1
    BY <2>1, <2>2, <1>1, ArraySize
  <2>4. ASSUME NEW l \in i + 1 .. j PROVE Turn(l) \in Populated(f)
    <3>1. l \in i .. j /\ l \in Places /\ l # i
      BY <2>3, <1>1, ArraySize DEF Places
    <3>2. Turn(l) # P
      BY <3>1, <1>3
    <3> QED
      BY <2>1, <3>1, <3>2
  <2> QED
    BY <2>1, <2>3, <2>4 DEF Ahead
<1>11. ASSUME NEW m \in 0 .. n - 1, Probe(h, m) = P PROVE Ahead(f, i + 1, p)
  <2>1. m \in Places /\ m < n
    BY ArraySize DEF Places
  <2>2. \A k \in 0 .. n - 1 : Probe(h, k) \in Populated(elements) \/ Passed(i, Probe(h, k))
    BY <1>8
  <2>3. PICK j \in i + 1 .. array_size - 1 :
               Probe(h, n) = Turn(j) /\ \A l \in i + 1 .. j - 1 : Turn(l) \in Populated(elements)
    BY <1>1, <1>2, <1>9, <1>11, <2>1, <2>2, PathAhead
  <2>4. ASSUME NEW l \in i + 1 .. j PROVE Turn(l) \in Populated(f)
    <3>1. (l = j \/ l \in i + 1 .. j - 1) /\ l \in Places /\ l # i
      BY <2>3, <1>1, ArraySize DEF Places
    <3>2. Turn(l) # P
      BY <3>1, <1>3
    <3>3. Turn(l) \in Populated(elements)
      BY <3>1, <2>3, <1>6, <1>8
    <3> QED
      BY <3>2, <3>3
  <2> QED
    BY <2>3, <2>4, <1>8 DEF Ahead
<1>12. ASSUME NEW m \in 0 .. n - 1
       PROVE  \/ Probe(h, m) \in Populated(f)
              \/ Passed(i + 1, Probe(h, m)) /\ Ahead(f, i + 1, p)
  <2>1. CASE Probe(h, m) = P
    BY <2>1, <1>5, <1>11
  <2>2. CASE Probe(h, m) # P
    BY <2>2, <1>4, <1>8, <1>10
  <2> QED
    BY <2>1, <2>2
<1>13. h = f[p].hashvalue
  BY <1>7 DEF h
<1> QED
  BY <1>8, <1>12, <1>13 DEF PathTo

\* Where no sum wraps, a deletion passes the places that probing for the key
\* visits.
LEMMA DeletePlaceIsTurn ==
  ASSUME NoWrap, HashTypes, key \in Keys, i \in Places
  PROVE  DeletePlace = Turn(i)
<1> DEFINE a == Hash(key)
<1> DEFINE s == array_size
<1>1. a \in Nat /\ s \in Nat /\ s > 0 /\ i \in 0 .. s - 1
  BY HashType, ArraySize DEF Places
<1>2. a + s <= HASH_WRAP /\ HASH_WRAP \in Nat
  BY HashAssumption DEF NoWrap, HashTypes, array_size
<1>3. DeletePlace = ((a + i) % HASH_WRAP) % s /\ Turn(i) = ((a % s) + i) % s
  BY DEF DeletePlace, Turn, Probe
<1> HIDE DEF a, s
<1> DEFINE x == a + i
<1>4. x \in 0 .. HASH_WRAP - 1
  BY <1>1, <1>2
<1>5. (a + i) % s = ((a % s) + i) % s
  BY <1>1, RemainderOfSum
<1>6. x % HASH_WRAP = x
  <2> DEFINE w == HASH_WRAP
  <2>1. w \in Nat /\ x \in 0 .. 2 * w - 1 /\ x < w
    BY <1>2, <1>4
  <2> HIDE DEF x, w
  <2>2. x % w = x
    BY <2>1, WithinTwo
  <2> QED
    BY <2>2 DEF w
<1> QED
  BY <1>3, <1>5, <1>6

\* The element that is put back finds a place that the deletion has passed or
\* its old one: the empty place ahead stays empty.
LEMMA PutBackBehind ==
  ASSUME HashTypes, pc = "delete", i \in Places, Deleting, Turn(i) \in Populated(elements),
         NEW f, Replaced(elements, f, Turn(i), Empty), f \in [Places -> Cell],
         Populated(f) = Populated(elements) \ {Turn(i)},
         NEW n \in Places, RunsTo(f, elements[Turn(i)].hashvalue, n),
         Probe(elements[Turn(i)].hashvalue, n) \notin Populated(f)
  PROVE  Passed(i + 1, Probe(elements[Turn(i)].hashvalue, n))
<1> DEFINE P == Turn(i)
<1> DEFINE h == elements[P].hashvalue
<1>1. key \in Keys /\ elements \in [Places -> Cell] /\ i \in Nat /\ P \in Places
  BY TurnTypes DEF HashTypes
<1>2. h \in Nat
  BY <1>1, EmptyCell
<1>3. PICK k \in Places : /\ Probe(h, k) = P
                          /\ \A m \in 0 .. k - 1 : Probe(h, m) \in Populated(elements) \/ Passed(i, Probe(h, m))
  BY DEF Deleting, Paths, PathTo
<1>4. \A m \in 0 .. n - 1 : Probe(h, m) \in Populated(f)
  BY <1>2, RunPopulated
<1>5. Probe(h, n) \notin Populated(f)
  OBVIOUS
<1> HIDE DEF h
<1>6. n <= k
  <2> SUFFICES ASSUME ~(n <= k) PROVE FALSE
    OBVIOUS
  <2>1. k \in 0 .. n - 1
    BY ArraySize DEF Places
  <2> QED
    BY <2>1, <1>3, <1>4
<1>7. CASE n = k
  BY <1>1, <1>3, <1>7 DEF Passed, h
<1>8. CASE n # k
  <2>1. n \in 0 .. k - 1
    BY <1>6, <1>8, ArraySize DEF Places
  <2>2. Probe(h, n) = P \/ Probe(h, n) \notin Populated(elements)
    BY <1>5
  <2>3. Probe(h, n) = P \/ Passed(i, Probe(h, n))
    BY <2>1, <2>2, <1>3
  <2> QED
    BY <2>3, <1>1 DEF Passed, h
<1> QED
  BY <1>7, <1>8

\* One turn of a deletion
LEMMA DeleteStepPaths ==
  ASSUME NoWrap, HashInv, DeleteStep
  PROVE  Deleting'
<1> DEFINE P == Turn(i)
<1> DEFINE e == elements[P]
<1> DEFINE without == [elements EXCEPT ![P] = Empty]
<1>1. /\ pc = "delete" /\ i < array_size /\ i' = i + 1
      /\ UNCHANGED <<pc, key, table_size_index>>
      /\ HashTypes /\ Deleting
  BY DEF DeleteStep, HashInv, RoomInv
<1>2. key \in Keys /\ elements \in [Places -> Cell] /\ i \in Nat /\ i \in Places
  BY <1>1, ArraySize DEF HashTypes, Places
<1>3. DeletePlace = P
  BY <1>1, <1>2, DeletePlaceIsTurn
<1>4. P \in Places /\ e.hashvalue # 0 /\ Reinserted(P)
  BY <1>1, <1>3, DeleteStepReinserts
<1> HIDE DEF P
<1>5. P \in Populated(elements) /\ e \in Cell /\ e # Empty
  BY <1>2, <1>4, EmptyCell DEF Populated
<1>6. /\ Replaced(elements, without, P, Empty) /\ without \in [Places -> Cell]
      /\ Populated(without) = Populated(elements) \ {P}
      /\ without[P] = Empty /\ \A r \in Places : r # P => without[r] = elements[r]
  <2>1. Populated(without) = Populated(elements) \ {P}
    BY <1>2, <1>4, EmptyCell DEF Populated
  <2> QED
    BY <2>1, <1>2, <1>4, EmptyCell DEF Replaced
<1> HIDE DEF without
<1>7. Paths(without, i + 1)
  BY <1>1, <1>2, <1>5, <1>6, TakenOut DEF P
<1>8. PICK l \in i .. array_size - 1 : Turn(l) \notin Populated(elements)
  BY <1>1 DEF Deleting
<1>9. l \in i + 1 .. array_size - 1 /\ l \in Places
  BY <1>2, <1>5, <1>8, ArraySize DEF P, Places
<1>10. \A j \in Places : Turn(j) \in Places
  BY <1>1, <1>2, TurnTypes
<1>11. \A j \in 0 .. i : without[Turn(j)].key # key
  <2> SUFFICES ASSUME NEW j \in 0 .. i PROVE without[Turn(j)].key # key
    OBVIOUS
  <2>1. j \in Places /\ (j # i => j \in 0 .. i - 1)
    BY <1>1, <1>2, ArraySize DEF Places
  <2>2. CASE Turn(j) = P
    BY <2>2, <1>2, <1>6, EmptyCell
  <2>3. CASE Turn(j) # P
    <3>1. elements[Turn(j)].key # key
      BY <1>1, <2>1, <2>3 DEF Deleting, P
    <3> QED
      BY <3>1, <2>1, <2>3, <1>6, <1>10
  <2> QED
    BY <2>2, <2>3
<1>12. /\ Turn(l) \notin Populated(elements')
       /\ \A j \in 0 .. i : elements'[Turn(j)].key # key
       /\ Paths(elements', i + 1)
  <2>1. CASE elements' = without
    BY <2>1, <1>6, <1>7, <1>8, <1>11
  <2>2. CASE elements' # without
    <3>1. e.key # key
      BY <1>4, <2>2 DEF Reinserted, without
    <3>2. PICK n \in Places : /\ elements' = [without EXCEPT ![Probe(e.hashvalue, n)] = e]
                              /\ without[Probe(e.hashvalue, n)].hashvalue = 0
                              /\ RunsTo(without, e.hashvalue, n)
                              /\ Probe(e.hashvalue, n) \in Places
      BY <1>4, <3>1 DEF Reinserted, without
    <3> DEFINE q == Probe(e.hashvalue, n)
    <3>3. q \in Places /\ q \notin Populated(without) /\ Replaced(without, elements', q, e)
      BY <3>2 DEF Populated, Replaced
    <3>4. Passed(i + 1, q)
      BY <1>1, <1>2, <1>5, <1>6, <3>2, <3>3, PutBackBehind DEF P
    <3>5. Paths(elements', i + 1)
      <4> DEFINE g == elements'
      <4>1. Replaced(without, g, Probe(e.hashvalue, n), e)
        BY <3>3
      <4> HIDE DEF g, e
      <4>2. Paths(g, i + 1)
        BY <4>1, <1>1, <1>5, <1>6, <1>7, <3>2, PutKeepsPaths DEF q
      <4> QED
        BY <4>2 DEF g
    <3> HIDE DEF q, e
    <3>6. q # Turn(l)
      <4>1. PICK j \in 0 .. i : q = Turn(j)
        BY <3>4, <1>2 DEF Passed
      <4>2. j \in Places /\ j # l
        BY <1>1, <1>2, <1>9, ArraySize DEF Places
      <4> QED
        BY <4>1, <4>2, <1>1, <1>2, <1>9, TurnTypes
    <3>7. elements' = [without EXCEPT ![q] = e]
      BY <3>3 DEF Replaced
    <3>8. Turn(l) \notin Populated(elements')
      BY <3>3, <3>6, <3>7, <1>6, <1>8 DEF Populated
    <3>9. \A j \in 0 .. i : elements'[Turn(j)].key # key
      <4> SUFFICES ASSUME NEW j \in 0 .. i PROVE elements'[Turn(j)].key # key
        OBVIOUS
      <4>1. Turn(j) \in Places /\ without[Turn(j)].key # key
        BY <1>1, <1>2, <1>10, <1>11, ArraySize DEF Places
      <4>2. elements'[Turn(j)] = IF Turn(j) = q THEN e ELSE without[Turn(j)]
        BY <4>1, <3>3, <3>7, <1>6
      <4>3. CASE Turn(j) = q
        BY <3>1, <4>2, <4>3 DEF e
      <4>4. CASE Turn(j) # q
        BY <4>1, <4>2, <4>4
      <4> QED
        BY <4>3, <4>4
    <3> QED
      BY <3>5, <3>8, <3>9
  <2> QED
    BY <2>1, <2>2
<1>13. array_size' = array_size /\ Places' = Places
  BY <1>1 DEF array_size, Places
<1>14. /\ \A j : Turn(j)' = Turn(j)
       /\ \A n, h : Probe(h, n)' = Probe(h, n)
  BY <1>1, <1>13 DEF Turn, Probe
<1>15. Paths(elements, i)'
  <2>1. Populated(elements)' = Populated(elements')
    BY DEF Populated
  <2> SUFFICES ASSUME NEW p \in Populated(elements') PROVE PathTo(elements, i, p)'
    BY <2>1 DEF Paths
  <2>2. PathTo(elements', i + 1, p)
    BY <1>12 DEF Paths
  <2> QED
    BY <2>2, <1>1, <1>13, <1>14 DEF PathTo, Passed, Ahead, Populated
<1>16. \E k \in i' .. array_size' - 1 : Turn(k)' \notin Populated(elements)'
  BY <1>1, <1>9, <1>12, <1>13, <1>14 DEF Populated
<1>17. \A j \in 0 .. i' - 1 : elements'[Turn(j)'].key # key'
  BY <1>1, <1>2, <1>12, <1>14
<1> QED
  BY <1>15, <1>16, <1>17 DEF Deleting

\* Outside a deletion nothing is passed: a path is what NothingHidden says.
LEMMA NothingPassed ==
  ASSUME HashTypes, NEW p \in Populated(elements)
  PROVE  PathTo(elements, 0, p) <=>
           \E n \in Places : /\ Probe(elements[p].hashvalue, n) = p
                             /\ RunsTo(elements, elements[p].hashvalue, n)
<1> DEFINE h == elements[p].hashvalue
<1>1. elements \in [Places -> Cell] /\ h \in Nat
  BY EmptyCell DEF HashTypes, Populated
<1> HIDE DEF h
<1>2. \A n \in Places : RunsTo(elements, h, n) <=> \A m \in 0 .. n - 1 : Probe(h, m) \in Populated(elements)
  BY <1>1, RunPopulated
<1>3. \A q : ~Passed(0, q)
  BY DEF Passed
<1> QED
  BY <1>2, <1>3 DEF PathTo, h

\* The same paths in the next state, where array and size are the same
LEMMA SamePaths ==
  ASSUME HashTypes, Paths(elements, 0), elements' = elements, table_size_index' = table_size_index
  PROVE  Paths(elements, 0)'
<1>1. Places' = Places /\ \A n, h : Probe(h, n)' = Probe(h, n)
  BY DEF Places, Probe, array_size
<1>2. \A q : ~Passed(0, q)
  BY DEF Passed
<1> QED
  BY <1>1, <1>2 DEF Paths, PathTo, Populated

LEMMA StoredPaths ==
  ASSUME RoomInv, pc # "none", Paths(elements, 0), NEW k \in Keys, NEW d \in Data, Store(k, d),
         table_size_index' = table_size_index
  PROVE  Paths(elements, 0)'
<1> DEFINE x == Pair(k, d)
<1> DEFINE g == elements'
<1>1. Stored(k, d) /\ elements \in [Places -> Cell] /\ HashTypes
  BY HasEmptyPlace, StoreStores DEF RoomInv, HashTypes
<1>2. CASE elements' = elements
  BY <1>1, <1>2, SamePaths
<1>3. CASE elements' # elements
  <2>1. PICK n \in Places :
          /\ g = [elements EXCEPT ![Probe(Hash(k), n)] = x]
          /\ RunsTo(elements, Hash(k), n)
          /\ Probe(Hash(k), n) \in Places
    BY <1>1, <1>3 DEF Stored
  <2>2. x \in Cell /\ x # Empty /\ x.hashvalue = Hash(k)
    BY PairCell, EmptyCell
  <2>3. Replaced(elements, g, Probe(x.hashvalue, n), x)
    BY <2>1, <2>2 DEF Replaced
  <2>4. RunsTo(elements, x.hashvalue, n) /\ Probe(x.hashvalue, n) \in Places
    BY <2>1, <2>2
  <2> HIDE DEF x, g
  <2>5. Paths(g, 0)
    BY <1>1, <2>2, <2>3, <2>4, PutKeepsPaths
  <2>6. Places' = Places /\ \A m, h : Probe(h, m)' = Probe(h, m)
    BY DEF Places, Probe, array_size
  <2>7. \A q : ~Passed(0, q)
    BY DEF Passed
  <2> QED
    BY <2>5, <2>6, <2>7 DEF Paths, PathTo, Populated, g
<1> QED
  BY <1>2, <1>3

LEMMA EmptyPaths ==
  ASSUME NEW n \in Nat, elements' = EmptyArray(n)
  PROVE  Paths(elements, 0)'
BY EmptyArrays DEF Paths, Populated

\* A deletion starts with an empty place somewhere ahead.
LEMMA DeletePaths ==
  ASSUME HashInv, NEW k \in Keys, Delete(k)
  PROVE  Deleting'
<1>1. /\ pc = "idle" /\ i' = 0 /\ key' = k
      /\ UNCHANGED <<elements, table_size_index>> /\ RoomInv /\ Paths(elements, 0)
  BY DEF Delete, HashInv
<1>2. array_size' = array_size /\ Places' = Places /\ \A n, h : Probe(h, n)' = Probe(h, n)
  BY <1>1 DEF Places, Probe, array_size
<1>3. Paths(elements, i)'
  <2>1. (\A q : ~Passed(0, q)) /\ (\A q : ~Passed(i, q)')
    BY <1>1 DEF Passed
  <2> QED
    BY <2>1, <1>1, <1>2 DEF Paths, PathTo, Populated
<1>4. \E l \in i' .. array_size' - 1 : Turn(l)' \notin Populated(elements)'
  <2>1. elements \in [0 .. array_size - 1 -> Cell] /\ array_size \in Nat /\ array_size > 0
        /\ Cardinality(Populated(elements)) < array_size
    BY <1>1, HasEmptyPlace, ArraySize DEF RoomInv, HashTypes, Places
  <2>2. PICK q \in 0 .. array_size - 1 : elements[q].hashvalue = 0
    BY <2>1, PopulatedFinite
  <2>3. q \in Places /\ q \notin Populated(elements)
    BY <2>2 DEF Places, Populated
  <2> DEFINE h == Hash(k)
  <2>4. h \in Nat
    BY HashType
  <2> HIDE DEF h
  <2>5. PICK l \in Places : Probe(h, l) = q
    BY <2>1, <2>3, <2>4, ProbeReaches
  <2>6. Turn(l)' = Probe(h, l)
    BY <1>1, <1>2 DEF Turn, h
  <2>7. l \in i' .. array_size' - 1
    BY <1>1, <1>2 DEF Places
  <2> QED
    BY <2>3, <2>5, <2>6, <2>7, <1>1 DEF Populated
<1> QED
  BY <1>1, <1>3, <1>4 DEF Deleting

\* A deletion that ends has met the empty place: nothing is ahead of it.
LEMMA DeletedPaths ==
  ASSUME NoWrap, HashInv, Deleted
  PROVE  Paths(elements, 0)'
<1>1. /\ pc = "delete" /\ HashTypes /\ Deleting
      /\ i = array_size \/ elements[DeletePlace].hashvalue = 0
      /\ elements' = elements /\ table_size_index' = table_size_index
  BY DEF Deleted, HashInv, RoomInv
<1>2. PICK l \in i .. array_size - 1 : Turn(l) \notin Populated(elements)
  BY <1>1 DEF Deleting
<1>3. i \in Places /\ key \in Keys /\ i # array_size
  BY <1>1, <1>2, ArraySize DEF HashTypes, Places
<1>4. Turn(i) \notin Populated(elements)
  BY <1>1, <1>3, DeletePlaceIsTurn DEF Populated
<1>5. \A p : ~Ahead(elements, i, p)
  <2> SUFFICES ASSUME NEW p, NEW j \in i .. array_size - 1,
                      \A k \in i .. j : Turn(k) \in Populated(elements)
               PROVE  FALSE
    BY DEF Ahead
  <2>1. i \in i .. j
    BY <1>3, ArraySize DEF Places
  <2> QED
    BY <2>1, <1>4
<1>6. Paths(elements, 0)
  BY <1>1, <1>5 DEF Deleting, Paths, PathTo
<1> QED
  BY <1>1, <1>6, SamePaths

LEMMA InsertPaths ==
  ASSUME HashInv, NEW k \in Keys, NEW d \in Data, Insert(k, d)
  PROVE  pc' # "delete" /\ Paths(elements, 0)'
<1>1. CASE InsertNow(k, d)
  BY <1>1, StoredPaths DEF InsertNow, StoreAndReturn, callVars, HashInv
<1>2. CASE InsertFails(k, d)
  BY <1>2, SamePaths DEF InsertFails, callVars, HashInv, RoomInv
<1>3. CASE Grow(k, d)
  <2>1. table_size_index + 1 \in 1 .. Len(Sizes)
    BY <1>3, SizesAssumption DEF Grow, HashInv, RoomInv, HashTypes
  <2> DEFINE n == Sizes[table_size_index + 1]
  <2>2. n \in Nat
    BY <2>1, SizesAssumption
  <2>3. elements' = EmptyArray(n) /\ pc' = "rehash"
    BY <1>3 DEF Grow
  <2> HIDE DEF n
  <2> QED
    BY <2>2, <2>3, EmptyPaths
<1> QED
  BY <1>1, <1>2, <1>3 DEF Insert

LEMMA LookupPaths ==
  ASSUME HashInv, NEW answer, Lookup(answer)
  PROVE  pc' # "delete" /\ Paths(elements, 0)'
BY SamePaths DEF Lookup, callVars, HashInv, RoomInv

LEMMA RehashPaths ==
  ASSUME HashInv, Rehash
  PROVE  pc' # "delete" /\ Paths(elements, 0)'
<1>1. /\ pc = "rehash" /\ pc' = pc /\ i \in DOMAIN old /\ table_size_index' = table_size_index
      /\ RoomInv /\ Paths(elements, 0)
      /\ \/ old[i].hashvalue # 0 /\ Store(old[i].key, old[i].data)
         \/ elements' = elements
  BY DEF Rehash, HashInv
<1>2. CASE elements' = elements
  BY <1>1, <1>2, SamePaths DEF RoomInv
<1>3. CASE old[i].hashvalue # 0 /\ Store(old[i].key, old[i].data)
  <2>1. old[i] \in Cell
    BY <1>1 DEF RoomInv, Growing
  <2> DEFINE k == old[i].key
  <2> DEFINE d == old[i].data
  <2>2. k \in Keys /\ d \in Data /\ Store(k, d)
    BY <1>3, <2>1, EmptyCell
  <2> HIDE DEF k, d
  <2> QED
    BY <2>2, <1>1, StoredPaths
<1> QED
  BY <1>1, <1>2, <1>3

LEMMA RehashedPaths ==
  ASSUME HashInv, Rehashed
  PROVE  pc' # "delete" /\ Paths(elements, 0)'
<1>1. /\ pc = "rehash" /\ pc' = "idle" /\ Store(key, data) /\ table_size_index' = table_size_index
      /\ RoomInv /\ Paths(elements, 0) /\ key \in Keys /\ data \in Data
  BY DEF Rehashed, StoreAndReturn, HashInv, RoomInv, HashTypes
<1> QED
  BY <1>1, StoredPaths

LEMMA OtherPaths ==
  ASSUME HashInv, Destroy \/ Generate
  PROVE  pc' # "delete" /\ Paths(elements, 0)'
<1>1. CASE Destroy
  <2>1. array_size \in Nat
    BY ArraySize DEF HashInv, RoomInv
  <2> QED
    BY <1>1, <2>1, EmptyPaths DEF Destroy
<1>2. CASE Generate
  <2> DEFINE n == Sizes[1]
  <2>1. n \in Nat
    BY SizesAssumption
  <2>2. elements' = EmptyArray(n) /\ pc' = "idle"
    BY <1>2 DEF Generate
  <2> HIDE DEF n
  <2> QED
    BY <2>1, <2>2, EmptyPaths
<1> QED
  BY <1>1, <1>2

LEMMA InitHash == Init => HashInv
<1> SUFFICES ASSUME Init PROVE HashInv
  OBVIOUS
<1> DEFINE n == Sizes[1]
<1>1. n \in Nat
  BY SizesAssumption
<1>2. elements = EmptyArray(n) /\ pc = "idle"
  BY DEF Init
<1> HIDE DEF n
<1>3. Populated(elements) = {}
  BY <1>1, <1>2, EmptyArrays
<1> QED
  BY <1>2, <1>3, InitRoom DEF HashInv, Deleting, Paths

LEMMA NextHash == NoWrap /\ HashInv /\ [Next]_vars => HashInv'
<1> SUFFICES ASSUME NoWrap, HashInv, [Next]_vars PROVE HashInv'
  OBVIOUS
<1>1. RoomInv'
  BY NextRoom DEF HashInv
<1>2. ASSUME pc' # "delete" /\ Paths(elements, 0)' PROVE HashInv'
  BY <1>1, <1>2 DEF HashInv, Deleting
<1>3. ASSUME pc' = "delete", Deleting' PROVE HashInv'
  BY <1>1, <1>3 DEF HashInv
<1>4. ASSUME NEW k \in Keys, NEW d \in Data, Insert(k, d) PROVE HashInv'
  BY <1>2, <1>4, InsertPaths
<1>5. ASSUME NEW k \in Keys, Get(k) \/ GetMultiple(k) PROVE HashInv'
  BY <1>2, <1>5, LookupPaths DEF Get, GetMultiple
<1>6. ASSUME NEW k \in Keys, Index(k) PROVE HashInv'
  <2>1. CASE Get(k)
    BY <2>1, <1>5
  <2>2. CASE Insert(k, NoData)
    BY <2>2, <1>4, HashAssumption
  <2> QED
    BY <1>6, <2>1, <2>2 DEF Index
<1>7. ASSUME NEW k \in Keys, Delete(k) PROVE HashInv'
  <2>1. pc' = "delete"
    BY <1>7 DEF Delete
  <2> QED
    BY <2>1, <1>3, <1>7, DeletePaths
<1>8. CASE DeleteStep
  <2>1. pc' = "delete"
    BY <1>8 DEF DeleteStep
  <2> QED
    BY <2>1, <1>3, <1>8, DeleteStepPaths
<1>9. CASE Deleted
  <2>1. pc' = "idle"
    BY <1>9 DEF Deleted
  <2> QED
    BY <2>1, <1>2, <1>9, DeletedPaths
<1>10. CASE Rehash
  BY <1>2, <1>10, RehashPaths
<1>11. CASE Rehashed
  BY <1>2, <1>11, RehashedPaths
<1>12. CASE Destroy \/ Generate
  BY <1>2, <1>12, OtherPaths
<1>13. CASE UNCHANGED vars
  <2>1. elements' = elements /\ table_size_index' = table_size_index /\ i' = i /\ key' = key /\ pc' = pc
    BY <1>13 DEF vars
  <2>2. Places' = Places /\ array_size' = array_size /\ (\A n, h : Probe(h, n)' = Probe(h, n))
        /\ \A j : Turn(j)' = Turn(j)
    BY <2>1 DEF Places, Probe, array_size, Turn
  <2>3. \A a, p : PathTo(elements, a, p)' <=> PathTo(elements, a, p)
    BY <2>1, <2>2 DEF PathTo, Passed, Ahead, Populated
  <2>4. \A a : Paths(elements, a)' <=> Paths(elements, a)
    BY <2>1, <2>3 DEF Paths, Populated
  <2>5. Deleting'
    BY <2>1, <2>2, <2>4 DEF HashInv, Deleting, Populated
  <2> QED
    BY <1>1, <2>1, <2>4, <2>5 DEF HashInv
<1> QED
  BY <1>4, <1>5, <1>6, <1>7, <1>8, <1>9, <1>10, <1>11, <1>12, <1>13 DEF Next

LEMMA HashAlwaysHolds ==
  ASSUME NoWrap
  PROVE  Spec => []HashInv
<1>1. HashInv /\ [Next]_vars => HashInv'
  BY NextHash
<1> QED
  BY <1>1, InitHash, PTL DEF Spec

\* Where no sum wraps, every element is found from its hash between any two
\* calls: deletion closes every gap that it opens, at the end of the array too
\* (cnhash.h:271-311).
THEOREM NothingEverHidden ==
  ASSUME NoWrap
  PROVE  Spec => []NothingHidden
<1>1. Spec => []HashInv
  BY HashAlwaysHolds
<1>2. HashInv => NothingHidden
  <2> SUFFICES ASSUME HashInv, pc = "idle", NEW p \in Populated(elements)
               PROVE  \E n \in Places : /\ Probe(elements[p].hashvalue, n) = p
                                        /\ RunsTo(elements, elements[p].hashvalue, n)
    BY DEF NothingHidden
  <2>1. PathTo(elements, 0, p) /\ HashTypes
    BY DEF HashInv, RoomInv, Paths
  <2> QED
    BY <2>1, NothingPassed
<1> QED
  BY <1>1, <1>2, PTL

\* A deletion that meets an empty element has taken everything of the key.
LEMMA RightWhenEmpty == NoWrap /\ HashInv => AllRight
<1> SUFFICES ASSUME NoWrap, HashInv, pc = "delete", i < array_size, elements[DeletePlace].hashvalue = 0,
                    NEW p \in Places, elements[p].key = key
             PROVE  FALSE
  BY DEF AllRight
<1>1. HashTypes /\ Deleting /\ key \in Keys /\ i \in Nat /\ i \in Places
      /\ elements \in [Places -> Cell]
  <2>1. HashTypes /\ Deleting
    BY DEF HashInv, RoomInv
  <2>2. key \in Keys /\ i \in Nat /\ elements \in [Places -> Cell]
    BY <2>1 DEF HashTypes
  <2> QED
    BY <2>1, <2>2, ArraySize DEF Places
<1>2. Turn(i) \notin Populated(elements)
  BY <1>1, DeletePlaceIsTurn DEF Populated
<1>3. elements[p].hashvalue = Hash(key) /\ p \in Populated(elements)
  BY <1>1, EmptyCell, HashType DEF Populated
<1>4. PICK n \in Places : /\ Turn(n) = p
                          /\ \A m \in 0 .. n - 1 : Turn(m) \in Populated(elements) \/ Ahead(elements, i, p)
  BY <1>1, <1>3 DEF Deleting, Paths, PathTo, Turn
<1>5. ~Ahead(elements, i, p)
  <2> SUFFICES ASSUME NEW j \in i .. array_size - 1,
                      \A l \in i .. j : Turn(l) \in Populated(elements)
               PROVE  FALSE
    BY DEF Ahead
  <2>1. i \in i .. j
    BY <1>1, ArraySize DEF Places
  <2> QED
    BY <2>1, <1>2
<1>6. n # i
  BY <1>2, <1>3, <1>4
<1>7. CASE n < i
  <2>1. n \in 0 .. i - 1
    BY <1>1, <1>7, ArraySize DEF Places
  <2> QED
    BY <2>1, <1>1, <1>4 DEF Deleting
<1>8. CASE n > i
  <2>1. i \in 0 .. n - 1
    BY <1>1, <1>8, ArraySize DEF Places
  <2> QED
    BY <2>1, <1>2, <1>4, <1>5
<1>9. n < i \/ n > i
  BY <1>1, <1>6, ArraySize DEF Places
<1> QED
  BY <1>7, <1>8, <1>9

\* Where no sum wraps, all is right in the world when a deletion meets an empty
\* element: none of the key is left (cnhash.h:280).  Without the hypothesis it is
\* false: see the run hash_wrap.
THEOREM AlwaysAllRight ==
  ASSUME NoWrap
  PROVE  Spec => []AllRight
<1>1. Spec => []HashInv
  BY HashAlwaysHolds
<1>2. HashInv => AllRight
  BY RightWhenEmpty
<1> QED
  BY <1>1, <1>2, PTL

-----------------------------------------------------------------------------
(* The table is a multimap                                                 *)

\* The places of array e with a pair, and those of array o from the j-th on
Held(e, k, d) == {p \in Populated(e) : e[p].key = k /\ e[p].data = d}
Left(o, j, k, d) == {p \in Populated(o) : p >= j /\ o[p].key = k /\ o[p].data = d}

Counts(e) == [kd \in Keys \X Data |-> Count(e, kd[1], kd[2])]

\* Contents, as a function of the state
ContentsOf(e, st, j, ky, o) ==
  [kd \in Keys \X Data |->
     CASE st = "none" -> 0
       [] st = "delete" /\ kd[1] = ky -> 0
       [] OTHER -> Cardinality(Held(e, kd[1], kd[2])) + Cardinality(Left(o, j, kd[1], kd[2]))]

LEMMA ContentsNow ==
  /\ Contents = ContentsOf(elements, pc, i, key, old)
  /\ Contents' = ContentsOf(elements', pc', i', key', old')
BY DEF Contents, ContentsOf, Count, Pending, Held, Left, Populated

\* Without duplicates a key is in the table once, counting what is yet to be
\* inserted again.
Once(e, o, j) ==
  /\ \A p, q \in Populated(e) : e[p].key = e[q].key => p = q
  /\ \A p \in Populated(e), q \in Populated(o) : q >= j => e[p].key # o[q].key
  /\ \A p, q \in Populated(o) : p >= j /\ q >= j /\ o[p].key = o[q].key => p = q

MapInv ==
  /\ HashInv
  /\ allow_duplicates \in BOOLEAN
  /\ pc # "rehash" => old = << >>
  /\ ~allow_duplicates => Once(elements, old, i)

\* Counting finds what is held.
LEMMA HeldCounts ==
  ASSUME NEW n \in Nat, NEW e \in [0 .. n - 1 -> Cell], NEW k, NEW d
  PROVE  /\ IsFiniteSet(Held(e, k, d)) /\ Cardinality(Held(e, k, d)) \in Nat
         /\ Cardinality(Held(e, k, d)) > 0 <=> \E p \in Populated(e) : e[p].key = k /\ e[p].data = d
<1>1. IsFiniteSet(Populated(e)) /\ Held(e, k, d) \in SUBSET Populated(e)
  BY PopulatedFinite DEF Held
<1>2. IsFiniteSet(Held(e, k, d)) /\ Cardinality(Held(e, k, d)) \in Nat
  BY <1>1, FS_Subset, FS_CardinalityType
<1>3. Cardinality(Held(e, k, d)) = 0 <=> Held(e, k, d) = {}
  BY <1>2, FS_EmptySet
<1>4. Held(e, k, d) = {} <=> ~\E p \in Populated(e) : e[p].key = k /\ e[p].data = d
  BY DEF Held
<1> QED
  BY <1>2, <1>3, <1>4

\* Probing for a key finds all that is held of it.
LEMMA FoundAll ==
  ASSUME HashTypes, Paths(elements, 0), NEW k \in Keys
  PROVE  /\ Found(k) = {n \in Places : /\ Probe(Hash(k), n) \in Populated(elements)
                                       /\ elements[Probe(Hash(k), n)].key = k}
         /\ Found(k) # {} <=> \E p \in Populated(elements) : elements[p].key = k
<1> DEFINE h == Hash(k)
<1>1. h \in Nat /\ h # 0 /\ elements \in [Places -> Cell]
      /\ array_size \in Nat /\ array_size > 0
  BY HashType, ArraySize DEF HashTypes
<1>2. \A p \in Populated(elements) : p \in Places /\ elements[p] \in Cell
  BY <1>1 DEF Populated
<1>3. \A p \in Populated(elements) : elements[p].key = k => elements[p].hashvalue = h
  BY <1>2, EmptyCell DEF Populated
<1>4. ASSUME NEW n \in Places, Probe(h, n) \in Populated(elements), elements[Probe(h, n)].key = k
      PROVE  RunsTo(elements, h, n)
  <2> DEFINE p == Probe(h, n)
  <2>1. elements[p].hashvalue = h
    BY <1>3, <1>4
  <2>2. PathTo(elements, 0, p)
    BY <1>4 DEF Paths
  <2>3. PICK m \in Places : Probe(h, m) = p /\ RunsTo(elements, h, m)
    BY <1>4, <2>1, <2>2, NothingPassed
  <2> HIDE DEF h
  <2>4. m = n
    BY <1>1, <2>3, ProbeOnce
  <2> QED
    BY <2>3, <2>4
<1>5. Found(k) = {n \in Places : Probe(h, n) \in Populated(elements) /\ elements[Probe(h, n)].key = k}
  <2>1. ASSUME NEW n \in Places
        PROVE  (/\ elements[Probe(h, n)].hashvalue = h
                /\ elements[Probe(h, n)].key = k
                /\ RunsTo(elements, h, n))
               <=> (Probe(h, n) \in Populated(elements) /\ elements[Probe(h, n)].key = k)
    <3>1. Probe(h, n) \in Places
      <4> HIDE DEF h
      <4> QED
        BY <1>1, ProbeAt
    <3>2. Probe(h, n) \in Populated(elements) <=> elements[Probe(h, n)].hashvalue # 0
      BY <3>1, <1>1 DEF Populated
    <3> QED
      BY <3>2, <1>1, <1>3, <1>4
  <2> QED
    BY <2>1 DEF Found
<1>6. \A p \in Places : \E n \in Places : Probe(h, n) = p
  <2> HIDE DEF h
  <2> QED
    BY <1>1, ProbeReaches
<1>7. Found(k) # {} <=> \E p \in Populated(elements) : elements[p].key = k
  BY <1>2, <1>5, <1>6
<1> QED
  BY <1>5, <1>7

\* The probes that find a pair are as many as the places that hold it.
LEMMA FoundAsOften ==
  ASSUME HashTypes, Paths(elements, 0), NEW k \in Keys, NEW d \in Data
  PROVE  Cardinality({n \in Found(k) : elements[Probe(Hash(k), n)].data = d}) = Count(elements, k, d)
<1> DEFINE h == Hash(k)
<1> DEFINE S == {n \in Found(k) : elements[Probe(h, n)].data = d}
<1> DEFINE T == Held(elements, k, d)
<1> DEFINE f == [n \in S |-> Probe(h, n)]
<1>1. h \in Nat /\ elements \in [Places -> Cell] /\ array_size \in Nat /\ array_size > 0
  BY HashType, ArraySize DEF HashTypes
<1>2. Found(k) = {n \in Places : Probe(h, n) \in Populated(elements) /\ elements[Probe(h, n)].key = k}
  BY FoundAll
<1> HIDE DEF h
<1>3. \A n \in S : n \in Places /\ Probe(h, n) \in T
  BY <1>2 DEF Held
<1>4. ASSUME NEW p \in T PROVE \E n \in S : Probe(h, n) = p
  <2>1. p \in Places /\ p \in Populated(elements) /\ elements[p].key = k /\ elements[p].data = d
    BY <1>1 DEF Held, Populated
  <2>2. PICK n \in Places : Probe(h, n) = p
    BY <1>1, <2>1, ProbeReaches
  <2> QED
    BY <1>2, <2>1, <2>2
<1>5. \A m, n \in S : Probe(h, m) = Probe(h, n) => m = n
  BY <1>1, <1>3, ProbeOnce
<1> HIDE DEF S, T
<1>6. f \in Bijection(S, T)
  BY <1>3, <1>4, <1>5, Fun_IsBij
<1>7. IsFiniteSet(T)
  BY <1>1, HeldCounts DEF T, Places
<1>8. ExistsBijection(T, S)
  BY <1>6, Fun_ExistsBij, Fun_ExistsBijSymmetric
<1>9. Cardinality(S) = Cardinality(T)
  BY <1>7, <1>8, FS_Bijection
<1> QED
  BY <1>9 DEF S, T, h, Held, Count

\* Array g is e with x at place p that was empty, f is e without what was at p.
Added(e, g, p, x) ==
  /\ p \notin Populated(e) /\ Populated(g) = Populated(e) \cup {p}
  /\ g[p] = x /\ \A q \in Populated(e) : g[q] = e[q]
  /\ \A k, d : Cardinality(Held(g, k, d)) =
                 Cardinality(Held(e, k, d)) + (IF x.key = k /\ x.data = d THEN 1 ELSE 0)

Taken(e, f, p) ==
  /\ p \in Populated(e) /\ Populated(f) = Populated(e) \ {p}
  /\ \A q \in Populated(f) : f[q] = e[q]
  /\ \A k, d : Cardinality(Held(e, k, d)) =
                 Cardinality(Held(f, k, d)) + (IF e[p].key = k /\ e[p].data = d THEN 1 ELSE 0)

LEMMA PutHeld ==
  ASSUME NEW n \in Nat, NEW e \in [0 .. n - 1 -> Cell], NEW p \in 0 .. n - 1, NEW x \in Cell,
         NEW g, x # Empty, p \notin Populated(e), Replaced(e, g, p, x)
  PROVE  Added(e, g, p, x)
<1>1. Populated(g) = Populated(e) \cup {p}
  BY OneMore
<1>2. g = [e EXCEPT ![p] = x]
  BY DEF Replaced
<1>3. g[p] = x /\ \A q \in Populated(e) : g[q] = e[q]
  BY <1>2 DEF Populated
<1>4. ASSUME NEW k, NEW d
      PROVE  Cardinality(Held(g, k, d)) =
               Cardinality(Held(e, k, d)) + (IF x.key = k /\ x.data = d THEN 1 ELSE 0)
  <2>1. IsFiniteSet(Held(e, k, d)) /\ Cardinality(Held(e, k, d)) \in Nat
    BY HeldCounts
  <2>2. CASE x.key = k /\ x.data = d
    <3>1. Held(g, k, d) = Held(e, k, d) \cup {p} /\ p \notin Held(e, k, d)
      BY <1>1, <1>3, <2>2 DEF Held
    <3>2. Cardinality(Held(e, k, d) \cup {p}) = Cardinality(Held(e, k, d)) + 1
      BY <3>1, <2>1, FS_AddElement
    <3> QED
      BY <2>2, <3>1, <3>2
  <2>3. CASE ~(x.key = k /\ x.data = d)
    <3>1. Held(g, k, d) = Held(e, k, d)
      BY <1>1, <1>3, <2>3 DEF Held
    <3> QED
      BY <2>1, <2>3, <3>1
  <2> QED
    BY <2>2, <2>3
<1> QED
  BY <1>1, <1>3, <1>4 DEF Added

LEMMA TakeHeld ==
  ASSUME NEW n \in Nat, NEW e \in [0 .. n - 1 -> Cell], NEW p \in 0 .. n - 1,
         NEW f, p \in Populated(e), Replaced(e, f, p, Empty)
  PROVE  Taken(e, f, p)
<1>1. Populated(f) = Populated(e) \ {p}
  BY OneLess
<1>2. f = [e EXCEPT ![p] = Empty]
  BY DEF Replaced
<1>3. \A q \in Populated(f) : f[q] = e[q]
  BY <1>1, <1>2 DEF Populated
<1>4. ASSUME NEW k, NEW d
      PROVE  Cardinality(Held(e, k, d)) =
               Cardinality(Held(f, k, d)) + (IF e[p].key = k /\ e[p].data = d THEN 1 ELSE 0)
  <2>1. IsFiniteSet(Held(e, k, d)) /\ Cardinality(Held(e, k, d)) \in Nat
    BY HeldCounts
  <2>2. CASE e[p].key = k /\ e[p].data = d
    <3>1. Held(f, k, d) = Held(e, k, d) \ {p} /\ p \in Held(e, k, d)
      BY <1>1, <1>3, <2>2 DEF Held
    <3>2. Cardinality(Held(e, k, d) \ {p}) = Cardinality(Held(e, k, d)) - 1
      BY <3>1, <2>1, FS_RemoveElement
    <3> QED
      BY <2>1, <2>2, <3>1, <3>2
  <2>3. CASE ~(e[p].key = k /\ e[p].data = d)
    <3>1. Held(f, k, d) = Held(e, k, d)
      BY <1>1, <1>3, <2>3 DEF Held
    <3> QED
      BY <2>1, <2>3, <3>1
  <2> QED
    BY <2>2, <2>3
<1> QED
  BY <1>1, <1>3, <1>4 DEF Taken

\* An insertion leaves what is there or puts its pair on one more place.
LEMMA StoreAdds ==
  ASSUME RoomInv, pc # "none", NEW k \in Keys, NEW d \in Data, Store(k, d)
  PROVE  \/ IsThere(k) /\ elements' = elements
         \/ ~IsThere(k) /\ \E p : Added(elements, elements', p, Pair(k, d))
<1> DEFINE x == Pair(k, d)
<1> DEFINE g == elements'
<1> DEFINE e == elements
<1> DEFINE s == array_size
<1>1. Stored(k, d)
  BY HasEmptyPlace, StoreStores DEF RoomInv
<1>2. s \in Nat /\ e \in [0 .. s - 1 -> Cell] /\ Places = 0 .. s - 1
  BY ArraySize DEF RoomInv, HashTypes, Places
<1>3. CASE IsThere(k)
  BY <1>1, <1>3 DEF Stored
<1>4. CASE ~IsThere(k)
  <2>1. PICK n \in Places : /\ g = [e EXCEPT ![Probe(Hash(k), n)] = x]
                            /\ e[Probe(Hash(k), n)].hashvalue = 0
                            /\ Probe(Hash(k), n) \in Places
    BY <1>1, <1>4 DEF Stored
  <2> DEFINE p == Probe(Hash(k), n)
  <2>2. p \in 0 .. s - 1 /\ p \notin Populated(e) /\ Replaced(e, g, p, x)
    BY <2>1, <1>2 DEF Populated, Replaced
  <2>3. x \in Cell /\ x # Empty
    BY PairCell, EmptyCell
  <2> HIDE DEF p, x, g, e, s
  <2>4. Added(e, g, p, x)
    BY <1>2, <2>2, <2>3, PutHeld
  <2>5. Added(elements, elements', p, Pair(k, d))
    BY <2>4 DEF e, g, x
  <2> QED
    BY <1>4, <2>5
<1> QED
  BY <1>3, <1>4

LEMMA NoOld == Populated(<< >>) = {}
BY DEF Populated

\* Between calls the map holds what the array holds.
LEMMA ContentsAreCounts ==
  ASSUME NEW n \in Nat, NEW e \in [0 .. n - 1 -> Cell], NEW st, st # "none", st # "delete",
         NEW j, NEW ky, NEW o, \A p \in Populated(o) : ~(p >= j)
  PROVE  ContentsOf(e, st, j, ky, o) = Counts(e)
<1>1. ASSUME NEW k, NEW d
      PROVE  Cardinality(Held(e, k, d)) + Cardinality(Left(o, j, k, d)) = Count(e, k, d)
  <2>1. Left(o, j, k, d) = {}
    BY DEF Left
  <2>2. Cardinality(Left(o, j, k, d)) = 0
    BY <2>1, FS_EmptySet
  <2>3. Cardinality(Held(e, k, d)) \in Nat
    BY HeldCounts
  <2>4. Count(e, k, d) = Cardinality(Held(e, k, d))
    BY DEF Count, Held
  <2> QED
    BY <2>2, <2>3, <2>4
<1> QED
  BY <1>1, Zenon DEF ContentsOf, Counts

LEMMA CountsAt ==
  ASSUME NEW n \in Nat, NEW e \in [0 .. n - 1 -> Cell], NEW k \in Keys
  PROVE  /\ \A d \in Data : /\ Counts(e)[<<k, d>>] = Cardinality(Held(e, k, d))
                            /\ Counts(e)[<<k, d>>] > 0 <=> \E p \in Populated(e) : e[p].key = k /\ e[p].data = d
         /\ (\E d \in Data : Counts(e)[<<k, d>>] > 0) <=> \E p \in Populated(e) : e[p].key = k
<1>1. ASSUME NEW d \in Data
      PROVE  /\ Counts(e)[<<k, d>>] = Cardinality(Held(e, k, d))
             /\ Counts(e)[<<k, d>>] > 0 <=> \E p \in Populated(e) : e[p].key = k /\ e[p].data = d
  <2>1. Counts(e)[<<k, d>>] = Cardinality(Held(e, k, d))
    BY DEF Counts, Count, Held
  <2> QED
    BY <2>1, HeldCounts
<1>2. \A p \in Populated(e) : e[p].data \in Data
  BY EmptyCell DEF Populated
<1> QED
  BY <1>1, <1>2

\* The first probe that finds a key finds a pair of it.
LEMMA FirstIsFound ==
  ASSUME HashTypes, Paths(elements, 0), NEW k \in Keys, Found(k) # {}
  PROVE  \E p \in Populated(elements) : elements[p].key = k /\ FirstFound(k) = elements[p]
<1>1. Found(k) \in SUBSET Nat
  BY ArraySize DEF Found, Places
<1>2. PICK m \in Found(k) : \A n \in Found(k) : m <= n
  BY <1>1, Least
<1>3. m \in First(Found(k))
  BY <1>2 DEF First
<1> DEFINE c == CHOOSE n \in First(Found(k)) : TRUE
<1>4. c \in First(Found(k))
  BY <1>3
<1> HIDE DEF c
<1>5. c \in Found(k)
  BY <1>4 DEF First
<1>6. FirstFound(k) = elements[Probe(Hash(k), c)]
  BY DEF FirstFound, c
<1> QED
  BY <1>5, <1>6, FoundAll

\* What an insertion does to the map: it puts the pair in or, without
\* duplicates, returns one that is there.
LEMMA PutOrGet ==
  ASSUME RoomInv, Paths(elements, 0), pc # "none", allow_duplicates \in BOOLEAN,
         NEW k \in Keys, NEW d \in Data, StoreAndReturn(k, d), elements' \in [0 .. array_size - 1 -> Cell],
         Contents = Counts(elements), Contents' = Counts(elements'), allow_duplicates' = allow_duplicates
  PROVE  Map!Get(k) \/ Map!Put(k, d)
<1> DEFINE s == array_size
<1>1. /\ s \in Nat /\ elements \in [0 .. s - 1 -> Cell] /\ HashTypes
      /\ elements' \in [0 .. s - 1 -> Cell]
  BY ArraySize DEF RoomInv, HashTypes, Places
<1>2. Store(k, d) /\ result' = One(IF IsThere(k) THEN FirstFound(k).data ELSE d)
  BY DEF StoreAndReturn
<1>3. \A x : Map!One(x) = One(x)
  BY DEF Map!One, One
<1> HIDE DEF s
<1>4. CASE IsThere(k) /\ elements' = elements
  <2>1. PICK p \in Populated(elements) : elements[p].key = k /\ FirstFound(k) = elements[p]
    BY <1>1, <1>4, FirstIsFound DEF IsThere
  <2> DEFINE d0 == elements[p].data
  <2>2. d0 \in Data
    BY <1>1, EmptyCell DEF Populated
  <2> HIDE DEF d0
  <2>3. Counts(elements)[<<k, d0>>] > 0
    <3>1. \E q \in Populated(elements) : elements[q].key = k /\ elements[q].data = d0
      BY <2>1 DEF d0
    <3> QED
      BY <3>1, <1>1, <2>2, CountsAt
  <2>4. result' = Map!One(d0)
    BY <1>2, <1>3, <1>4, <2>1 DEF d0
  <2>5. UNCHANGED <<Contents, allow_duplicates>>
    BY <1>4
  <2> QED
    BY <2>2, <2>3, <2>4, <2>5 DEF Map!Get
<1>5. CASE ~IsThere(k) /\ \E p : Added(elements, elements', p, Pair(k, d))
  <2>1. PICK p : Added(elements, elements', p, Pair(k, d))
    BY <1>5
  <2>2. allow_duplicates \/ ~Map!Has(k)
    <3> SUFFICES ASSUME ~allow_duplicates PROVE ~Map!Has(k)
      OBVIOUS
    <3>1. Found(k) = {}
      BY <1>5 DEF IsThere
    <3>2. ~\E q \in Populated(elements) : elements[q].key = k
      BY <1>1, <3>1, FoundAll
    <3> QED
      BY <1>1, <3>2, CountsAt DEF Map!Has
  <2>3. Contents' = [Contents EXCEPT ![<<k, d>>] = @ + 1]
    <3>1. ASSUME NEW k2 \in Keys, NEW d2 \in Data
          PROVE  Counts(elements')[<<k2, d2>>] =
                   IF <<k2, d2>> = <<k, d>> THEN Counts(elements)[<<k2, d2>>] + 1 ELSE Counts(elements)[<<k2, d2>>]
      <4>1. /\ Counts(elements')[<<k2, d2>>] = Cardinality(Held(elements', k2, d2))
            /\ Counts(elements)[<<k2, d2>>] = Cardinality(Held(elements, k2, d2))
        BY DEF Counts, Count, Held
      <4>2. Cardinality(Held(elements, k2, d2)) \in Nat
        BY <1>1, HeldCounts
      <4>3. Pair(k, d).key = k /\ Pair(k, d).data = d
        BY DEF Pair
      <4>4. Cardinality(Held(elements', k2, d2)) =
              Cardinality(Held(elements, k2, d2)) + (IF k = k2 /\ d = d2 THEN 1 ELSE 0)
        BY <2>1, <4>3 DEF Added
      <4>5. <<k2, d2>> = <<k, d>> <=> (k = k2 /\ d = d2)
        OBVIOUS
      <4> QED
        BY <4>1, <4>2, <4>4, <4>5
    <3> DEFINE f == Counts(elements)
    <3> DEFINE g == Counts(elements')
    <3>2. f = [x \in Keys \X Data |-> f[x]] /\ g = [x \in Keys \X Data |-> g[x]]
      BY DEF Counts
    <3> HIDE DEF f, g
    <3>3. \A x \in Keys \X Data : g[x] = IF x = <<k, d>> THEN f[x] + 1 ELSE f[x]
      BY <3>1 DEF f, g
    <3>4. g = [f EXCEPT ![<<k, d>>] = @ + 1]
      BY <3>2, <3>3
    <3> QED
      BY <3>4 DEF f, g
  <2>4. result' = Map!One(d)
    BY <1>2, <1>3, <1>5
  <2> QED
    BY <2>2, <2>3, <2>4 DEF Map!Put
<1> QED
  BY <1>2, <1>4, <1>5, StoreAdds
-----------------------------------------------------------------------------
(* Without duplicates a key is there once                                  *)

\* With nothing left to insert, only the array matters.
LEMMA OnceAlone ==
  ASSUME NEW e, NEW o, NEW j, Populated(o) = {},
         \A p, q \in Populated(e) : e[p].key = e[q].key => p = q
  PROVE  Once(e, o, j)
BY DEF Once

\* An insertion of what is not left in the old array keeps keys apart.
LEMMA StoreOnce ==
  ASSUME RoomInv, Paths(elements, 0), pc # "none", ~allow_duplicates, Once(elements, old, i),
         NEW k \in Keys, NEW d \in Data, Store(k, d), NEW o, NEW j,
         \A q \in Populated(o) : q >= j => q \in Populated(old) /\ q >= i /\ o[q] = old[q] /\ o[q].key # k
  PROVE  Once(elements', o, j)
<1>1. /\ \A p, q \in Populated(elements) : elements[p].key = elements[q].key => p = q
      /\ \A p \in Populated(elements), q \in Populated(old) : q >= i => elements[p].key # old[q].key
      /\ \A p, q \in Populated(old) : p >= i /\ q >= i /\ old[p].key = old[q].key => p = q
  BY DEF Once
<1>2. \A p, q \in Populated(o) : p >= j /\ q >= j /\ o[p].key = o[q].key => p = q
  BY <1>1
<1>3. CASE elements' = elements
  BY <1>1, <1>2, <1>3 DEF Once
<1>4. CASE ~IsThere(k) /\ \E p : Added(elements, elements', p, Pair(k, d))
  <2>1. \A q \in Populated(elements) : elements[q].key # k
    BY <1>4, FoundAll DEF IsThere, RoomInv
  <2>2. PICK p : Added(elements, elements', p, Pair(k, d))
    BY <1>4
  <2>3. /\ Populated(elements') = Populated(elements) \cup {p}
        /\ elements'[p].key = k
        /\ \A q \in Populated(elements) : elements'[q] = elements[q]
    BY <2>2 DEF Added, Pair
  <2>4. \A q, r \in Populated(elements') : elements'[q].key = elements'[r].key => q = r
    BY <1>1, <2>1, <2>3
  <2>5. \A r \in Populated(elements'), q \in Populated(o) : q >= j => elements'[r].key # o[q].key
    BY <1>1, <2>3
  <2> QED
    BY <1>2, <2>4, <2>5 DEF Once
<1> QED
  BY <1>3, <1>4, StoreAdds

\* What a turn of the deletion takes out, and puts back if it is of another key
LEMMA DeleteStepTakes ==
  ASSUME HashTypes, DeleteStep
  PROVE  \E p, f : /\ Taken(elements, f, p)
                   /\ \/ elements[p].key = key /\ elements' = f
                      \/ elements[p].key # key /\ \E q : Added(f, elements', q, elements[p])
<1> DEFINE p == DeletePlace
<1> DEFINE x == elements[p]
<1> DEFINE f == [elements EXCEPT ![p] = Empty]
<1> DEFINE e == elements
<1> DEFINE s == array_size
<1>1. p \in Places /\ x.hashvalue # 0 /\ Reinserted(p)
  BY DeleteStepReinserts
<1>2. s \in Nat /\ e \in [0 .. s - 1 -> Cell] /\ Places = 0 .. s - 1
  BY ArraySize DEF HashTypes, Places
<1>3. \/ x.key = key /\ elements' = f
      \/ /\ x.key # key
         /\ \E n \in Places :
              /\ elements' = [f EXCEPT ![Probe(x.hashvalue, n)] = x]
              /\ f[Probe(x.hashvalue, n)].hashvalue = 0
              /\ Probe(x.hashvalue, n) \in Places
  BY <1>1 DEF Reinserted
<1> HIDE DEF p
<1>4. p \in Populated(e) /\ Replaced(e, f, p, Empty) /\ p \in 0 .. s - 1
  BY <1>1, <1>2 DEF Populated, Replaced
<1>5. x \in Cell /\ x # Empty
  BY <1>1, <1>2, EmptyCell
<1>6. f \in [0 .. s - 1 -> Cell]
  BY <1>2, EmptyCell
<1>7. Taken(e, f, p)
  <2> HIDE DEF e, f, s
  <2> QED
    BY <1>2, <1>4, TakeHeld
<1>8. CASE x.key = key /\ elements' = f
  BY <1>7, <1>8
<1>9. CASE x.key # key /\ \E n \in Places :
             /\ elements' = [f EXCEPT ![Probe(x.hashvalue, n)] = x]
             /\ f[Probe(x.hashvalue, n)].hashvalue = 0
             /\ Probe(x.hashvalue, n) \in Places
  <2>1. PICK n \in Places : /\ elements' = [f EXCEPT ![Probe(x.hashvalue, n)] = x]
                            /\ f[Probe(x.hashvalue, n)].hashvalue = 0
                            /\ Probe(x.hashvalue, n) \in Places
    BY <1>9
  <2> DEFINE q == Probe(x.hashvalue, n)
  <2> DEFINE g == elements'
  <2>2. Replaced(f, g, q, x) /\ q \in 0 .. s - 1 /\ q \notin Populated(f)
    BY <2>1, <1>2 DEF Replaced, Populated
  <2>3. Added(f, g, q, x)
    <3> HIDE DEF f, g, q, x, s
    <3> QED
      BY <2>2, <1>2, <1>5, <1>6, PutHeld
  <2>4. \E r : Added(f, elements', r, elements[p])
    BY <2>3
  <2> QED
    BY <1>7, <1>9, <2>4
<1> QED
  BY <1>3, <1>8, <1>9

LEMMA DeleteStepOnce ==
  ASSUME HashTypes, DeleteStep, \A p, q \in Populated(elements) : elements[p].key = elements[q].key => p = q
  PROVE  \A p, q \in Populated(elements') : elements'[p].key = elements'[q].key => p = q
<1>1. PICK p, f : /\ Taken(elements, f, p)
                  /\ \/ elements[p].key = key /\ elements' = f
                     \/ elements[p].key # key /\ \E q : Added(f, elements', q, elements[p])
  BY DeleteStepTakes
<1>2. /\ p \in Populated(elements) /\ Populated(f) = Populated(elements) \ {p}
      /\ \A q \in Populated(f) : f[q] = elements[q]
  BY <1>1 DEF Taken
<1>3. CASE elements' = f
  BY <1>2, <1>3
<1>4. CASE \E q : Added(f, elements', q, elements[p])
  <2>1. PICK r : /\ Populated(elements') = Populated(f) \cup {r}
                 /\ elements'[r] = elements[p]
                 /\ \A q \in Populated(f) : elements'[q] = f[q]
    BY <1>4 DEF Added
  <2> QED
    BY <1>2, <2>1
<1> QED
  BY <1>1, <1>3, <1>4

LEMMA OldIsCells ==
  ASSUME RoomInv, pc = "rehash"
  PROVE  \E n \in Nat : old \in [0 .. n - 1 -> Cell]
<1> DEFINE n == Sizes[table_size_index - 1]
<1>1. old \in [0 .. n - 1 -> Cell]
  BY DEF RoomInv, Growing
<1>2. n \in Nat
  BY SizesAssumption DEF RoomInv, HashTypes, Growing
<1> HIDE DEF n
<1> QED
  BY <1>1, <1>2

\* The element that a growth inserts again
LEMMA OldElement ==
  ASSUME RoomInv, Rehash
  PROVE  /\ pc = "rehash" /\ i \in DOMAIN old
         /\ \A q \in Populated(old) : q \in Int
         /\ i \in Int /\ i' = i + 1 /\ old' = old
         /\ \/ /\ i \in Populated(old) /\ old[i].key \in Keys /\ old[i].data \in Data
               /\ Store(old[i].key, old[i].data)
            \/ i \notin Populated(old) /\ elements' = elements
<1>1. /\ pc = "rehash" /\ i \in DOMAIN old /\ i \in Nat /\ i' = i + 1 /\ old' = old
      /\ \/ old[i].hashvalue # 0 /\ Store(old[i].key, old[i].data)
         \/ old[i].hashvalue = 0 /\ elements' = elements
  BY DEF Rehash, RoomInv, HashTypes
<1>2. PICK n \in Nat : old \in [0 .. n - 1 -> Cell]
  BY <1>1, OldIsCells
<1>3. \A q \in Populated(old) : q \in Int
  BY <1>2 DEF Populated
<1>4. CASE old[i].hashvalue # 0 /\ Store(old[i].key, old[i].data)
  <2>1. i \in Populated(old) /\ old[i] \in Cell
    BY <1>1, <1>2, <1>4 DEF Populated
  <2> QED
    BY <1>1, <1>3, <1>4, <2>1, EmptyCell
<1>5. CASE old[i].hashvalue = 0 /\ elements' = elements
  BY <1>1, <1>3, <1>5 DEF Populated
<1> QED
  BY <1>1, <1>4, <1>5

LEMMA InsertMap ==
  ASSUME MapInv, HashInv', NEW k \in Keys, NEW d \in Data, Insert(k, d)
  PROVE  MapInv'
<1>1. /\ pc = "idle" /\ old = << >> /\ allow_duplicates' = allow_duplicates
      /\ RoomInv /\ Paths(elements, 0) /\ allow_duplicates \in BOOLEAN
      /\ ~allow_duplicates => Once(elements, old, i)
  BY DEF MapInv, HashInv, Insert, InsertNow, InsertFails, Grow
<1>2. Populated(old) = {}
  BY <1>1, NoOld
<1>3. CASE InsertNow(k, d)
  <2>1. Store(k, d) /\ UNCHANGED <<pc, i, old>>
    BY <1>3 DEF InsertNow, StoreAndReturn, callVars
  <2>2. ~allow_duplicates => Once(elements', old, i)
    BY <1>1, <1>2, <2>1, StoreOnce
  <2> QED
    BY <1>1, <2>1, <2>2 DEF MapInv
<1>4. CASE InsertFails(k, d)
  BY <1>4 DEF InsertFails, callVars, MapInv
<1>5. CASE Grow(k, d)
  <2> DEFINE n == Sizes[table_size_index + 1]
  <2>1. elements' = EmptyArray(n) /\ old' = elements /\ pc' = "rehash" /\ i' = 0
    BY <1>5 DEF Grow
  <2>2. n \in Nat
    BY <1>1, <1>5, SizesAssumption DEF Grow, RoomInv, HashTypes
  <2> HIDE DEF n
  <2>3. Populated(elements') = {}
    BY <2>1, <2>2, EmptyArrays
  <2>4. Once(elements, old, i) => Once(elements', elements, 0)
    BY <2>3 DEF Once
  <2> QED
    BY <1>1, <2>1, <2>4 DEF MapInv
<1> QED
  BY <1>3, <1>4, <1>5 DEF Insert

LEMMA GrowthMap ==
  ASSUME MapInv, HashInv', Rehash \/ Rehashed
  PROVE  MapInv'
<1>1. /\ RoomInv /\ Paths(elements, 0) /\ allow_duplicates \in BOOLEAN
      /\ ~allow_duplicates => Once(elements, old, i)
      /\ pc = "rehash" /\ allow_duplicates' = allow_duplicates
  BY DEF MapInv, HashInv, Rehash, Rehashed
<1>2. CASE Rehash
  <2>1. /\ i \in DOMAIN old /\ i \in Int /\ i' = i + 1 /\ old' = old
        /\ \A q \in Populated(old) : q \in Int
        /\ \/ /\ i \in Populated(old) /\ old[i].key \in Keys /\ old[i].data \in Data
              /\ Store(old[i].key, old[i].data)
           \/ i \notin Populated(old) /\ elements' = elements
    BY <1>1, <1>2, OldElement
  <2>2. pc' = "rehash"
    BY <1>2 DEF Rehash
  <2>3. ~allow_duplicates => Once(elements', old, i')
    <3> SUFFICES ASSUME ~allow_duplicates PROVE Once(elements', old, i')
      OBVIOUS
    <3> DEFINE j == i + 1
    <3>1. \A q \in Populated(old) : q >= j => q >= i
      BY <2>1
    <3>2. CASE elements' = elements
      <4>1. Once(elements, old, j)
        <5> HIDE DEF j
        <5> QED
          BY <1>1, <3>1 DEF Once
      <4> QED
        BY <2>1, <3>2, <4>1
    <3>3. CASE i \in Populated(old) /\ old[i].key \in Keys /\ old[i].data \in Data
               /\ Store(old[i].key, old[i].data)
      <4> DEFINE k == old[i].key
      <4> DEFINE d == old[i].data
      <4>1. \A p, q \in Populated(old) : p >= i /\ q >= i /\ old[p].key = old[q].key => p = q
        BY <1>1 DEF Once
      <4>2. \A q \in Populated(old) : q >= j => old[q].key # k
        BY <2>1, <3>1, <3>3, <4>1
      <4>3. k \in Keys /\ d \in Data /\ Store(k, d)
        BY <3>3
      <4> HIDE DEF k, d, j
      <4>4. Once(elements', old, j)
        BY <1>1, <3>1, <4>2, <4>3, StoreOnce
      <4> QED
        BY <2>1, <4>4 DEF j
    <3> QED
      BY <2>1, <3>2, <3>3
  <2> QED
    BY <1>1, <2>1, <2>2, <2>3 DEF MapInv
<1>3. CASE Rehashed
  <2>1. Store(key, data) /\ key \in Keys /\ data \in Data /\ old' = << >> /\ pc' = "idle"
    BY <1>1, <1>3 DEF Rehashed, StoreAndReturn, RoomInv, HashTypes
  <2>2. ~allow_duplicates => Once(elements', << >>, i')
    <3> DEFINE j == i'
    <3> DEFINE o == << >>
    <3>1. Populated(o) = {}
      BY NoOld
    <3> HIDE DEF j, o
    <3>2. ~allow_duplicates => Once(elements', o, j)
      BY <1>1, <2>1, <3>1, StoreOnce
    <3> QED
      BY <3>2 DEF j, o
  <2> QED
    BY <1>1, <2>1, <2>2 DEF MapInv
<1> QED
  BY <1>2, <1>3

\* Where the array and what is left of the old one stay
LEMMA OtherMap ==
  ASSUME MapInv, HashInv', pc # "rehash", pc' # "rehash", old' = old,
         \/ allow_duplicates' = allow_duplicates /\ elements' = elements
         \/ allow_duplicates' = allow_duplicates /\ DeleteStep
         \/ allow_duplicates' \in BOOLEAN /\ Populated(elements') = {}
  PROVE  MapInv'
<1>1. /\ old = << >> /\ allow_duplicates \in BOOLEAN /\ HashTypes
      /\ ~allow_duplicates => Once(elements, old, i)
  BY DEF MapInv, HashInv, RoomInv
<1>2. ~allow_duplicates => \A p, q \in Populated(elements) : elements[p].key = elements[q].key => p = q
  BY <1>1 DEF Once
<1>3. Populated(old) = {}
  BY <1>1, NoOld
<1>4. ~allow_duplicates' => \A p, q \in Populated(elements') : elements'[p].key = elements'[q].key => p = q
  BY <1>1, <1>2, DeleteStepOnce
<1>5. ~allow_duplicates' => Once(elements', old, i')
  <2> DEFINE j == i'
  <2> DEFINE g == elements'
  <2>1. ~allow_duplicates' => \A p, q \in Populated(g) : g[p].key = g[q].key => p = q
    BY <1>4
  <2> HIDE DEF j, g
  <2>2. ~allow_duplicates' => Once(g, old, j)
    BY <1>3, <2>1, OnceAlone
  <2> QED
    BY <2>2 DEF g, j
<1> QED
  BY <1>1, <1>5 DEF MapInv

LEMMA InitMap == Init => MapInv
<1> SUFFICES ASSUME Init PROVE MapInv
  OBVIOUS
<1> DEFINE n == Sizes[1]
<1>1. n \in Nat
  BY SizesAssumption
<1>2. elements = EmptyArray(n) /\ old = << >> /\ allow_duplicates \in BOOLEAN
  BY DEF Init
<1> HIDE DEF n
<1>3. Populated(elements) = {}
  BY <1>1, <1>2, EmptyArrays
<1>4. Once(elements, old, i)
  BY <1>2, <1>3, NoOld, OnceAlone
<1> QED
  BY <1>2, <1>4, InitHash DEF MapInv

LEMMA NextMap == NoWrap /\ MapInv /\ [Next]_vars => MapInv'
<1> SUFFICES ASSUME NoWrap, MapInv, [Next]_vars PROVE MapInv'
  OBVIOUS
<1>0. HashInv' /\ RoomInv
  BY NextHash DEF MapInv, HashInv
<1>1. ASSUME NEW k \in Keys, NEW d \in Data, Insert(k, d) PROVE MapInv'
  BY <1>0, <1>1, InsertMap
<1>2. ASSUME NEW answer, Lookup(answer) PROVE MapInv'
  BY <1>0, <1>2, OtherMap DEF Lookup, callVars
<1>3. ASSUME NEW k \in Keys, Get(k) \/ GetMultiple(k) PROVE MapInv'
  BY <1>2, <1>3 DEF Get, GetMultiple
<1>4. ASSUME NEW k \in Keys, Index(k) PROVE MapInv'
  <2>1. CASE Get(k)
    BY <2>1, <1>3
  <2>2. CASE Insert(k, NoData)
    BY <2>2, <1>1, HashAssumption
  <2> QED
    BY <1>4, <2>1, <2>2 DEF Index
<1>5. ASSUME NEW k \in Keys, Delete(k) PROVE MapInv'
  BY <1>0, <1>5, OtherMap DEF Delete
<1>6. CASE Rehash \/ Rehashed
  BY <1>0, <1>6, GrowthMap
<1>7. CASE DeleteStep
  <2>1. pc = "delete" /\ pc' = pc /\ old' = old /\ allow_duplicates' = allow_duplicates
    BY <1>7 DEF DeleteStep
  <2> QED
    BY <1>0, <1>7, <2>1, OtherMap
<1>8. CASE Deleted
  BY <1>0, <1>8, OtherMap DEF Deleted
<1>9. CASE Destroy
  <2>1. pc = "idle" /\ pc' = "none" /\ old' = old /\ allow_duplicates' = allow_duplicates
    BY <1>9 DEF Destroy
  <2>2. elements' = EmptyArray(array_size) /\ array_size \in Nat
    BY <1>0, <1>9, ArraySize DEF Destroy, RoomInv
  <2>3. Populated(elements') = {}
    BY <2>2, EmptyArrays
  <2>4. allow_duplicates \in BOOLEAN
    BY DEF MapInv
  <2> QED
    BY <1>0, <2>1, <2>3, <2>4, OtherMap
<1>10. CASE Generate
  <2> DEFINE n == Sizes[1]
  <2>1. /\ pc = "none" /\ pc' = "idle" /\ old' = old /\ allow_duplicates' \in BOOLEAN
        /\ elements' = EmptyArray(n)
    BY <1>10 DEF Generate
  <2>2. n \in Nat
    BY SizesAssumption
  <2> HIDE DEF n
  <2>3. Populated(elements') = {}
    BY <2>1, <2>2, EmptyArrays
  <2> QED
    BY <1>0, <2>1, <2>3, OtherMap
<1>11. CASE UNCHANGED vars
  BY <1>0, <1>11 DEF vars, MapInv
<1> QED
  BY <1>1, <1>3, <1>4, <1>5, <1>6, <1>7, <1>8, <1>9, <1>10, <1>11 DEF Next

-----------------------------------------------------------------------------
(* How full the map is                                                     *)

\* A bijection counts the places of one pair.
LEMMA HeldNumbered ==
  ASSUME NEW n \in Nat, NEW e \in [0 .. n - 1 -> Cell], NEW k, NEW d
  PROVE  \E f \in [1 .. Cardinality(Held(e, k, d)) -> Held(e, k, d)] :
           /\ \A a, b \in 1 .. Cardinality(Held(e, k, d)) : f[a] = f[b] => a = b
           /\ \A p \in Held(e, k, d) : \E a \in 1 .. Cardinality(Held(e, k, d)) : f[a] = p
<1> DEFINE T == Held(e, k, d)
<1> DEFINE S == 1 .. Cardinality(T)
<1>1. IsFiniteSet(T)
  BY HeldCounts
<1> HIDE DEF T
<1>2. ExistsBijection(S, T)
  BY <1>1, FS_CardinalityType
<1> HIDE DEF S
<1>3. PICK f \in Bijection(S, T) : TRUE
  BY <1>2, Fun_ExistsBij
<1>4. /\ f \in [S -> T] /\ \A a, b \in S : f[a] = f[b] => a = b
      /\ \A p \in T : \E a \in S : f[a] = p
  BY <1>3, Fun_BijectionProperties
<1> QED
  BY <1>4 DEF S, T

\* The map has as many copies as the array has populated places.
LEMMA SizeIsPopulated ==
  ASSUME NEW n \in Nat, NEW e \in [0 .. n - 1 -> Cell], Contents = Counts(e)
  PROVE  Map!Size = Cardinality(Populated(e))
<1> DEFINE KD == Keys \X Data
<1> DEFINE H(x) == Held(e, x[1], x[2])
<1> DEFINE C(x) == Cardinality(H(x))
<1> DEFINE Numbers(x, f) ==
      /\ f \in [1 .. C(x) -> H(x)]
      /\ \A a, b \in 1 .. C(x) : f[a] = f[b] => a = b
      /\ \A p \in H(x) : \E a \in 1 .. C(x) : f[a] = p
<1> DEFINE N(x) == CHOOSE f : Numbers(x, f)
<1>1. ASSUME NEW x PROVE Numbers(x, N(x))
  <2>1. \E f : Numbers(x, f)
    BY HeldNumbered
  <2> HIDE DEF Numbers
  <2> QED
    BY <2>1
<1>2. ASSUME NEW x
      PROVE  /\ \A a \in 1 .. C(x) : N(x)[a] \in H(x)
             /\ \A a, b \in 1 .. C(x) : N(x)[a] = N(x)[b] => a = b
             /\ \A p \in H(x) : \E a \in 1 .. C(x) : N(x)[a] = p
  <2>1. Numbers(x, N(x))
    BY <1>1
  <2> HIDE DEF N, C, H
  <2> QED
    BY <2>1
<1> HIDE DEF N, Numbers
<1>3. \A x \in KD : Contents[x] = C(x)
  BY DEF Counts, Count, Held
<1>4. \A p \in Populated(e) : \E x \in KD : p \in H(x)
  <2> SUFFICES ASSUME NEW p \in Populated(e) PROVE \E x \in KD : p \in H(x)
    OBVIOUS
  <2>1. e[p].key \in Keys /\ e[p].data \in Data
    BY EmptyCell DEF Populated
  <2> DEFINE x == <<e[p].key, e[p].data>>
  <2>2. x \in KD /\ p \in H(x)
    BY <2>1 DEF Held
  <2> QED
    BY <2>2
<1>5. ASSUME NEW x \in KD, NEW y \in KD, NEW p \in H(x), p \in H(y) PROVE x = y
  <2>1. x = <<x[1], x[2]>> /\ y = <<y[1], y[2]>>
    OBVIOUS
  <2>2. x[1] = y[1] /\ x[2] = y[2]
    BY <1>5 DEF Held
  <2> QED
    BY <2>1, <2>2
<1>6. \A x : H(x) \subseteq Populated(e)
  BY DEF Held
<1> HIDE DEF H, KD
<1> DEFINE K == Map!Copies
<1> DEFINE P == Populated(e)
<1> DEFINE g == [c \in K |-> N(c[1])[c[2]]]
<1>7. K = UNION {{x} \X (1 .. C(x)) : x \in KD}
  <2>1. K = UNION {{x} \X (1 .. Contents[x]) : x \in KD}
    BY DEF Map!Copies, KD
  <2> HIDE DEF C
  <2>2. \A x \in KD : {x} \X (1 .. Contents[x]) = {x} \X (1 .. C(x))
    BY <1>3
  <2> HIDE DEF K
  <2> QED
    BY <2>1, <2>2
<1> HIDE DEF K, C
<1>8. \A c \in K : c[1] \in KD /\ c[2] \in 1 .. C(c[1]) /\ c = <<c[1], c[2]>>
  BY <1>7
<1>9. \A x \in KD : \A a \in 1 .. C(x) : <<x, a>> \in K
  <2> SUFFICES ASSUME NEW x \in KD, NEW a \in 1 .. C(x) PROVE <<x, a>> \in K
    OBVIOUS
  <2>1. <<x, a>> \in {x} \X (1 .. C(x))
    OBVIOUS
  <2> QED
    BY <1>7, <2>1
<1>10. \A c \in K : N(c[1])[c[2]] \in H(c[1]) /\ N(c[1])[c[2]] \in P
  BY <1>2, <1>6, <1>8
<1>11. \A a, b \in K : N(a[1])[a[2]] = N(b[1])[b[2]] => a = b
  <2> SUFFICES ASSUME NEW a \in K, NEW b \in K, N(a[1])[a[2]] = N(b[1])[b[2]] PROVE a = b
    OBVIOUS
  <2>1. a[1] = b[1]
    BY <1>5, <1>8, <1>10
  <2>2. a[2] = b[2]
    BY <1>2, <1>8, <2>1
  <2> QED
    BY <1>8, <2>1, <2>2
<1>12. \A p \in P : \E c \in K : N(c[1])[c[2]] = p
  <2> SUFFICES ASSUME NEW p \in P PROVE \E c \in K : N(c[1])[c[2]] = p
    OBVIOUS
  <2>1. PICK x \in KD : p \in H(x)
    BY <1>4
  <2>2. PICK a \in 1 .. C(x) : N(x)[a] = p
    BY <1>2, <2>1
  <2>3. <<x, a>> \in K /\ <<x, a>>[1] = x /\ <<x, a>>[2] = a
    BY <1>9
  <2> QED
    BY <2>2, <2>3
<1>13. IsFiniteSet(P)
  BY PopulatedFinite
<1> HIDE DEF P
<1>14. g \in [K -> P] /\ \A c \in K : g[c] = N(c[1])[c[2]]
  BY <1>10
<1>15. (\A a, b \in K : g[a] = g[b] => a = b) /\ \A p \in P : \E c \in K : g[c] = p
  BY <1>11, <1>12, <1>14
<1> HIDE DEF g
<1>16. g \in Bijection(K, P)
  BY <1>14, <1>15, Fun_IsBij
<1>17. ExistsBijection(P, K)
  BY <1>16, Fun_ExistsBij, Fun_ExistsBijSymmetric
<1>18. Cardinality(K) = Cardinality(P)
  BY <1>13, <1>17, FS_Bijection
<1> QED
  BY <1>18, Zenon DEF K, P, Map!Size, Map!Cardinality, Cardinality

\* Where an insertion fails the map is full.
LEMMA FullAtLast ==
  ASSUME RoomInv, pc # "none", TooSmall, table_size_index = Len(Sizes)
  PROVE  Cardinality(Populated(elements)) >= Capacity
<1> DEFINE l == Len(Sizes)
<1> DEFINE n == Cardinality(Populated(elements))
<1> DEFINE a == Sizes[l] \div 2
<1>1. l \in 1 .. Len(Sizes)
  BY SizesAssumption
<1>2. a \in Nat /\ CountedTwiceBy(l) \in Nat
  <2> HIDE DEF l
  <2> QED
    BY <1>1, SizeTypes, RoomIsInt
<1>3. n \in Nat /\ nr_elements \in Nat
  BY HasEmptyPlace DEF RoomInv, HashTypes
<1>4. nr_elements = n + CountedTwiceBy(l) /\ nr_elements + 1 > a
  BY DEF RoomInv, RoomLeft, CountedTwice, TooSmall, array_size
<1>5. Capacity = a - CountedTwiceBy(l)
  BY DEF Capacity, Room
<1> HIDE DEF l, n, a
<1>6. n >= Capacity
  BY <1>2, <1>3, <1>4, <1>5
<1> QED
  BY <1>6 DEF n

-----------------------------------------------------------------------------
(* Every step is a step of the map or none                                 *)

\* Contents between calls, before and after a step
LEMMA ContentsBetween ==
  /\ HashTypes /\ pc = "idle" /\ old = << >> => Contents = Counts(elements)
  /\ HashTypes' /\ pc' = "idle" /\ old' = << >> => Contents' = Counts(elements')
<1>1. ASSUME NEW n \in Nat, NEW e \in [0 .. n - 1 -> Cell], NEW j, NEW ky
      PROVE  ContentsOf(e, "idle", j, ky, << >>) = Counts(e)
  <2> DEFINE o == << >>
  <2>1. \A p \in Populated(o) : ~(p >= j)
    BY NoOld
  <2> DEFINE st == "idle"
  <2>2. st # "none" /\ st # "delete"
    OBVIOUS
  <2> HIDE DEF o, st
  <2>3. ContentsOf(e, st, j, ky, o) = Counts(e)
    BY <2>1, <2>2, ContentsAreCounts
  <2> QED
    BY <2>3 DEF o, st
<1>2. ASSUME HashTypes, pc = "idle", old = << >> PROVE Contents = Counts(elements)
  <2>1. array_size \in Nat /\ elements \in [0 .. array_size - 1 -> Cell]
    BY <1>2, ArraySize DEF HashTypes, Places
  <2> QED
    BY <1>1, <1>2, <2>1, ContentsNow
<1>3. ASSUME HashTypes', pc' = "idle", old' = << >> PROVE Contents' = Counts(elements')
  <2> DEFINE s == array_size'
  <2> DEFINE e == elements'
  <2> DEFINE j == i'
  <2> DEFINE ky == key'
  <2>1. s \in Nat /\ e \in [0 .. s - 1 -> Cell]
    <3>1. table_size_index' \in 1 .. Len(Sizes) /\ e \in [0 .. s - 1 -> Cell]
      BY <1>3 DEF HashTypes, Places
    <3> QED
      BY <3>1, SizeTypes DEF array_size
  <2>2. Contents' = ContentsOf(e, "idle", j, ky, << >>)
    BY <1>3, ContentsNow
  <2> HIDE DEF s, e, j, ky
  <2>3. ContentsOf(e, "idle", j, ky, << >>) = Counts(e)
    BY <1>1, <2>1
  <2> QED
    BY <2>2, <2>3 DEF e
<1> QED
  BY <1>2, <1>3

LEMMA MapFacts ==
  ASSUME MapInv
  PROVE  /\ RoomInv /\ HashTypes /\ allow_duplicates \in BOOLEAN
         /\ pc # "delete" => Paths(elements, 0)
         /\ pc # "rehash" => old = << >>
         /\ array_size \in Nat /\ elements \in [0 .. array_size - 1 -> Cell]
         /\ pc = "idle" => Contents = Counts(elements)
<1>1. RoomInv /\ HashTypes
  BY DEF MapInv, HashInv, RoomInv
<1>2. array_size \in Nat /\ elements \in [0 .. array_size - 1 -> Cell]
  BY <1>1, ArraySize DEF HashTypes, Places
<1>3. pc # "rehash" => old = << >>
  BY DEF MapInv
<1>4. pc = "idle" => Contents = Counts(elements)
  BY <1>1, <1>3, ContentsBetween
<1> QED
  BY <1>1, <1>2, <1>3, <1>4 DEF MapInv, HashInv

\* What a call that returns between calls finds
LEMMA MapFactsAfter ==
  ASSUME MapInv', pc' = "idle", table_size_index' = table_size_index
  PROVE  elements' \in [0 .. array_size - 1 -> Cell] /\ Contents' = Counts(elements')
<1>1. HashTypes' /\ old' = << >>
  BY DEF MapInv, HashInv, RoomInv
<1>2. Contents' = Counts(elements')
  BY <1>1, ContentsBetween
<1> QED
  BY <1>1, <1>2 DEF HashTypes, Places, array_size

LEMMA InsertNowMaps ==
  ASSUME MapInv, MapInv', NEW k \in Keys, NEW d \in Data, InsertNow(k, d)
  PROVE  Map!Get(k) \/ Map!Put(k, d)
<1>1. /\ pc = "idle" /\ StoreAndReturn(k, d) /\ pc' = "idle"
      /\ UNCHANGED <<table_size_index, allow_duplicates>>
  BY DEF InsertNow, callVars
<1>2. elements' \in [0 .. array_size - 1 -> Cell] /\ Contents' = Counts(elements')
  BY <1>1, MapFactsAfter
<1> QED
  BY <1>1, <1>2, MapFacts, PutOrGet

LEMMA RehashedMaps ==
  ASSUME MapInv, MapInv', Rehashed
  PROVE  Map!Get(key) \/ Map!Put(key, data)
<1>1. /\ pc = "rehash" /\ StoreAndReturn(key, data) /\ pc' = "idle" /\ i \notin DOMAIN old
      /\ UNCHANGED <<table_size_index, allow_duplicates>>
  BY DEF Rehashed
<1>2. elements' \in [0 .. array_size - 1 -> Cell] /\ Contents' = Counts(elements')
  BY <1>1, MapFactsAfter
<1>3. /\ RoomInv /\ Paths(elements, 0) /\ allow_duplicates \in BOOLEAN
      /\ array_size \in Nat /\ elements \in [0 .. array_size - 1 -> Cell]
      /\ key \in Keys /\ data \in Data
  BY <1>1, MapFacts DEF HashTypes
<1>4. \A p \in Populated(old) : ~(p >= i)
  <2> DEFINE n == Sizes[table_size_index - 1]
  <2>1. old \in [0 .. n - 1 -> Cell] /\ i <= n /\ i \in Nat
    BY <1>1, <1>3 DEF RoomInv, Growing, HashTypes
  <2>2. n \in Nat
    BY <1>1, <1>3, SizesAssumption DEF RoomInv, HashTypes, Growing
  <2> HIDE DEF n
  <2> QED
    BY <1>1, <2>1, <2>2 DEF Populated
<1>5. Contents = Counts(elements)
  <2> DEFINE s == array_size
  <2>1. s \in Nat /\ elements \in [0 .. s - 1 -> Cell] /\ pc # "none" /\ pc # "delete"
    BY <1>1, <1>3
  <2> HIDE DEF s
  <2>2. ContentsOf(elements, pc, i, key, old) = Counts(elements)
    BY <1>4, <2>1, ContentsAreCounts
  <2> QED
    BY <2>2, ContentsNow
<1>6. pc # "none"
  BY <1>1
<1> QED
  BY <1>1, <1>2, <1>3, <1>5, <1>6, PutOrGet

LEMMA InsertFailsMaps ==
  ASSUME MapInv, MapInv', NEW k \in Keys, NEW d \in Data, InsertFails(k, d)
  PROVE  Map!Fail
<1>1. /\ pc = "idle" /\ TooSmall /\ table_size_index = Len(Sizes) /\ result' = Nothing
      /\ UNCHANGED <<pc, i, key, old, elements, allow_duplicates>>
  BY DEF InsertFails, callVars
<1>2. /\ RoomInv /\ array_size \in Nat /\ elements \in [0 .. array_size - 1 -> Cell]
      /\ Contents = Counts(elements)
  BY <1>1, MapFacts
<1>3. Cardinality(Populated(elements)) >= Capacity
  BY <1>1, <1>2, FullAtLast
<1>4. Map!Size = Cardinality(Populated(elements))
  <2> DEFINE s == array_size
  <2>1. s \in Nat /\ elements \in [0 .. s - 1 -> Cell]
    BY <1>2
  <2> HIDE DEF s
  <2> QED
    BY <1>2, <2>1, SizeIsPopulated
<1>5. Contents' = Contents
  BY <1>1, ContentsNow
<1>6. Map!Nothing = Nothing
  BY DEF Map!Nothing, Nothing
<1> QED
  BY <1>1, <1>3, <1>4, <1>5, <1>6 DEF Map!Fail

\* A growth moves everything to what is yet to be inserted again.
LEMMA GrowMaps ==
  ASSUME MapInv, MapInv', NEW k \in Keys, NEW d \in Data, Grow(k, d)
  PROVE  Contents' = Contents
<1> DEFINE n == Sizes[table_size_index + 1]
<1> DEFINE g == elements'
<1>1. /\ pc = "idle" /\ pc' = "rehash" /\ i' = 0 /\ old' = elements /\ key' = k
      /\ g = EmptyArray(n)
  BY DEF Grow
<1>2. /\ array_size \in Nat /\ elements \in [0 .. array_size - 1 -> Cell]
      /\ Contents = Counts(elements)
  BY <1>1, MapFacts
<1>3. n \in Nat
  BY MapFacts, SizesAssumption DEF Grow, HashTypes
<1> HIDE DEF n
<1>4. Populated(g) = {}
  BY <1>1, <1>3, EmptyArrays
<1>5. Contents' = ContentsOf(g, "rehash", 0, k, elements)
  BY <1>1, ContentsNow
<1> HIDE DEF g
<1>6. ASSUME NEW k2, NEW d2
      PROVE  Cardinality(Held(g, k2, d2)) + Cardinality(Left(elements, 0, k2, d2)) = Count(elements, k2, d2)
  <2>1. Held(g, k2, d2) = {} /\ Cardinality(Held(g, k2, d2)) = 0
    BY <1>4, FS_EmptySet DEF Held
  <2>2. \A p \in Populated(elements) : p >= 0
    BY <1>2 DEF Populated
  <2>3. Left(elements, 0, k2, d2) = Held(elements, k2, d2)
    BY <2>2 DEF Left, Held
  <2>4. Cardinality(Held(elements, k2, d2)) \in Nat
    BY <1>2, HeldCounts
  <2> QED
    BY <2>1, <2>3, <2>4 DEF Count, Held
<1>7. ContentsOf(g, "rehash", 0, k, elements) = Counts(elements)
  <2> DEFINE st == "rehash"
  <2>1. st # "none" /\ st # "delete"
    OBVIOUS
  <2> HIDE DEF st
  <2>2. ContentsOf(g, st, 0, k, elements) = Counts(elements)
    BY <1>6, <2>1, Zenon DEF ContentsOf, Counts
  <2> QED
    BY <2>2 DEF st
<1> QED
  BY <1>2, <1>5, <1>7

\* What is left from the j-th place on, without the j-th
LEMMA LeftStep ==
  ASSUME NEW n \in Nat, NEW o \in [0 .. n - 1 -> Cell], NEW j \in Nat, NEW k, NEW d
  PROVE  /\ Cardinality(Left(o, j + 1, k, d)) \in Nat
         /\ Cardinality(Left(o, j, k, d)) =
              Cardinality(Left(o, j + 1, k, d)) +
                (IF j \in Populated(o) /\ o[j].key = k /\ o[j].data = d THEN 1 ELSE 0)
<1> DEFINE A == Left(o, j, k, d)
<1> DEFINE B == Left(o, j + 1, k, d)
<1>1. /\ \A p \in Populated(o) : p >= j + 1 <=> p >= j /\ p # j
      /\ j >= j
  BY DEF Populated
<1>2. IsFiniteSet(A) /\ Cardinality(A) \in Nat
  <2>1. A \in SUBSET Populated(o)
    BY DEF Left
  <2> QED
    BY <2>1, PopulatedFinite, FS_Subset, FS_CardinalityType
<1>3. CASE j \in Populated(o) /\ o[j].key = k /\ o[j].data = d
  <2>1. j \in A /\ B = A \ {j}
    BY <1>1, <1>3 DEF Left
  <2> HIDE DEF A, B
  <2>2. Cardinality(A \ {j}) = Cardinality(A) - 1 /\ Cardinality(A \ {j}) \in Nat
    BY <1>2, <2>1, FS_RemoveElement, FS_CardinalityType
  <2>3. Cardinality(B) \in Nat /\ Cardinality(A) = Cardinality(B) + 1
    BY <1>2, <2>1, <2>2
  <2> QED
    BY <1>3, <2>3 DEF A, B
<1>4. CASE ~(j \in Populated(o) /\ o[j].key = k /\ o[j].data = d)
  <2>1. B = A
    BY <1>1, <1>4 DEF Left
  <2> HIDE DEF A, B
  <2>2. Cardinality(B) \in Nat /\ Cardinality(A) = Cardinality(B)
    BY <1>2, <2>1
  <2> QED
    BY <1>4, <2>2 DEF A, B
<1> QED
  BY <1>3, <1>4

\* An element inserted again is as often in the map as before.
LEMMA RehashMaps ==
  ASSUME MapInv, Rehash
  PROVE  Contents' = Contents
<1> DEFINE g == elements'
<1>1. /\ pc = "rehash" /\ i \in DOMAIN old /\ old' = old /\ i' = i + 1
      /\ \/ /\ i \in Populated(old) /\ old[i].key \in Keys /\ old[i].data \in Data
            /\ Store(old[i].key, old[i].data)
         \/ i \notin Populated(old) /\ g = elements
  BY OldElement, MapFacts
<1>2. pc' = "rehash" /\ key' = key
  BY <1>1 DEF Rehash
<1>3. /\ RoomInv /\ HashTypes /\ Paths(elements, 0) /\ i \in Nat
      /\ array_size \in Nat /\ elements \in [0 .. array_size - 1 -> Cell]
  BY <1>1, MapFacts DEF HashTypes
<1>4. PICK n \in Nat : old \in [0 .. n - 1 -> Cell]
  BY <1>1, <1>3, OldIsCells
<1>5. ASSUME NEW k, NEW d
      PROVE  Cardinality(Held(g, k, d)) =
               Cardinality(Held(elements, k, d)) +
                 (IF i \in Populated(old) /\ old[i].key = k /\ old[i].data = d THEN 1 ELSE 0)
  <2>1. Cardinality(Held(elements, k, d)) \in Nat
    BY <1>3, HeldCounts
  <2>2. CASE i \notin Populated(old) /\ g = elements
    BY <2>1, <2>2
  <2>3. CASE /\ i \in Populated(old) /\ old[i].key \in Keys /\ old[i].data \in Data
             /\ Store(old[i].key, old[i].data)
    <3> DEFINE k0 == old[i].key
    <3> DEFINE d0 == old[i].data
    <3>1. k0 \in Keys /\ d0 \in Data /\ Store(k0, d0)
      BY <2>3
    <3>2. ~IsThere(k0)
      <4> SUFFICES ASSUME ~allow_duplicates, Found(k0) # {} PROVE FALSE
        BY DEF IsThere
      <4>1. \A p \in Populated(elements), q \in Populated(old) : q >= i => elements[p].key # old[q].key
        BY DEF MapInv, Once
      <4>2. i >= i
        BY <1>3
      <4>3. \A p \in Populated(elements) : elements[p].key # k0
        BY <2>3, <4>1, <4>2
      <4> HIDE DEF k0
      <4> QED
        BY <1>3, <3>1, <4>3, FoundAll
    <3> HIDE DEF k0, d0
    <3>3. pc # "none"
      BY <1>1
    <3>4. PICK p : Added(elements, elements', p, Pair(k0, d0))
      BY <1>3, <3>1, <3>2, <3>3, StoreAdds
    <3>5. Pair(k0, d0).key = k0 /\ Pair(k0, d0).data = d0
      BY DEF Pair
    <3>6. Cardinality(Held(g, k, d)) =
            Cardinality(Held(elements, k, d)) + (IF k0 = k /\ d0 = d THEN 1 ELSE 0)
      BY <3>4, <3>5 DEF Added
    <3> QED
      BY <2>3, <3>6 DEF k0, d0
  <2> QED
    BY <1>1, <2>2, <2>3
<1> DEFINE j == i
<1>6. Contents' = ContentsOf(g, "rehash", j + 1, key, old) /\ Contents = ContentsOf(elements, "rehash", j, key, old)
  BY <1>1, <1>2, ContentsNow
<1>7. ASSUME NEW k, NEW d
      PROVE  Cardinality(Held(g, k, d)) + Cardinality(Left(old, j + 1, k, d)) =
               Cardinality(Held(elements, k, d)) + Cardinality(Left(old, j, k, d))
  <2> DEFINE one == IF i \in Populated(old) /\ old[i].key = k /\ old[i].data = d THEN 1 ELSE 0
  <2>1. Cardinality(Held(g, k, d)) = Cardinality(Held(elements, k, d)) + one
    BY <1>5
  <2>2. /\ Cardinality(Left(old, j + 1, k, d)) \in Nat
        /\ Cardinality(Left(old, j, k, d)) = Cardinality(Left(old, j + 1, k, d)) + one
    <3> DEFINE o == old
    <3>1. /\ o \in [0 .. n - 1 -> Cell] /\ j \in Nat
          /\ one = IF j \in Populated(o) /\ o[j].key = k /\ o[j].data = d THEN 1 ELSE 0
      BY <1>3, <1>4
    <3> HIDE DEF o, j, one
    <3>2. /\ Cardinality(Left(o, j + 1, k, d)) \in Nat
          /\ Cardinality(Left(o, j, k, d)) = Cardinality(Left(o, j + 1, k, d)) + one
      BY <3>1, LeftStep
    <3> QED
      BY <3>2 DEF o
  <2>3. one \in Nat
    OBVIOUS
  <2>4. Cardinality(Held(elements, k, d)) \in Nat
    BY <1>3, HeldCounts
  <2> HIDE DEF one, j, g
  <2> QED
    BY <2>1, <2>2, <2>3, <2>4
<1> HIDE DEF g, j
<1> DEFINE st == "rehash"
<1>8. Contents' = ContentsOf(g, st, j + 1, key, old) /\ Contents = ContentsOf(elements, st, j, key, old)
  BY <1>6
<1> HIDE DEF st
<1>9. ContentsOf(g, st, j + 1, key, old) = ContentsOf(elements, st, j, key, old)
  BY <1>7, Zenon DEF ContentsOf
<1> QED
  BY <1>8, <1>9

\* While a deletion runs the map is what the array holds of other keys.
Others(e, k) ==
  [kd \in Keys \X Data |-> IF kd[1] = k THEN 0 ELSE Cardinality(Held(e, kd[1], kd[2])) + 0]

LEMMA ContentsDeleting ==
  ASSUME NEW e, NEW j, NEW k
  PROVE  ContentsOf(e, "delete", j, k, << >>) = Others(e, k)
<1>1. \A k2, d2 : Cardinality(Left(<< >>, j, k2, d2)) = 0
  <2>1. \A k2, d2 : Left(<< >>, j, k2, d2) = {}
    BY NoOld DEF Left
  <2> QED
    BY <2>1, FS_EmptySet
<1> DEFINE st == "delete"
<1>2. st # "none" /\ st = "delete"
  OBVIOUS
<1> DEFINE o == << >>
<1>3. \A k2, d2 : Cardinality(Left(o, j, k2, d2)) = 0
  BY <1>1
<1> HIDE DEF o
<1>4. ContentsOf(e, "delete", j, k, o) = Others(e, k)
  BY <1>3 DEF ContentsOf, Others
<1> QED
  BY <1>4 DEF o

LEMMA DeleteMaps ==
  ASSUME MapInv, MapInv', NEW k \in Keys, Delete(k)
  PROVE  Map!Delete(k)
<1>1. /\ pc = "idle" /\ pc' = "delete" /\ key' = k /\ elements' = elements /\ old' = old
      /\ UNCHANGED <<allow_duplicates, result>>
  BY DEF Delete
<1>2. /\ array_size \in Nat /\ elements \in [0 .. array_size - 1 -> Cell]
      /\ Contents = Counts(elements) /\ old = << >>
  BY <1>1, MapFacts
<1>3. Contents' = ContentsOf(elements, "delete", i', k, << >>)
  BY <1>1, <1>2, ContentsNow
<1>4. Contents' = Others(elements, k)
  <2> DEFINE j == i'
  <2>1. Contents' = ContentsOf(elements, "delete", j, k, << >>)
    BY <1>3
  <2> HIDE DEF j
  <2> QED
    BY <2>1, ContentsDeleting
<1>5. \A kd \in Keys \X Data : Contents[kd] = Cardinality(Held(elements, kd[1], kd[2])) + 0
  <2>1. \A k2, d2 : Cardinality(Held(elements, k2, d2)) \in Nat
    BY <1>2, HeldCounts
  <2>2. \A kd \in Keys \X Data : Contents[kd] = Cardinality(Held(elements, kd[1], kd[2]))
    BY <1>2 DEF Counts, Count, Held
  <2> QED
    BY <2>1, <2>2
<1>6. Contents' = [kd \in Keys \X Data |-> IF kd[1] = k THEN 0 ELSE Contents[kd]]
  BY <1>4, <1>5, Zenon DEF Others
<1> QED
  BY <1>1, <1>6 DEF Map!Delete

\* A turn of the deletion leaves the other keys as often as they were.
LEMMA DeleteStepMaps ==
  ASSUME MapInv, MapInv', DeleteStep
  PROVE  Contents' = Contents
<1> DEFINE g == elements'
<1> DEFINE j == i'
<1>1. pc = "delete" /\ pc' = "delete" /\ key' = key /\ old' = old
  BY DEF DeleteStep
<1>2. /\ HashTypes /\ array_size \in Nat /\ elements \in [0 .. array_size - 1 -> Cell] /\ old = << >>
  BY <1>1, MapFacts
<1>3. ASSUME NEW k, NEW d, k # key PROVE Cardinality(Held(g, k, d)) = Cardinality(Held(elements, k, d))
  <2>1. PICK p, f : /\ Taken(elements, f, p)
                    /\ \/ elements[p].key = key /\ elements' = f
                       \/ elements[p].key # key /\ \E q : Added(f, elements', q, elements[p])
    BY <1>2, DeleteStepTakes
  <2>2. Cardinality(Held(elements, k, d)) =
          Cardinality(Held(f, k, d)) + (IF elements[p].key = k /\ elements[p].data = d THEN 1 ELSE 0)
    BY <2>1 DEF Taken
  <2>3. CASE elements[p].key = key /\ elements' = f
    <3>1. Cardinality(Held(elements, k, d)) = Cardinality(Held(f, k, d)) + 0
      BY <1>3, <2>2, <2>3
    <3>2. Cardinality(Held(elements, k, d)) \in Nat
      BY <1>2, HeldCounts
    <3>3. Cardinality(Held(f, k, d)) \in Nat
      <4> DEFINE n == array_size'
      <4>1. g \in [0 .. n - 1 -> Cell] /\ n \in Nat
        <5>1. HashTypes'
          BY DEF MapInv, HashInv, RoomInv
        <5> QED
          BY <5>1, SizeTypes DEF HashTypes, Places, array_size
      <4> HIDE DEF n
      <4> QED
        BY <2>3, <4>1, HeldCounts
    <3> QED
      BY <2>3, <3>1, <3>2, <3>3
  <2>4. CASE \E q : Added(f, elements', q, elements[p])
    <3>1. Cardinality(Held(elements', k, d)) =
            Cardinality(Held(f, k, d)) + (IF elements[p].key = k /\ elements[p].data = d THEN 1 ELSE 0)
      BY <2>4 DEF Added
    <3> QED
      BY <2>2, <3>1
  <2> QED
    BY <2>1, <2>3, <2>4
<1>4. Contents' = ContentsOf(g, "delete", j, key, << >>) /\ Contents = ContentsOf(elements, "delete", i, key, << >>)
  BY <1>1, <1>2, ContentsNow
<1> HIDE DEF g, j
<1>5. Contents' = Others(g, key)
  BY <1>4, ContentsDeleting
<1>6. Contents = Others(elements, key)
  BY <1>4, ContentsDeleting
<1> QED
  BY <1>3, <1>5, <1>6 DEF Others

\* A deletion that ends has taken everything of the key.
LEMMA DeletedMaps ==
  ASSUME NoWrap, MapInv, MapInv', Deleted
  PROVE  Contents' = Contents
<1>1. /\ pc = "delete" /\ pc' = "idle" /\ elements' = elements /\ old' = old
      /\ i = array_size \/ elements[DeletePlace].hashvalue = 0
      /\ table_size_index' = table_size_index
  BY DEF Deleted
<1>2. /\ HashTypes /\ array_size \in Nat /\ elements \in [0 .. array_size - 1 -> Cell] /\ old = << >>
      /\ HashInv
  BY <1>1, MapFacts DEF MapInv
<1>3. AllRight
  BY <1>2, RightWhenEmpty
<1>4. \E l \in i .. array_size - 1 : Turn(l) \notin Populated(elements)
  BY <1>1, <1>2 DEF HashInv, Deleting
<1>5. i < array_size /\ elements[DeletePlace].hashvalue = 0
  BY <1>1, <1>2, <1>4 DEF HashTypes
<1>6. \A p \in Places : elements[p].key # key
  BY <1>1, <1>3, <1>5 DEF AllRight
<1>7. \A k, d : Cardinality(Held(elements, k, d)) \in Nat
  BY <1>2, HeldCounts
<1>8. \A d : Cardinality(Held(elements, key, d)) = 0
  <2>1. \A d : Held(elements, key, d) = {}
    BY <1>2, <1>6 DEF Held, Populated, Places
  <2> QED
    BY <2>1, FS_EmptySet
<1>9. Contents' = Counts(elements)
  BY <1>1, MapFactsAfter
<1>10. Contents = Others(elements, key)
  <2>1. Contents = ContentsOf(elements, "delete", i, key, << >>)
    BY <1>1, <1>2, ContentsNow
  <2> QED
    BY <2>1, ContentsDeleting
<1>11. Counts(elements) = [kd \in Keys \X Data |-> Cardinality(Held(elements, kd[1], kd[2]))]
  BY DEF Counts, Count, Held
<1>12. \A kd \in Keys \X Data :
         Cardinality(Held(elements, kd[1], kd[2])) =
           IF kd[1] = key THEN 0 ELSE Cardinality(Held(elements, kd[1], kd[2])) + 0
  BY <1>7, <1>8
<1>13. Counts(elements) = Others(elements, key)
  BY <1>11, <1>12, Zenon DEF Others
<1> QED
  BY <1>9, <1>10, <1>13

\* A call that only looks leaves the map as it is.
LEMMA LookupLeaves ==
  ASSUME NEW answer, Lookup(answer)
  PROVE  pc = "idle" /\ result' = answer /\ Contents' = Contents /\ allow_duplicates' = allow_duplicates
BY ContentsNow DEF Lookup, callVars

LEMMA GetMaps ==
  ASSUME MapInv, NEW k \in Keys, Get(k)
  PROVE  Map!Get(k)
<1>1. CASE Found(k) # {} /\ Lookup(One(FirstFound(k).data))
  <2>1. /\ pc = "idle" /\ result' = One(FirstFound(k).data)
        /\ Contents' = Contents /\ allow_duplicates' = allow_duplicates
    BY <1>1, LookupLeaves
  <2>2. /\ array_size \in Nat /\ elements \in [0 .. array_size - 1 -> Cell]
        /\ HashTypes /\ Paths(elements, 0) /\ Contents = Counts(elements)
    BY <2>1, MapFacts
  <2>3. PICK p \in Populated(elements) : elements[p].key = k /\ FirstFound(k) = elements[p]
    BY <1>1, <2>2, FirstIsFound
  <2> DEFINE d0 == elements[p].data
  <2>4. d0 \in Data /\ \E q \in Populated(elements) : elements[q].key = k /\ elements[q].data = d0
    BY <2>2, <2>3, EmptyCell DEF Populated
  <2>5. result' = Map!One(d0)
    BY <2>1, <2>3 DEF Map!One, One
  <2> HIDE DEF d0
  <2>6. Contents[<<k, d0>>] > 0
    BY <2>2, <2>4, CountsAt
  <2> QED
    BY <2>1, <2>4, <2>5, <2>6 DEF Map!Get
<1>2. CASE Found(k) = {} /\ Lookup(Nothing)
  <2>1. /\ pc = "idle" /\ result' = Nothing
        /\ Contents' = Contents /\ allow_duplicates' = allow_duplicates
    BY <1>2, LookupLeaves
  <2>2. /\ array_size \in Nat /\ elements \in [0 .. array_size - 1 -> Cell]
        /\ HashTypes /\ Paths(elements, 0) /\ Contents = Counts(elements)
    BY <2>1, MapFacts
  <2>3. ~\E q \in Populated(elements) : elements[q].key = k
    BY <1>2, <2>2, FoundAll
  <2>4. ~Map!Has(k)
    BY <2>2, <2>3, CountsAt DEF Map!Has
  <2>5. result' = Map!Nothing
    BY <2>1 DEF Map!Nothing, Nothing
  <2> QED
    BY <2>1, <2>4, <2>5 DEF Map!Get
<1> QED
  BY <1>1, <1>2 DEF Get

\* Without duplicates the first probe that finds a key is the only one.
LEMMA OnlyFirst ==
  ASSUME MapInv, pc = "idle", ~allow_duplicates, NEW k \in Keys
  PROVE  First(Found(k)) = Found(k)
<1> DEFINE h == Hash(k)
<1>1. HashTypes /\ Paths(elements, 0) /\ array_size \in Nat /\ array_size > 0 /\ h \in Nat
  BY MapFacts, ArraySize, HashType
<1>2. Found(k) = {n \in Places : Probe(h, n) \in Populated(elements) /\ elements[Probe(h, n)].key = k}
  BY <1>1, FoundAll
<1>3. \A p, q \in Populated(elements) : elements[p].key = elements[q].key => p = q
  BY DEF MapInv, Once
<1> HIDE DEF h
<1>4. \A m, n \in Found(k) : m = n
  BY <1>1, <1>2, <1>3, ProbeOnce
<1>5. \A n \in Found(k) : n <= n
  BY <1>1, <1>2 DEF Places
<1> QED
  BY <1>4, <1>5 DEF First

LEMMA GetMultipleMaps ==
  ASSUME MapInv, NEW k \in Keys, GetMultiple(k)
  PROVE  Map!GetMultiple(k)
<1>1. PICK ns : Lookup(All(k, ns)) /\ (ns = Found(k) \/ (~allow_duplicates /\ ns = First(Found(k))))
  BY DEF GetMultiple
<1>2. /\ pc = "idle" /\ result' = All(k, ns)
      /\ Contents' = Contents /\ allow_duplicates' = allow_duplicates
  BY <1>1, LookupLeaves
<1>3. ns = Found(k)
  BY <1>1, <1>2, OnlyFirst
<1>4. HashTypes /\ Paths(elements, 0) /\ Contents = Counts(elements)
  BY <1>2, MapFacts
<1>5. \A d \in Data : Cardinality({n \in Found(k) : elements[Probe(Hash(k), n)].data = d}) = Contents[<<k, d>>]
  BY <1>4, FoundAsOften DEF Counts
<1>6. result' = [all |-> TRUE,
                 found |-> [d \in Data |-> Cardinality({n \in Found(k) : elements[Probe(Hash(k), n)].data = d})]]
  BY <1>2, <1>3 DEF All
<1>7. result' = Map!All(k)
  BY <1>5, <1>6, Zenon DEF Map!All
<1> QED
  BY <1>2, <1>7 DEF Map!GetMultiple

LEMMA InsertMaps ==
  ASSUME MapInv, MapInv', NEW k \in Keys, NEW d \in Data, Insert(k, d)
  PROVE  Map!Get(k) \/ Map!Put(k, d) \/ Map!Fail \/ UNCHANGED Map!vars
<1>1. CASE Grow(k, d)
  BY <1>1, GrowMaps DEF Grow, Map!vars
<1> QED
  BY <1>1, InsertNowMaps, InsertFailsMaps DEF Insert

\* A table that is freed holds nothing.
LEMMA NoneIsEmpty ==
  /\ pc = "none" => Contents = Map!NoPairs
  /\ pc' = "none" => Contents' = Map!NoPairs
<1>1. ASSUME NEW e, NEW j, NEW ky, NEW o PROVE ContentsOf(e, "none", j, ky, o) = Map!NoPairs
  <2> DEFINE st == "none"
  <2>1. st = "none" /\ st # "delete"
    OBVIOUS
  <2> HIDE DEF st
  <2>2. ContentsOf(e, st, j, ky, o) = Map!NoPairs
    BY <2>1 DEF ContentsOf, Map!NoPairs
  <2> QED
    BY <2>2 DEF st
<1>2. pc = "none" => Contents = Map!NoPairs
  BY <1>1, ContentsNow
<1>3. ASSUME pc' = "none" PROVE Contents' = Map!NoPairs
  <2> DEFINE e == elements'
  <2> DEFINE j == i'
  <2> DEFINE ky == key'
  <2> DEFINE o == old'
  <2>1. Contents' = ContentsOf(e, "none", j, ky, o)
    BY <1>3, ContentsNow
  <2> HIDE DEF e, j, ky, o
  <2> QED
    BY <1>1, <2>1
<1> QED
  BY <1>2, <1>3

LEMMA EmptyCounts ==
  ASSUME NEW n \in Nat, NEW e, e = EmptyArray(n)
  PROVE  Counts(e) = Map!NoPairs
<1>1. \A k, d : {p \in Populated(e) : e[p].key = k /\ e[p].data = d} = {}
  BY EmptyArrays
<1>2. \A k, d : Count(e, k, d) = 0
  BY <1>1, FS_EmptySet DEF Count
<1> QED
  BY <1>2 DEF Counts, Map!NoPairs

LEMMA GenerateMaps ==
  ASSUME MapInv, MapInv', Generate
  PROVE  Map!Generate
<1> DEFINE n == Sizes[1]
<1>1. /\ pc = "none" /\ pc' = "idle" /\ result' = result /\ allow_duplicates' \in BOOLEAN
      /\ elements' = EmptyArray(n)
  BY DEF Generate
<1>2. n \in Nat
  BY SizesAssumption
<1> HIDE DEF n
<1>3. Contents = Map!NoPairs
  BY <1>1, NoneIsEmpty
<1>4. Contents' = Counts(elements')
  BY <1>1, ContentsBetween DEF MapInv, HashInv, RoomInv
<1>5. Counts(elements') = Map!NoPairs
  BY <1>1, <1>2, EmptyCounts
<1> QED
  BY <1>1, <1>3, <1>4, <1>5 DEF Map!Generate

LEMMA MapStep == NoWrap /\ MapInv /\ MapInv' /\ [Next]_vars => [Map!Next]_(Map!vars)
<1> SUFFICES ASSUME NoWrap, MapInv, MapInv', [Next]_vars PROVE [Map!Next]_(Map!vars)
  OBVIOUS
<1>1. ASSUME NEW k \in Keys, NEW d \in Data, Insert(k, d) PROVE [Map!Next]_(Map!vars)
  BY <1>1, InsertMaps DEF Map!Next
<1>2. ASSUME NEW k \in Keys, Get(k) PROVE [Map!Next]_(Map!vars)
  BY <1>2, GetMaps DEF Map!Next
<1>3. ASSUME NEW k \in Keys, GetMultiple(k) PROVE [Map!Next]_(Map!vars)
  BY <1>3, GetMultipleMaps DEF Map!Next
<1>4. ASSUME NEW k \in Keys, Index(k) PROVE [Map!Next]_(Map!vars)
  BY <1>1, <1>2, <1>4, HashAssumption DEF Index
<1>5. ASSUME NEW k \in Keys, Delete(k) PROVE [Map!Next]_(Map!vars)
  BY <1>5, DeleteMaps DEF Map!Next
<1>6. CASE Rehash
  BY <1>6, RehashMaps DEF Rehash, Map!vars
<1>7. CASE Rehashed
  <2>1. key \in Keys /\ data \in Data
    BY <1>7, MapFacts DEF Rehashed, HashTypes
  <2> QED
    BY <1>7, <2>1, RehashedMaps DEF Map!Next
<1>8. CASE DeleteStep
  BY <1>8, DeleteStepMaps DEF DeleteStep, Map!vars
<1>9. CASE Deleted
  BY <1>9, DeletedMaps DEF Deleted, Map!vars
<1>10. CASE Destroy
  <2>1. Map!Destroy
    BY <1>10, NoneIsEmpty DEF Destroy, Map!Destroy
  <2> QED
    BY <2>1 DEF Map!Next
<1>11. CASE Generate
  BY <1>11, GenerateMaps DEF Map!Next
<1>12. CASE UNCHANGED vars
  <2>1. Contents' = Contents
    BY <1>12, ContentsNow DEF vars
  <2> QED
    BY <1>12, <2>1 DEF vars, Map!vars
<1> QED
  BY <1>1, <1>2, <1>3, <1>4, <1>5, <1>6, <1>7, <1>8, <1>9, <1>10, <1>11, <1>12 DEF Next

LEMMA MapInit == Init => Map!Init
<1> SUFFICES ASSUME Init PROVE Map!Init
  OBVIOUS
<1> DEFINE n == Sizes[1]
<1>1. /\ pc = "idle" /\ allow_duplicates \in BOOLEAN /\ result = Nothing
      /\ elements = EmptyArray(n)
  BY DEF Init
<1>2. n \in Nat
  BY SizesAssumption
<1> HIDE DEF n
<1>3. Contents = Counts(elements)
  BY <1>1, InitMap, MapFacts
<1>4. Counts(elements) = Map!NoPairs
  BY <1>1, <1>2, EmptyCounts
<1>5. Map!Nothing = Nothing
  BY DEF Map!Nothing, Nothing
<1> QED
  BY <1>1, <1>3, <1>4, <1>5 DEF Map!Init

\* Where no sum wraps, the table is a multimap through every growth and every
\* deletion: what was put in is found as often as it was put in, a first pair is
\* not replaced when duplicates are not allowed, and only a table whose largest
\* array is as full as it gets refuses an insertion.
THEOREM TableIsMultimap ==
  ASSUME NoWrap
  PROVE  Spec => ImplementsMultimap
<1>1. MapInv /\ [Next]_vars => MapInv'
  BY NextMap
<1>2. MapInv /\ MapInv' /\ [Next]_vars => [Map!Next]_(Map!vars)
  BY MapStep
<1> QED
  BY <1>1, <1>2, InitMap, MapInit, PTL DEF Spec, ImplementsMultimap, Map!Spec
=============================================================================
