------------------------------- MODULE CNHash -------------------------------
(***************************************************************************)
(* The hash table of cnhash/cnhash.h: open addressing with linear probing, *)
(* growth by re-inserting every element, deletion by taking out and        *)
(* putting back the rest of the run.                                       *)
(*                                                                         *)
(* The table is not thread safe and has one caller.  Growth and deletion   *)
(* are loops; one step is one turn of the loop.  A key stands for what cf  *)
(* compares; memory is left out.                                           *)
(***************************************************************************)
EXTENDS Integers, Sequences, FiniteSets

CONSTANTS
  Keys, NoKey,        \* NoKey: the null key of an empty element
  Data, NoData,       \* NoData: the null data, which is data too
  Hf,                 \* key -> what hf returns for it
  HASH_WRAP,          \* 2^32: the table keeps a uint32_t of it
  Sizes               \* cnhashtablesizes

\* A hash of which 32 bits keep nothing would mark its element as empty: the
\* hash functions of cnhash.h exclude 0, but before the hash is cut.
ASSUME HashAssumption ==
  /\ NoKey \notin Keys /\ NoData \in Data
  /\ HASH_WRAP \in Nat \ {0}
  /\ Hf \in [Keys -> Nat]
  /\ \A k \in Keys : Hf[k] % HASH_WRAP # 0

\* What an array counts twice is what the one before held when it grew; Room is
\* how many elements fit beside that.
CountedTwiceBy(n) == IF n = 1 THEN 0 ELSE Sizes[n - 1] \div 2
Room(n) == (Sizes[n] \div 2) - CountedTwiceBy(n)

\* The sizes grow fast enough for each array to take in the one before.
ASSUME SizesAssumption ==
  /\ Sizes \in Seq(Nat) /\ Len(Sizes) > 0
  /\ \A n \in 1 .. Len(Sizes) : Sizes[n] > 1
  /\ \A n \in 1 .. Len(Sizes) - 1 : Sizes[n] < Sizes[n + 1] /\ Room(n) < Room(n + 1)

VARIABLES
  elements,          \* the array: place -> element
  table_size_index,  \* which of Sizes it has
  nr_elements,       \* what the table counts
  allow_duplicates,  \* given to CNHashGenerate
  pc,                \* "none", "idle", or the loop that is running
  i,                 \* the turn of that loop
  key, data,         \* the arguments of the call that is running
  old,               \* old_array while the table grows
  result             \* what the last call returned, see One and All

vars == <<elements, table_size_index, nr_elements, allow_duplicates,
          pc, i, key, data, old, result>>
callVars == <<pc, i, key, data, old>>

Empty == [key |-> NoKey, data |-> NoData, hashvalue |-> 0]
Element == [key : Keys \cup {NoKey}, data : Data, hashvalue : 0 .. HASH_WRAP - 1]
EmptyArray(n) == [p \in 0 .. n - 1 |-> Empty]

array_size == Sizes[table_size_index]
Places == 0 .. array_size - 1
Populated(e) == {p \in DOMAIN e : e[p].hashvalue # 0}

Hash(k) == Hf[k] % HASH_WRAP

\* The n-th place that is probed for hash h.
Probe(h, n) == ((h % array_size) + n) % array_size

\* Every place probed before the n-th is populated in array e.
RunsTo(e, h, n) == \A m \in 0 .. n - 1 : e[Probe(h, m)].hashvalue # 0

\* Where probing for hash h finds room in e.
FreePlace(e, h) ==
  Probe(h, CHOOSE n \in Places : e[Probe(h, n)].hashvalue = 0 /\ RunsTo(e, h, n))

\* Which probes find key k: cf is asked only when the hashes are equal.
Found(k) ==
  {n \in Places : /\ elements[Probe(Hash(k), n)].hashvalue = Hash(k)
                  /\ elements[Probe(Hash(k), n)].key = k
                  /\ RunsTo(elements, Hash(k), n)}

First(ns) == {n \in ns : \A m \in ns : n <= m}
FirstFound(k) == elements[Probe(Hash(k), CHOOSE n \in First(Found(k)) : TRUE)]

\* The answers of the calls that return one element and of those that return
\* all of them: how often each data.
Nothing == [all |-> FALSE, found |-> [d \in Data |-> 0]]
One(x) == [all |-> FALSE, found |-> [d \in Data |-> IF d = x THEN 1 ELSE 0]]
All(k, ns) ==
  [all |-> TRUE,
   found |-> [d \in Data |->
                Cardinality({n \in ns : elements[Probe(Hash(k), n)].data = d})]]

Init ==
  /\ elements = EmptyArray(Sizes[1])
  /\ table_size_index = 1 /\ nr_elements = 0
  /\ allow_duplicates \in BOOLEAN
  /\ pc = "idle" /\ i = 0
  /\ key = NoKey /\ data = NoData /\ old = << >>
  /\ result = Nothing

-----------------------------------------------------------------------------
(* CNHashInsert.                                                           *)

\* Mutant: the array may fill up.
TooSmall_NoHalf == nr_elements + 1 > array_size

TooSmall == nr_elements + 1 > array_size \div 2

IsThere(k) == ~allow_duplicates /\ Found(k) # {}

\* Mutant: the data that was there is overwritten.
Store_Overwrites(k, d) ==
  LET n == CHOOSE n \in Found(k) : TRUE IN
  \/ /\ IsThere(k)
     /\ elements' = [elements EXCEPT ![Probe(Hash(k), n)].data = d]
     /\ UNCHANGED nr_elements
  \/ /\ ~IsThere(k)
     /\ elements' = [elements EXCEPT ![FreePlace(elements, Hash(k))] =
                       [key |-> k, data |-> d, hashvalue |-> Hash(k)]]
     /\ nr_elements' = nr_elements + 1

\* The part of CNHashInsert that follows the growth.
Store(k, d) ==
  \/ /\ IsThere(k)
     /\ UNCHANGED <<elements, nr_elements>>
  \/ /\ ~IsThere(k)
     /\ elements' = [elements EXCEPT ![FreePlace(elements, Hash(k))] =
                       [key |-> k, data |-> d, hashvalue |-> Hash(k)]]
     /\ nr_elements' = nr_elements + 1

\* Data that is already there is returned, not overwritten.
StoreAndReturn(k, d) ==
  /\ Store(k, d)
  /\ result' = One(IF IsThere(k) THEN FirstFound(k).data ELSE d)

InsertNow(k, d) ==
  /\ pc = "idle" /\ ~TooSmall
  /\ StoreAndReturn(k, d)
  /\ UNCHANGED <<callVars, table_size_index, allow_duplicates>>

\* There is no larger size.
InsertFails(k, d) ==
  /\ pc = "idle" /\ TooSmall
  /\ table_size_index = Len(Sizes)
  /\ result' = Nothing
  /\ UNCHANGED <<callVars, elements, table_size_index, nr_elements, allow_duplicates>>

Grow(k, d) ==
  /\ pc = "idle" /\ TooSmall
  /\ table_size_index < Len(Sizes)
  /\ table_size_index' = table_size_index + 1
  /\ elements' = EmptyArray(Sizes[table_size_index + 1])
  /\ old' = elements
  /\ key' = k /\ data' = d
  /\ pc' = "rehash" /\ i' = 0
  /\ UNCHANGED <<nr_elements, result, allow_duplicates>>

Insert(k, d) == InsertNow(k, d) \/ InsertFails(k, d) \/ Grow(k, d)

\* One element of the old array is inserted again, through CNHashInsert: it
\* is counted again.  The recursive call does not grow the table in turn: see
\* RoomLeft.
Rehash ==
  /\ pc = "rehash" /\ i \in DOMAIN old
  /\ \/ /\ old[i].hashvalue # 0
        /\ Store(old[i].key, old[i].data)
     \/ /\ old[i].hashvalue = 0
        /\ UNCHANGED <<elements, nr_elements>>
  /\ i' = i + 1
  /\ UNCHANGED <<pc, key, data, old, table_size_index, result, allow_duplicates>>

Rehashed ==
  /\ pc = "rehash" /\ i \notin DOMAIN old
  /\ StoreAndReturn(key, data)
  /\ pc' = "idle" /\ i' = 0
  /\ key' = NoKey /\ data' = NoData /\ old' = << >>
  /\ UNCHANGED <<table_size_index, allow_duplicates>>

-----------------------------------------------------------------------------
(* Looking up.                                                             *)

Lookup(answer) ==
  /\ pc = "idle"
  /\ result' = answer
  /\ UNCHANGED <<callVars, elements, table_size_index, nr_elements, allow_duplicates>>

\* CNHashGet and CNHashGetValue.
Get(k) ==
  \/ Found(k) # {} /\ Lookup(One(FirstFound(k).data))
  \/ Found(k) = {} /\ Lookup(Nothing)

\* CNHashGetMultiple and CNHashGetValueMultiple.
GetMultiple(k) ==
  \/ allow_duplicates /\ Lookup(All(k, Found(k)))
  \/ ~allow_duplicates /\ Lookup(All(k, First(Found(k))))

\* CNHashIndex.
Index(k) ==
  \/ Found(k) # {} /\ Get(k)
  \/ Found(k) = {} /\ Insert(k, NoData)

-----------------------------------------------------------------------------
(* CNHashDelete, CNHashDestroy, CNHashGenerate.                            *)

Delete(k) ==
  /\ pc = "idle"
  /\ pc' = "delete" /\ i' = 0 /\ key' = k
  /\ UNCHANGED <<data, old, elements, table_size_index, nr_elements, result, allow_duplicates>>

\* Here the hash and the turn are added in 32 bits before the remainder.
DeletePlace == ((Hash(key) + i) % HASH_WRAP) % array_size

\* Mutant: only the elements of the key are touched.
DeleteStep_LeavesHole ==
  LET p == DeletePlace
      match == elements[p].key = key
  IN
  /\ pc = "delete" /\ i < array_size /\ elements[p].hashvalue # 0
  /\ elements' = [elements EXCEPT ![p] = IF match THEN Empty ELSE @]
  /\ nr_elements' = nr_elements - (IF match THEN 1 ELSE 0)
  /\ i' = i + 1
  /\ UNCHANGED <<pc, key, data, old, table_size_index, result, allow_duplicates>>

DeleteStep ==
  LET p == DeletePlace
      e == elements[p]
      without == [elements EXCEPT ![p] = Empty]
  IN
  /\ pc = "delete" /\ i < array_size /\ e.hashvalue # 0
  /\ \/ /\ e.key = key
        /\ elements' = without
        /\ nr_elements' = nr_elements - 1
     \/ /\ e.key # key
        /\ elements' = [without EXCEPT ![FreePlace(without, e.hashvalue)] = e]
        /\ UNCHANGED nr_elements
  /\ i' = i + 1
  /\ UNCHANGED <<pc, key, data, old, table_size_index, result, allow_duplicates>>

Deleted ==
  /\ pc = "delete"
  /\ i = array_size \/ elements[DeletePlace].hashvalue = 0
  /\ pc' = "idle" /\ i' = 0 /\ key' = NoKey
  /\ UNCHANGED <<data, old, elements, table_size_index, nr_elements, result, allow_duplicates>>

Destroy ==
  /\ pc = "idle"
  /\ elements' = EmptyArray(array_size)
  /\ pc' = "none"
  /\ UNCHANGED <<i, key, data, old, table_size_index, nr_elements, result, allow_duplicates>>

Generate ==
  /\ pc = "none"
  /\ elements' = EmptyArray(Sizes[1])
  /\ table_size_index' = 1 /\ nr_elements' = 0
  /\ allow_duplicates' \in BOOLEAN
  /\ pc' = "idle"
  /\ UNCHANGED <<i, key, data, old, result>>

Next ==
  \/ \E k \in Keys :
       \/ \E d \in Data : Insert(k, d)
       \/ Get(k) \/ GetMultiple(k) \/ Index(k) \/ Delete(k)
  \/ Rehash \/ Rehashed \/ DeleteStep \/ Deleted
  \/ Destroy \/ Generate

Spec == Init /\ [][Next]_vars

-----------------------------------------------------------------------------
(* Properties.                                                             *)

\* Between calls every element is where probing for its hash finds it: the
\* places probed before it are populated.  A deletion that left a hole in a
\* run, at the end of the array too, would hide the elements behind it.
NothingHidden ==
  pc = "idle" =>
    \A p \in Populated(elements) :
      \E n \in Places : /\ Probe(elements[p].hashvalue, n) = p
                        /\ RunsTo(elements, elements[p].hashvalue, n)

\* Each growth counts again what was in the table: half of the old size, less
\* the amount by which the count was off before.
CountedTwice == CountedTwiceBy(table_size_index)

\* The count is off by just that much and never too low; so at least half of
\* the array is empty, every probe ends, and an insertion made by a growth never
\* makes the table grow again (cnhash.h:144-162).
RoomLeft ==
  /\ pc # "none" => nr_elements = Cardinality(Populated(elements)) + CountedTwice
  /\ nr_elements <= array_size \div 2
  /\ pc = "rehash" /\ i \in DOMAIN old /\ old[i].hashvalue # 0 => ~TooSmall
  /\ pc = "rehash" /\ i \notin DOMAIN old => ~TooSmall

\* "If we encounter a null, we can know all is right in the world"
\* (cnhash.h:280): when a deletion meets an empty element, no element of the
\* key is left.
AllRight ==
  pc = "delete" /\ i < array_size /\ elements[DeletePlace].hashvalue = 0 =>
    \A p \in Places : elements[p].key # key

-----------------------------------------------------------------------------
(* The multimap that the table implements.                                 *)

Count(e, k, d) ==
  Cardinality({p \in Populated(e) : e[p].key = k /\ e[p].data = d})

Pending(k, d) ==
  Cardinality({p \in Populated(old) : p >= i /\ old[p].key = k /\ old[p].data = d})

\* Elements not yet inserted again are still in the map; those of the key that
\* is being deleted are gone.
Contents ==
  [kd \in Keys \X Data |->
     CASE pc = "none" -> 0
       [] pc = "delete" /\ kd[1] = key -> 0
       [] OTHER -> Count(elements, kd[1], kd[2]) + Pending(kd[1], kd[2])]

\* An insertion fails only when the largest array is as full as it gets.
Capacity == Room(Len(Sizes))

Map == INSTANCE Multimap WITH contents <- Contents
ImplementsMultimap == Map!Spec
=============================================================================
