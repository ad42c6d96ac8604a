------------------------------ MODULE Multimap ------------------------------
(***************************************************************************)
(* What a multi-entry hash map promises: pairs put in are there, as often  *)
(* as they were put in, until their key is deleted.  Without duplicates,   *)
(* the first pair of a key stays.  Room is refused only to a full map.     *)
(***************************************************************************)
EXTENDS Naturals, FiniteSets

CONSTANTS Keys, Data, Capacity

VARIABLES contents,          \* how often each pair is in the map
          allow_duplicates,  \* may a key have several pairs
          result             \* what the last call returned: one pair of a key
                             \* or all of them, and each data how often

vars == <<contents, allow_duplicates, result>>

NoPairs == [p \in Keys \X Data |-> 0]

Nothing == [all |-> FALSE, found |-> [d \in Data |-> 0]]
One(x) == [all |-> FALSE, found |-> [d \in Data |-> IF d = x THEN 1 ELSE 0]]
All(k) == [all |-> TRUE, found |-> [d \in Data |-> contents[<<k, d>>]]]
Has(k) == \E d \in Data : contents[<<k, d>>] > 0

Init == /\ contents = NoPairs
        /\ allow_duplicates \in BOOLEAN
        /\ result = Nothing

Put(k, d) == /\ allow_duplicates \/ ~Has(k)
             /\ contents' = [contents EXCEPT ![<<k, d>>] = @ + 1]
             /\ result' = One(d)
             /\ UNCHANGED allow_duplicates

\* One of the pairs of k, if there is one.
Get(k) == /\ \/ \E d \in Data : contents[<<k, d>>] > 0 /\ result' = One(d)
             \/ ~Has(k) /\ result' = Nothing
          /\ UNCHANGED <<contents, allow_duplicates>>

GetMultiple(k) == result' = All(k) /\ UNCHANGED <<contents, allow_duplicates>>

\* A pair that is in the map n times has n copies.
Copies == UNION {{p} \X (1 .. contents[p]) : p \in Keys \X Data}
Size == Cardinality(Copies)

Fail == /\ Size >= Capacity
        /\ result' = Nothing
        /\ UNCHANGED <<contents, allow_duplicates>>

Delete(k) == /\ contents' = [p \in Keys \X Data |-> IF p[1] = k THEN 0 ELSE contents[p]]
             /\ UNCHANGED <<allow_duplicates, result>>

Destroy == contents' = NoPairs /\ UNCHANGED <<allow_duplicates, result>>

\* A new map in the place of an empty one.
Generate == /\ contents = NoPairs
            /\ allow_duplicates' \in BOOLEAN
            /\ UNCHANGED <<contents, result>>

Next == \/ \E k \in Keys : Get(k) \/ GetMultiple(k) \/ Delete(k)
        \/ \E k \in Keys, d \in Data : Put(k, d)
        \/ Fail \/ Destroy \/ Generate

Spec == Init /\ [][Next]_vars
=============================================================================
