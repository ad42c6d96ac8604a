------------------------------ MODULE HuffTree ------------------------------
(***************************************************************************)
(* The Huffman table generator of hufftreegen.h, used as its own example   *)
(* uses it: HuffmanAppendHelper counts the data, GenerateHuffmanTree fills *)
(* the table with a min-heap, GenPairTable lists the code of each symbol,  *)
(* and what is encoded is walked down the tree again.                      *)
(*                                                                         *)
(* hufffreq is an unsigned number of WIDTH bits; the first of the two      *)
(* loops compares it as a signed int.                                      *)
(***************************************************************************)
EXTENDS Integers, Sequences, SequencesExt, FiniteSetsExt

CONSTANTS
  WIDTH,      \* bits of hufffreq and of int (32)
  Counts,     \* counts the data may have had before: sequences of numbers
  MAX_DATA    \* data that are still appended: a bound of the model

ASSUME WidthAssumption == WIDTH \in Nat \ {0, 1} /\ MAX_DATA \in Nat

VARIABLES
  phase,        \* append, insert, merge, pairs or done
  counts,       \* counts[j] of the value j
  appended,     \* how many data were appended
  tab,          \* the table, from index 0
  minheap,      \* indices of tab, a sequence of length minhlen
  idx, e        \* i and e of the loops

huffVars == <<phase, counts, appended, tab, minheap, idx, e>>

Frequency == 0 .. 2 ^ WIDTH - 1
Signed(f) == IF f < 2 ^ (WIDTH - 1) THEN f ELSE f - 2 ^ WIDTH

Blank == [freq |-> 0, is_term |-> FALSE, pair0 |-> 0, pair1 |-> 0, value |-> 0]

oecount == Cardinality({j \in DOMAIN counts : counts[j] # 0})

HuffInit ==
  /\ phase = "append" /\ counts \in Counts /\ appended = 0
  /\ tab = <<>> /\ minheap = <<>> /\ idx = 0 /\ e = 0

\* HuffmanAppendHelper: a value that is there counts once more, else it is added.
Count ==
  /\ phase = "append" /\ appended < MAX_DATA /\ appended' = appended + 1
  /\ \/ \E j \in DOMAIN counts : counts' = [counts EXCEPT ![j] = (@ + 1) % 2 ^ WIDTH]
     \/ counts' = Append(counts, 1)
  /\ UNCHANGED <<phase, tab, minheap, idx, e>>

\* No table for no pair.  With pairs that all count zero its length would be -1
\* and calloc fails.
Generate ==
  /\ phase = "append"
  /\ IF oecount = 0 THEN phase' = "none" /\ UNCHANGED <<tab, idx>>
     ELSE /\ phase' = "insert" /\ tab' = [n \in 0 .. 2 * oecount - 2 |-> Blank] /\ idx' = oecount - 1
  /\ UNCHANGED <<counts, appended, minheap, e>>

-----------------------------------------------------------------------------
Swap(heap, p, q) == [heap EXCEPT ![p] = heap[q], ![q] = heap[p]]

RECURSIVE PercUp(_, _, _)
\* The new value at p of the heap moves up while its parent is greater.
PercUp(heap, p, tf) ==
  LET parent == p \div 2
  IN IF p = 1 \/ Signed(tab[heap[parent]].freq) <= tf THEN heap
     ELSE PercUp(Swap(heap, parent, p), parent, tf)

\* Mutant: the right child is compared with the parent, not the smaller one.
Smallest_Right(t, heap, p, f) ==
  LET left == 2 * p
      right == left + 1
  IN IF right <= Len(heap) /\ t[heap[right]].freq < f THEN right
     ELSE IF left <= Len(heap) /\ t[heap[left]].freq < f THEN left ELSE p

\* Which of p and its children p changes places with
Smallest(t, heap, p, f) ==
  LET left == 2 * p
      right == left + 1
      smaller == IF left <= Len(heap) /\ t[heap[left]].freq < f THEN left ELSE p
      fcomp == IF smaller = left THEN t[heap[left]].freq ELSE f
  IN IF right <= Len(heap) /\ t[heap[right]].freq < fcomp THEN right ELSE smaller

RECURSIVE PercDown(_, _, _, _)
PercDown(t, heap, p, f) ==
  LET s == Smallest(t, heap, p, f)
  IN IF s = p THEN heap ELSE PercDown(t, Swap(heap, p, s), s, f)

\* From the top, if there is one
Settle(t, heap) == IF heap = <<>> THEN heap ELSE PercDown(t, heap, 1, t[heap[1]].freq)

\* One turn of the loop that appends each value to the heap
Insert ==
  LET pair == Min({j \in DOMAIN counts : j > e /\ counts[j] # 0})
      term == [Blank EXCEPT !.is_term = TRUE, !.value = pair, !.freq = counts[pair]]
  IN /\ phase = "insert"
     /\ IF idx < 2 * oecount - 1
        THEN /\ tab' = [tab EXCEPT ![idx] = term]
             /\ minheap' = PercUp(Append(minheap, idx), Len(minheap) + 1, Signed(counts[pair]))
             /\ idx' = idx + 1 /\ e' = pair /\ UNCHANGED phase
        ELSE /\ phase' = "merge" /\ idx' = oecount - 2 /\ UNCHANGED <<tab, minheap, e>>
     /\ UNCHANGED <<counts, appended>>

\* One turn of the loop that fills the table from the back
Merge ==
  LET pair0 == minheap[1]
      rest == Settle(tab, [SubSeq(minheap, 1, Len(minheap) - 1) EXCEPT ![1] = Last(minheap)])
      pair1 == rest[1]
      joined == [tab EXCEPT ![idx] =
                   [@ EXCEPT !.pair0 = pair0, !.pair1 = pair1,
                             !.freq = (tab[pair0].freq + tab[pair1].freq) % 2 ^ WIDTH]]
  IN /\ phase = "merge"
     /\ IF idx >= 0
        THEN /\ tab' = joined /\ minheap' = Settle(joined, [rest EXCEPT ![1] = idx])
             /\ idx' = idx - 1 /\ UNCHANGED phase
        ELSE phase' = "done" /\ UNCHANGED <<tab, minheap, idx>>
     /\ UNCHANGED <<counts, appended, e>>

HuffNext == Count \/ Generate \/ Insert \/ Merge

HuffSpec == HuffInit /\ [][HuffNext]_huffVars

-----------------------------------------------------------------------------
\* GenPairTable: the leaves from left to right with the bits on the way to them.
\* The children of an element come after it in the table.
PairTable ==
  LET after(bit, c) == [k \in DOMAIN c |-> [c[k] EXCEPT !.bits = <<bit>> \o @]]
      under[n \in DOMAIN tab] ==
        LET left  == under[tab[n].pair0]
            right == under[tab[n].pair1]
        IN IF tab[n].is_term THEN <<[value |-> tab[n].value, bits |-> <<>>]>>
           ELSE after(0, left) \o after(1, right)
  IN under[0]

\* The example's decoding loop: the place in the tree and what was emitted.  It
\* ends with the bits, so the last value is reached and not emitted.
Walk(bits) ==
  FoldLeft(LAMBDA w, bit :
             LET root == IF tab[w.place].is_term THEN [place |-> 0, out |-> Append(w.out, tab[w.place].value)]
                         ELSE w
             IN [root EXCEPT !.place = IF bit = 1 THEN tab[@].pair1 ELSE tab[@].pair0],
           [place |-> 0, out |-> <<>>], bits)

-----------------------------------------------------------------------------
Total(f) == FoldLeft(LAMBDA s, x : s + x, 0, f)

\* Lengths that a prefix code of k symbols may have, without a bit to spare
KraftLengths ==
  [k \in 2 .. Max({Len(c) : c \in Counts}) + MAX_DATA |->
     {l \in [1 .. k -> 1 .. k - 1] : Total([n \in 1 .. k |-> 2 ^ (k - l[n])]) = 2 ^ k}]

\* The code of hufftreegen.h:12 "will give you an optimal huffman tree": every
\* value with a count has a code, what two codes in a row encode is decoded, and
\* no prefix code is shorter, as long as no count is negative as an int and their
\* sum does not wrap.  The decoding loop gets back all but the last value; with
\* one value alone the code has no bits.
CodeOptimal ==
  phase = "done" =>
    LET codes == PairTable
        k == Len(codes)
        cost(l) == Total([n \in 1 .. k |-> counts[codes[n].value] * l[n]])
    IN /\ {codes[n].value : n \in 1 .. k} = {j \in DOMAIN counts : counts[j] # 0}
       /\ k = oecount
       /\ k > 1 => \A a, b \in 1 .. k :
            LET w == Walk(codes[a].bits \o codes[b].bits)
            IN /\ w.out = <<codes[a].value>>
               /\ tab[w.place].is_term /\ tab[w.place].value = codes[b].value
       /\ k > 1 /\ Total(counts) \in Frequency /\ (\A j \in DOMAIN counts : Signed(counts[j]) >= 0) =>
            \A l \in KraftLengths[k] : cost([n \in 1 .. k |-> Len(codes[n].bits)]) <= cost(l)
=============================================================================
