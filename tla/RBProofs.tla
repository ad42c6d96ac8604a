------------------------------ MODULE RBProofs ------------------------------
(***************************************************************************)
(* The red-black tree of CNRBTree is one in every state, for every finite  *)
(* set of keys.                                                            *)
(*                                                                         *)
(* The links are a tree of the nodes N if a function D gives for every     *)
(* node the nodes below it and a function H the number of blacks on the    *)
(* ways down.  D and H are no variables: the invariant says that they      *)
(* exist, and the lemma on a step says how they change.  The recursive     *)
(* functions of the model are unfolded by a lemma each, and an induction   *)
(* over the tree is a least counterexample: a lowest or a highest node     *)
(* for which a claim fails.                                                *)
(*                                                                         *)
(* That a link leads to a node that has a name is written as a membership, *)
(* m[s][p] \in {x}: an equation would be used to rewrite the name in every *)
(* other fact, and nested links would outgrow the provers.                 *)
(***************************************************************************)
EXTENDS CNRBTree, FiniteSetTheorems, WellFoundedInduction, TLAPS

-----------------------------------------------------------------------------
(* Memory: what the writes of the code change.                             *)

\* Every field of every node is there; nil has its own.
IsMemory(m) ==
  /\ DOMAIN m = {"parent", "left", "right", "color"}
  /\ m.parent \in [Cells -> Cells]
  /\ m.left \in [Cells -> Cells] /\ m.right \in [Cells -> Cells]
  /\ m.color \in [Cells -> {"red", "black"}]

\* a comes before b when one goes from right to left for "left", ascending.
Before(s, a, b) == IF s = "left" THEN a < b ELSE a > b

\* The nodes N hang from top in m; D gives every node the set of those below it.
Shape(m, N, D, top) ==
  /\ IsMemory(m)
  /\ m.left[nil] = nil /\ m.right[nil] = nil
  /\ N \subseteq Keys
  /\ D \in [N \cup {nil} -> SUBSET N]
  /\ top \in N \cup {nil} /\ D[top] = N /\ D[nil] = {}
  /\ top # nil => m.parent[top] = nil
  /\ \A n \in N, s \in Sides :
       /\ m[s][n] \in N \cup {nil}
       /\ D[n] = {n} \cup D[m[s][n]] \cup D[m[Opposite[s]][n]]
       /\ m[s][n] # nil => m.parent[m[s][n]] = n
       /\ \A b \in D[m[s][n]] : Before(s, b, n)
  /\ \A n \in N \ {top} : m.parent[n] \in N /\ \E s \in Sides : m[s][m.parent[n]] = n

\* What a node adds to the number of blacks above it.
Weight(m, n) == IF Red(m, n) THEN 0 ELSE 1

\* On side gs of gp one black is missing; gp is nil if none is.
Balanced(m, N, H, gp, gs) ==
  /\ H \in [N \cup {nil} -> Nat] /\ H[nil] = 0
  /\ \A n \in N, s \in Sides :
       H[n] = H[m[s][n]] + (IF n = gp /\ s = gs THEN 1 ELSE 0) + Weight(m, n)

\* A red node under a red one.
RedPair(m, n) == m.parent[n] # nil /\ Red(m, n) /\ Red(m, m.parent[n])

\* Two writes of one pointer each, the steps that a rotation is made of.
SetChild(m, s, n, c) == [m EXCEPT ![s][n] = c]
\* Likewise for the parent.
SetParent(m, n, c) == [m EXCEPT !.parent[n] = c]

\* A pointer of a node leads to a node or to nil.
LEMMA Children ==
  ASSUME NEW m, IsMemory(m), NEW s \in Sides, NEW x \in Cells
  PROVE  m[s][x] \in Cells
BY DEF IsMemory, Sides

\* The other side is a side and is not this one.
LEMMA OppositeSide ==
  ASSUME NEW s \in Sides
  PROVE  Opposite[s] \in Sides /\ Opposite[s] # s /\ Opposite[Opposite[s]] = s
BY DEF Sides, Opposite

\* There are two sides only.
LEMMA TwoSides ==
  ASSUME NEW s \in Sides, NEW t \in Sides, t # s
  PROVE  t = Opposite[s]
BY DEF Sides, Opposite

\* Writing a child pointer changes that pointer alone.
LEMMA SetChildFields ==
  ASSUME NEW m, IsMemory(m), NEW s \in Sides, NEW n \in Cells, NEW c \in Cells
  PROVE  LET r == SetChild(m, s, n, c) IN
         /\ IsMemory(r) /\ r.parent = m.parent /\ r.color = m.color
         /\ \A t \in Sides : \A x \in Cells : 
               r[t][x] = IF t = s /\ x = n THEN c ELSE m[t][x]
<1>1. CASE s = "left"
  BY <1>1 DEF SetChild, IsMemory, Sides
<1>2. CASE s = "right"
  BY <1>2 DEF SetChild, IsMemory, Sides
<1> QED BY <1>1, <1>2 DEF Sides

\* Writing a parent pointer changes that pointer alone.
LEMMA SetParentFields ==
  ASSUME NEW m, IsMemory(m), NEW n \in Cells, NEW c \in Cells
  PROVE  LET r == SetParent(m, n, c) IN
         /\ IsMemory(r) /\ r.color = m.color /\ r.left = m.left /\ r.right = m.right
         /\ r.parent = [m.parent EXCEPT ![n] = c]
BY DEF SetParent, IsMemory, Sides

\* What Adopt writes: the parent of the child, if there is one.
LEMMA AdoptFields ==
  ASSUME NEW m, IsMemory(m), NEW n \in Cells, NEW c \in Cells
  PROVE  LET r == Adopt(m, n, c) IN
         /\ IsMemory(r) /\ r.color = m.color /\ r.left = m.left /\ r.right = m.right
         /\ \A x \in Cells : r.parent[x] = IF x = c /\ c # nil THEN n ELSE m.parent[x]
<1>1. CASE c = nil
  BY <1>1 DEF Adopt
<1>2. CASE c # nil
  <2>1. Adopt(m, n, c) = SetParent(m, c, n)
    BY <1>2 DEF Adopt, SetParent
  <2> DEFINE r == SetParent(m, c, n)
  <2>2. /\ IsMemory(r) /\ r.color = m.color /\ r.left = m.left /\ r.right = m.right
        /\ r.parent = [m.parent EXCEPT ![c] = n]
    BY SetParentFields
  <2> QED
    BY <2>1, <2>2, <1>2 DEF IsMemory
<1> QED
  BY <1>1, <1>2

\* What Rehang writes: the one link that led from p to n.
LEMMA RehangFields ==
  ASSUME NEW m, IsMemory(m), NEW p \in Cells, NEW n \in Cells, NEW c \in Cells
  PROVE  LET r == Rehang(m, p, n, c) IN
         /\ IsMemory(r) /\ r.color = m.color /\ r.parent = m.parent
         /\ \A t \in Sides : \A x \in Cells : r[t][x] =
               IF p # nil /\ m[t][p] = n /\ t = SideOf(m, n, p) /\ x = p THEN c ELSE m[t][x]
<1> DEFINE up == SideOf(m, n, p)
<1>1. up \in Sides
  BY DEF SideOf, Sides
<1>2. CASE p # nil /\ m[up][p] = n
  <2>1. Rehang(m, p, n, c) = SetChild(m, up, p, c)
    BY <1>2 DEF Rehang, SetChild
  <2> HIDE DEF up
  <2> DEFINE r == SetChild(m, up, p, c)
  <2>2. /\ IsMemory(r) /\ r.parent = m.parent /\ r.color = m.color
        /\ \A t \in Sides : \A x \in Cells :
              r[t][x] = IF t = up /\ x = p THEN c ELSE m[t][x]
    BY <1>1, SetChildFields
  <2> HIDE DEF r
  <2>3. \A t \in Sides : \A x \in Cells : r[t][x] =
               IF p # nil /\ m[t][p] = n /\ t = up /\ x = p THEN c ELSE m[t][x]
    BY <2>2, <1>2
  <2> QED
    BY <2>1, <2>2, <2>3 DEF up, r
<1>3. CASE ~(p # nil /\ m[up][p] = n)
  BY <1>3 DEF Rehang
<1> QED
  BY <1>2, <1>3

\* What a rotation writes, field by field: the four links that turn and their
\* parents, and nothing else.
LEMMA RotateFields ==
  ASSUME NEW m, IsMemory(m), NEW n \in Keys, NEW s \in Sides,
         m[Opposite[s]][n] \in Keys \ {n},
         m[s][m[Opposite[s]][n]] # n,
         m.parent[n] \notin {n, m[Opposite[s]][n]},
         m.left[nil] = nil, m.right[nil] = nil,
         \A t \in Sides : m[t][m.parent[n]] = n => t = SideOf(m, n, m.parent[n])
  PROVE  LET nnew  == m[Opposite[s]][n]
             p     == m.parent[n]
             inner == m[s][nnew]
             r     == Rotate(m, n, s)
         IN  /\ IsMemory(r)
             /\ r.color = m.color
             /\ \A x \in Cells : r.parent[x] =
                  IF x = nnew THEN p ELSE IF x = n THEN nnew
                  ELSE IF x = inner /\ inner # nil THEN n ELSE m.parent[x]
             /\ \A t \in Sides : \A x \in Cells : r[t][x] =
                  IF x = n THEN IF t = s THEN m[s][n] ELSE inner
                  ELSE IF x = nnew THEN IF t = s THEN n ELSE m[t][nnew]
                  ELSE IF x = p /\ m[t][p] = n THEN nnew ELSE m[t][x]
<1> DEFINE o == Opposite[s]
           nnew == m[o][n]
           p == m.parent[n]
           inner == m[s][nnew]
           r1 == SetChild(m, o, n, inner)
           r2 == SetChild(r1, s, nnew, n)
           r3 == SetParent(r2, n, nnew)
           r4 == Adopt(r3, n, inner)
           r5 == Rehang(r4, p, n, nnew)
           r6 == SetParent(r5, nnew, p)
<1>1. o \in Sides /\ o # s 
  BY OppositeSide
<1>2. p \in Cells /\ nnew \in Keys /\ inner \in Cells /\ n \in Cells /\ nil \in Cells /\ nnew \in Cells
  BY <1>1, Children DEF IsMemory, Cells
<1>3. Rotate(m, n, s) = r6
  BY DEF Rotate, SetChild, SetParent
<1>4. n # nnew /\ p # n /\ p # nnew /\ inner # n
  OBVIOUS
<1>5. inner # nil => inner \in Keys
  BY <1>2 DEF Cells
<1>6. \A t \in Sides : m[t][p] = n => t = SideOf(m, n, p)
  OBVIOUS
<1>7. \A t \in Sides : m[t][nil] # n
  BY KeysAssumption DEF Sides
<1>. HIDE DEF o, nnew, p, inner
<1>11. /\ IsMemory(r1) /\ r1.parent = m.parent /\ r1.color = m.color
       /\ \A t \in Sides : \A x \in Cells : r1[t][x] = IF t = o /\ x = n THEN inner ELSE m[t][x]
  BY <1>1, <1>2, SetChildFields
<1>11a. IsMemory(r1)
  BY <1>11
<1> HIDE DEF r1
<1>12. /\ IsMemory(r2) /\ r2.parent = r1.parent /\ r2.color = r1.color
       /\ \A t \in Sides : \A x \in Cells : r2[t][x] = IF t = s /\ x = nnew THEN n ELSE r1[t][x]
  BY <1>1, <1>2, <1>11a, SetChildFields
<1>12a. IsMemory(r2)
  BY <1>12
<1> HIDE DEF r2
<1>13. /\ IsMemory(r3) /\ r3.color = r2.color
       /\ \A x \in Cells : r3.parent[x] = IF x = n THEN nnew ELSE r2.parent[x]
       /\ \A t \in Sides : \A x \in Cells : r3[t][x] = r2[t][x]
  <2>1. /\ IsMemory(r3) /\ r3.color = r2.color /\ r3.left = r2.left /\ r3.right = r2.right
        /\ r3.parent = [r2.parent EXCEPT ![n] = nnew]
    BY <1>2, <1>12a, SetParentFields
  <2> QED
    BY <2>1, <1>2, <1>12a DEF IsMemory, Sides
<1>13a. IsMemory(r3)
  BY <1>13
<1> HIDE DEF r3
<1>14. /\ IsMemory(r4) /\ r4.color = r3.color
       /\ \A x \in Cells : r4.parent[x] = IF x = inner /\ inner # nil THEN n ELSE r3.parent[x]
       /\ \A t \in Sides : \A x \in Cells : r4[t][x] = r3[t][x]
  <2>1. /\ IsMemory(r4) /\ r4.color = r3.color /\ r4.left = r3.left /\ r4.right = r3.right
        /\ \A x \in Cells : r4.parent[x] = IF x = inner /\ inner # nil THEN n ELSE r3.parent[x]
    BY <1>2, <1>13a, AdoptFields
  <2> QED
    BY <2>1 DEF Sides
<1>14a. IsMemory(r4)
  BY <1>14
<1> HIDE DEF r4
<1>15. /\ IsMemory(r5) /\ r5.color = r4.color /\ r5.parent = r4.parent
       /\ \A t \in Sides : \A x \in Cells : r5[t][x] = IF p # nil /\ r4[t][p] = n /\ t = SideOf(r4, n, p) /\ x = p THEN nnew ELSE r4[t][x]
  BY <1>1, <1>2, <1>14a, RehangFields
<1>15a. IsMemory(r5)
  BY <1>15
<1> HIDE DEF r5
<1>16. /\ IsMemory(r6) /\ r6.color = r5.color
       /\ \A x \in Cells : r6.parent[x] = IF x = nnew THEN p ELSE r5.parent[x]
       /\ \A t \in Sides : \A x \in Cells : r6[t][x] = r5[t][x]
  <2>1. /\ IsMemory(r6) /\ r6.color = r5.color /\ r6.left = r5.left /\ r6.right = r5.right
        /\ r6.parent = [r5.parent EXCEPT ![nnew] = p]
    BY <1>2, <1>15a, SetParentFields
  <2> QED
    BY <2>1, <1>2, <1>15a DEF IsMemory, Sides
<1> HIDE DEF r6
<1>21. \A t \in Sides : \A x \in Cells : r4[t][x] = IF x = n THEN IF t = s THEN m[s][n] ELSE inner
                  ELSE IF x = nnew THEN IF t = s THEN n ELSE m[t][nnew] ELSE m[t][x]
  BY <1>1, <1>2, <1>4, <1>11, <1>12, <1>13, <1>14, TwoSides DEF o
<1>22. r4.left[p] = m.left[p]
  <2>1. r4["left"][p] = m["left"][p]
    BY <1>21, <1>2, <1>4 DEF Sides
  <2> QED BY <2>1
<1>23. SideOf(r4, n, p) = SideOf(m, n, p)
  BY <1>22 DEF SideOf
<1>26. \A t \in Sides : \A x \in Cells : r6[t][x] = IF p # nil /\ r4[t][p] = n /\ t = SideOf(r4, n, p) /\ x = p THEN nnew ELSE r4[t][x]
  BY <1>16, <1>15
<1>24. \A t \in Sides : \A x \in Cells : r6[t][x] =
                  IF x = n THEN IF t = s THEN m[s][n] ELSE inner
                  ELSE IF x = nnew THEN IF t = s THEN n ELSE m[t][nnew]
                  ELSE IF x = p /\ m[t][p] = n THEN nnew ELSE m[t][x]
  BY <1>21, <1>26, <1>6, <1>7, <1>2, <1>23, <1>4
<1>25. \A x \in Cells : r6.parent[x] =
                  IF x = nnew THEN p ELSE IF x = n THEN nnew
                  ELSE IF x = inner /\ inner # nil THEN n ELSE m.parent[x]
  <2>1. \A x \in Cells : r6.parent[x] = IF x = nnew THEN p ELSE r4.parent[x]
    BY <1>15, <1>16
  <2>2. \A x \in Cells : r3.parent[x] = IF x = n THEN nnew ELSE m.parent[x]
    BY <1>11, <1>12, <1>13
  <2> QED
    BY <2>1, <2>2, <1>14, <1>4
<1> QED
  BY <1>3, <1>24, <1>25, <1>16, <1>15, <1>14, <1>13, <1>12, <1>11 DEF nnew, p, inner, o

-----------------------------------------------------------------------------
(* Trees: order, nodes below, and what rotating, hanging and cutting do.   *)

\* On either side the keys are in a strict total order.
LEMMA BeforeOrder ==
  ASSUME NEW s \in Sides
  PROVE  /\ \A a \in Keys : ~Before(s, a, a)
         /\ \A a, b \in Keys : Before(s, a, b) <=> Before(Opposite[s], b, a)
         /\ \A a, b \in Keys : ~(Before(s, a, b) /\ Before(s, b, a))
         /\ \A a, b, c \in Keys : Before(s, a, b) /\ Before(s, b, c) => Before(s, a, c)
         /\ \A a, b \in Keys : a # b => Before(s, a, b) \/ Before(s, b, a)
BY KeysAssumption DEF Before, Sides, Opposite

\* What a tree says of one node and its children.
LEMMA ShapeFacts ==
  ASSUME NEW m, NEW N, NEW D, NEW top, Shape(m, N, D, top),
         NEW n \in N, NEW s \in Sides
  PROVE  /\ n \in Keys /\ n # nil /\ m[s][n] \in Cells
         /\ n \in D[n] /\ D[n] \subseteq N
         /\ m[s][n] # n
         /\ n \notin D[m[s][n]]
         /\ m[s][n] # nil => m[s][n] \in D[m[s][n]]
         /\ D[m[s][n]] \subseteq D[n]
         /\ D[m[s][n]] \cap D[m[Opposite[s]][n]] = {}
         /\ m[s][n] # nil => m[s][n] # m[Opposite[s]][n]
<1> DEFINE o == Opposite[s]
<1>1. o \in Sides /\ Opposite[o] = s
  BY OppositeSide
<1>2. N \subseteq Keys /\ n \in Keys /\ n # nil
  BY KeysAssumption DEF Shape
<1>3. \A t \in Sides : /\ m[t][n] \in N \cup {nil}
            /\ D[n] = {n} \cup D[m[t][n]] \cup D[m[Opposite[t]][n]]
            /\ \A b \in D[m[t][n]] : Before(t, b, n)
  BY DEF Shape
<1>4. D \in [N \cup {nil} -> SUBSET N] /\ D[nil] = {}
  BY DEF Shape
<1>5. \A x \in N : x \in D[x]
  <2> TAKE x \in N
  <2> D[x] = {x} \cup D[m[s][x]] \cup D[m[Opposite[s]][x]]
    BY DEF Shape
  <2> QED OBVIOUS
<1> HIDE DEF o
<1>6. \A b \in D[m[s][n]] : b \in Keys /\ Before(s, b, n)
  BY <1>2, <1>3, <1>4
<1>7. \A b \in D[m[o][n]] : b \in Keys /\ Before(o, b, n)
  BY <1>1, <1>2, <1>3, <1>4
<1>8. n \notin D[m[s][n]]
  BY <1>2, <1>6, BeforeOrder
<1>9. D[m[s][n]] \cap D[m[o][n]] = {}
  <2>1. \A b \in D[m[s][n]] : ~Before(o, b, n)
    <3> TAKE b \in D[m[s][n]]
    <3>1. Before(s, b, n) /\ b \in Keys
      BY <1>6
    <3>2. ~Before(s, n, b)
      BY <3>1, <1>2, BeforeOrder
    <3>3. Before(o, b, n) <=> Before(s, n, b)
      BY <3>1, <1>2, <1>1, BeforeOrder DEF o
    <3> QED
      BY <3>2, <3>3
  <2> QED
    BY <2>1, <1>7
<1> QED
  BY <1>1, <1>2, <1>3, <1>4, <1>5, <1>8, <1>9 DEF o, Cells

\* The nodes below each node after a rotation: the two that turn change theirs.
RotatedSets(D, m, n, s) ==
  [D EXCEPT ![n] = {n} \cup D[m[s][n]] \cup D[m[s][m[Opposite[s]][n]]],
            ![m[Opposite[s]][n]] = D[n]]

\* A rotation of a tree is a tree of the same nodes in the same order.
LEMMA RotateShape ==
  ASSUME NEW m, NEW N, NEW D, NEW top, Shape(m, N, D, top),
         NEW n \in N, NEW s \in Sides, m[Opposite[s]][n] # nil
  PROVE  LET nnew  == m[Opposite[s]][n]
             p     == m.parent[n]
             inner == m[s][nnew]
             r     == Rotate(m, n, s)
         IN  /\ Shape(r, N, RotatedSets(D, m, n, s), IF n = top THEN nnew ELSE top)
             /\ r.color = m.color
             /\ nnew \in N /\ nnew # n /\ inner # n /\ inner # nnew
             /\ \A x \in Cells : r.parent[x] =
                  IF x = nnew THEN p ELSE IF x = n THEN nnew
                  ELSE IF x = inner /\ inner # nil THEN n ELSE m.parent[x]
             /\ \A t \in Sides : \A x \in Cells : r[t][x] =
                  IF x = n THEN IF t = s THEN m[s][n] ELSE inner
                  ELSE IF x = nnew THEN IF t = s THEN n ELSE m[t][nnew]
                  ELSE IF x = p /\ m[t][p] = n THEN nnew ELSE m[t][x]
<1> DEFINE o == Opposite[s]
           nnew == m[o][n]
           p == m.parent[n]
           inner == m[s][nnew]
           a == m[s][n]
           r == Rotate(m, n, s)
           E == RotatedSets(D, m, n, s)
           newTop == IF n = top THEN nnew ELSE top
<1>1. o \in Sides /\ o # s /\ Opposite[o] = s
  BY OppositeSide
<1>2. /\ IsMemory(m) /\ N \subseteq Keys /\ nil \notin Keys
      /\ m.left[nil] = nil /\ m.right[nil] = nil
      /\ D \in [N \cup {nil} -> SUBSET N] /\ D[nil] = {} /\ D[top] = N
      /\ top \in N \cup {nil}
      /\ top # nil => m.parent[top] = nil
  BY KeysAssumption DEF Shape
<1>3. \A x \in N, t \in Sides :
       /\ m[t][x] \in N \cup {nil}
       /\ D[x] = {x} \cup D[m[t][x]] \cup D[m[Opposite[t]][x]]
       /\ m[t][x] # nil => m.parent[m[t][x]] = x
       /\ \A b \in D[m[t][x]] : Before(t, b, x)
  BY DEF Shape
<1>4. \A x \in N \ {top} : m.parent[x] \in N /\ \E t \in Sides : m[t][m.parent[x]] = x
  BY DEF Shape
<1>5. nnew \in N /\ nnew # n /\ n \in Keys /\ n # nil /\ nnew # nil
  BY <1>1, <1>2, <1>3, ShapeFacts
<1>6. a \in N \cup {nil} /\ inner \in N \cup {nil}
  BY <1>3, <1>5
<1>7. /\ n \notin D[a] /\ n \notin D[nnew] /\ nnew \in D[nnew] /\ nnew \in D[n]
      /\ nnew \notin D[inner] /\ D[inner] \subseteq D[nnew]
      /\ inner # nil => inner \in D[inner]
      /\ a # nil => a \in D[a]
      /\ nnew \notin D[a]
  <2>1. /\ n \notin D[a]
        /\ a # nil => a \in D[a]
        /\ D[a] \cap D[nnew] = {}
    BY ShapeFacts
  <2>2. n \notin D[nnew] /\ D[nnew] \subseteq D[n]
    BY ShapeFacts, <1>1
  <2>3. /\ nnew \notin D[inner] /\ D[inner] \subseteq D[nnew] /\ nnew \in D[nnew]
        /\ inner # nil => inner \in D[inner]
    BY ShapeFacts, <1>5
  <2> QED BY <2>1, <2>2, <2>3
<1>8. inner # n /\ inner # nnew /\ a # n /\ a # nnew
  BY <1>7, <1>5
<1>9. /\ p \in N \cup {nil} /\ p # n /\ p # nnew
      /\ n = top <=> p = nil
      /\ p # nil => \E t \in Sides : m[t][p] = n
  <2>1. CASE n = top
    BY <2>1, <1>2, <1>5
  <2>2. CASE n # top
    <3>1. p \in N /\ \E t \in Sides : m[t][p] = n
      BY <2>2, <1>4
    <3>2. p # n
      BY <3>1, ShapeFacts
    <3>3. p # nnew
      <4> SUFFICES ASSUME p = nnew PROVE FALSE
        OBVIOUS
      <4>1. PICK t \in Sides : m[t][nnew] = n
        BY <3>1
      <4>2. n \in D[nnew]
        BY <4>1, <1>5, ShapeFacts
      <4> QED BY <4>2, <1>7
    <3> QED
      BY <2>2, <3>1, <3>2, <3>3, <1>2
  <2> QED BY <2>1, <2>2
<1>10. \A t \in Sides : m[t][p] = n => t = SideOf(m, n, p)
  <2> SUFFICES ASSUME NEW t \in Sides, m[t][p] = n PROVE t = SideOf(m, n, p)
    OBVIOUS
  <2>1. p # nil
    BY <1>2, <1>5 DEF Sides
  <2>2. p \in N
    BY <2>1, <1>9
  <2>3. m[Opposite[t]][p] # n
    BY <2>2, <1>5, ShapeFacts
  <2>4. CASE t = "left"
    BY <2>4 DEF SideOf
  <2>5. CASE t = "right"
    <3>1. Opposite[t] = "left"
      BY <2>5 DEF Opposite
    <3> QED BY <3>1, <2>3, <2>5 DEF SideOf
  <2> QED BY <2>4, <2>5 DEF Sides
<1>11. /\ IsMemory(r)
       /\ r.color = m.color
       /\ \A x \in Cells : r.parent[x] =
            IF x = nnew THEN p ELSE IF x = n THEN nnew
            ELSE IF x = inner /\ inner # nil THEN n ELSE m.parent[x]
       /\ \A t \in Sides : \A x \in Cells : r[t][x] =
            IF x = n THEN IF t = s THEN a ELSE inner
            ELSE IF x = nnew THEN IF t = s THEN n ELSE m[t][nnew]
            ELSE IF x = p /\ m[t][p] = n THEN nnew ELSE m[t][x]
  <2>1. n \in Keys /\ nnew \in Keys \ {n} /\ inner # n
    BY <1>5, <1>2, <1>8
  <2>2. p \notin {n, nnew}
    BY <1>9
  <2>3. IsMemory(m) /\ m.left[nil] = nil /\ m.right[nil] = nil
    BY <1>2
  <2> QED
    BY <2>1, <2>2, <2>3, <1>10, RotateFields
<1>12. /\ E \in [N \cup {nil} -> SUBSET N]
       /\ E[nnew] = D[n] /\ E[n] = {n} \cup D[a] \cup D[inner]
       /\ \A x \in N \cup {nil} : x # n /\ x # nnew => E[x] = D[x]
  <2>1. {n} \cup D[a] \cup D[inner] \in SUBSET N /\ D[n] \in SUBSET N
    BY <1>2, <1>5, <1>6
  <2> QED
    BY <2>1, <1>2, <1>5 DEF RotatedSets
<1> HIDE DEF o, nnew, p, inner, a, r, E
<1>15. N \subseteq Cells /\ nil \in Cells
  BY <1>2 DEF Cells
<1>13. r.left[nil] = nil /\ r.right[nil] = nil
  <2>1. \A t \in Sides : r[t][nil] = m[t][nil]
    BY <1>11, <1>5, <1>9, <1>15, <1>2 DEF Sides
  <2> QED BY <2>1, <1>2 DEF Sides
<1>14. /\ newTop \in N \cup {nil} /\ E[newTop] = N /\ E[nil] = {}
       /\ newTop # nil => r.parent[newTop] = nil
  <2>1. top # n => top # nnew
    <3> SUFFICES ASSUME top = nnew, top # n PROVE FALSE
      OBVIOUS
    <3> n \in D[nnew]
      BY <1>2
    <3> QED BY <1>7
  <2>2. inner # nil => inner # top
    BY <1>2, <1>3, <1>5 DEF inner
  <2>3. top \in Cells /\ nnew \in Cells
    BY <1>2, <1>5, <1>15
  <2> QED BY <2>1, <2>2, <2>3, <1>2, <1>5, <1>9, <1>11, <1>12
<1> DEFINE Good(x, t) ==
       /\ r[t][x] \in N \cup {nil}
       /\ E[x] = {x} \cup E[r[t][x]] \cup E[r[Opposite[t]][x]]
       /\ r[t][x] # nil => r.parent[r[t][x]] = x
       /\ \A b \in E[r[t][x]] : Before(t, b, x)
<1>21. \A t \in Sides : Good(n, t)
  <2>1. r[s][n] = a /\ r[o][n] = inner
    BY <1>1, <1>11, <1>5, <1>15
  <2>2. E[a] = D[a] /\ E[inner] = D[inner]
    BY <1>12, <1>6, <1>8
  <2>3. (a # nil => r.parent[a] = n) /\ (inner # nil => r.parent[inner] = n)
    <3>1. a # nil => m.parent[a] = n
      BY <1>3 DEF a
    <3> QED
      BY <3>1, <1>11, <1>6, <1>8, <1>2, <1>15
  <2>4. (\A b \in D[a] : Before(s, b, n)) /\ (\A b \in D[inner] : Before(o, b, n))
    BY <1>3, <1>1, <1>7 DEF a, nnew
  <2>5. \A t \in Sides : t = s \/ t = o
    BY TwoSides DEF o
  <2> QED
    BY <2>1, <2>2, <2>3, <2>4, <2>5, <1>1, <1>6, <1>12 DEF o
<1>22. \A t \in Sides : Good(nnew, t)
  <2> DEFINE far == m[o][nnew]
  <2>1. r[s][nnew] = n /\ r[o][nnew] = far
    BY <1>1, <1>11, <1>5, <1>15
  <2>2. /\ far \in N \cup {nil} /\ far # n /\ far # nnew
        /\ D[nnew] = {nnew} \cup D[inner] \cup D[far]
        /\ far # nil => m.parent[far] = nnew
        /\ \A b \in D[far] : Before(o, b, nnew)
    <3>1. far # nnew /\ D[far] \subseteq D[nnew] /\ (far # nil => far \in D[far])
      BY <1>1, <1>5, ShapeFacts
    <3>2. far # n
      BY <3>1, <1>7, <1>5
    <3> QED
      BY <3>1, <3>2, <1>1, <1>3, <1>5 DEF o, inner
  <2> HIDE DEF far
  <2>3. E[far] = D[far] /\ E[n] = {n} \cup D[a] \cup D[inner] /\ E[nnew] = D[n]
    BY <1>12, <2>2
  <2>4. D[n] = {n} \cup D[a] \cup D[nnew]
    BY <1>3 DEF a, nnew, o
  <2>5. E[nnew] = {nnew} \cup E[n] \cup E[far]
    BY <2>2, <2>3, <2>4
  <2>6. far # nil => r.parent[far] = nnew
    <3>1. far # inner \/ inner = nil
      BY <1>1, <1>5, ShapeFacts, <2>2 DEF far, inner, o
    <3> QED
      BY <3>1, <2>2, <1>11, <1>15
  <2>7. r.parent[n] = nnew
    BY <1>11, <1>5, <1>15
  <2>8. \A b \in E[n] : Before(s, b, nnew)
    <3>1. Before(s, n, nnew)
      <4>1. Before(o, nnew, n)
        BY <1>3, <1>1, <1>7 DEF nnew
      <4> QED
        BY <4>1, <1>1, <1>5, <1>2, BeforeOrder
    <3>2. \A b \in D[a] : Before(s, b, nnew)
      <4>1. \A b \in D[a] : Before(s, b, n) /\ b \in Keys
        BY <1>3, <1>2, <1>6 DEF a
      <4> QED
        BY <4>1, <3>1, <1>5, <1>2, BeforeOrder
    <3>3. \A b \in D[inner] : Before(s, b, nnew)
      BY <1>3, <1>5 DEF inner
    <3> QED
      BY <2>3, <3>1, <3>2, <3>3
  <2>9. \A t \in Sides : t = s \/ t = o
    BY TwoSides DEF o
  <2>10. Opposite[s] = o /\ Opposite[o] = s
    BY <1>1 DEF o
  <2> QED
    BY <2>1, <2>2, <2>3, <2>5, <2>6, <2>7, <2>8, <2>9, <2>10, <1>5
<1>23. \A x \in N, t \in Sides : x # n /\ x # nnew => Good(x, t)
  <2> TAKE x \in N, t \in Sides
  <2> HAVE x # n /\ x # nnew
  <2>1. \A u \in Sides : /\ m[u][x] # nnew
                         /\ m[u][x] = n => x = p
                         /\ m[u][x] = inner => inner = nil
    <3>1. m.parent[nnew] = n /\ (inner # nil => m.parent[inner] = nnew)
      BY <1>1, <1>3, <1>5 DEF nnew, inner
    <3> QED
      BY <3>1, <1>3, <1>5 DEF p
  <2>2. \A u \in Sides : r[u][x] = IF m[u][x] = n THEN nnew ELSE m[u][x]
    BY <2>1, <1>11, <1>2, <1>15
  <2>3. \A u \in Sides : E[r[u][x]] = D[m[u][x]]
    BY <2>1, <2>2, <1>12, <1>3, <1>5
  <2>4. E[x] = D[x]
    BY <1>12
  <2>5. Opposite[t] \in Sides
    BY OppositeSide
  <2>6. r[t][x] # nil => r.parent[r[t][x]] = x
    <3>1. CASE m[t][x] = n
      BY <3>1, <2>1, <2>2, <1>11, <1>5, <1>15
    <3>2. CASE m[t][x] # n
      BY <3>2, <2>1, <2>2, <1>3, <1>11, <1>2, <1>15
    <3> QED BY <3>1, <3>2
  <2>7. r[t][x] \in N \cup {nil}
    BY <2>2, <1>3, <1>5
  <2> QED
    BY <2>3, <2>4, <2>5, <2>6, <2>7, <1>3
<1>24. \A x \in N \ {newTop} : r.parent[x] \in N /\ \E t \in Sides : r[t][r.parent[x]] = x
  <2> TAKE x \in N \ {newTop}
  <2>1. CASE x = n
    <3> r.parent[n] = nnew /\ r[s][nnew] = n
      BY <1>11, <1>5, <1>15
    <3> QED BY <2>1, <1>5
  <2>2. CASE x = nnew
    <3>1. n # top /\ p \in N
      BY <2>2, <1>9, <1>2
    <3>2. r.parent[x] = p
      BY <2>2, <1>11, <1>5, <1>15
    <3>3. PICK t \in Sides : m[t][p] = n
      BY <3>1, <1>9, <1>2
    <3>4. r[t][p] = nnew
      BY <3>1, <3>3, <1>9, <1>11, <1>15
    <3> QED BY <3>1, <3>2, <3>4, <2>2
  <2>3. CASE x = inner
    <3>1. r.parent[x] = n /\ r[o][n] = inner
      BY <2>3, <1>1, <1>11, <1>5, <1>8, <1>2, <1>15
    <3> QED BY <3>1, <2>3, <1>1
  <2>4. CASE x # n /\ x # nnew /\ x # inner
    <3>1. x # top
      BY <2>4, <1>2
    <3>2. PICK t \in Sides : m[t][m.parent[x]] = x
      BY <3>1, <1>4
    <3>3. r.parent[x] = m.parent[x] /\ m.parent[x] \in N
      BY <3>1, <1>4, <2>4, <1>11, <1>15
    <3>4. CASE m.parent[x] = n
      <4>1. t = s
        BY <3>4, <3>2, <2>4, TwoSides DEF nnew, o
      <4>2. r[s][n] = a /\ a = x
        BY <4>1, <3>2, <3>4, <1>11, <1>5, <1>15 DEF a
      <4> QED BY <4>2, <3>4, <3>3
    <3>5. CASE m.parent[x] = nnew
      <4>1. t = o
        BY <3>5, <3>2, <2>4, TwoSides DEF inner, o
      <4>2. r[o][nnew] = m[o][nnew]
        BY <1>1, <1>11, <1>5, <1>15
      <4> QED BY <4>1, <4>2, <3>2, <3>5, <3>3, <1>1
    <3>6. CASE m.parent[x] # n /\ m.parent[x] # nnew
      <4>1. r[t][m.parent[x]] = x
        BY <3>2, <3>3, <3>6, <2>4, <1>11, <1>9, <1>15
      <4> QED BY <4>1, <3>3
    <3> QED BY <3>4, <3>5, <3>6
  <2> QED BY <2>1, <2>2, <2>3, <2>4
<1>25. \A x \in N, t \in Sides : Good(x, t)
  BY <1>21, <1>22, <1>23
<1>26. Shape(r, N, E, newTop)
  BY <1>2, <1>11, <1>12, <1>13, <1>14, <1>24, <1>25 DEF Shape
<1> QED
  BY <1>5, <1>8, <1>11, <1>26 DEF r, E, newTop, nnew, p, inner, a, o

\* A memory with the same links between the nodes of a tree has that tree.
LEMMA AgreeShape ==
  ASSUME NEW m, NEW N, NEW D, NEW top, Shape(m, N, D, top),
         NEW r, IsMemory(r),
         \A t \in Sides : \A x \in N \cup {nil} : r[t][x] = m[t][x],
         \A x \in N : r.parent[x] = m.parent[x]
  PROVE  Shape(r, N, D, top)
<1>1. r.left[nil] = nil /\ r.right[nil] = nil
  <2>1. r["left"][nil] = m["left"][nil] /\ r["right"][nil] = m["right"][nil]
    BY DEF Sides
  <2> QED
    BY <2>1 DEF Shape
<1>2. Opposite["left"] \in Sides /\ Opposite["right"] \in Sides
  BY OppositeSide DEF Sides
<1>3. top # nil => r.parent[top] = nil
  BY DEF Shape
<1>4. \A n \in N, s \in Sides :
       /\ r[s][n] \in N \cup {nil}
       /\ D[n] = {n} \cup D[r[s][n]] \cup D[r[Opposite[s]][n]]
       /\ r[s][n] # nil => r.parent[r[s][n]] = n
       /\ \A b \in D[r[s][n]] : Before(s, b, n)
  <2> TAKE n \in N, s \in Sides
  <2>1. r[s][n] = m[s][n] /\ r[Opposite[s]][n] = m[Opposite[s]][n]
    BY OppositeSide
  <2>2. /\ m[s][n] \in N \cup {nil}
        /\ D[n] = {n} \cup D[m[s][n]] \cup D[m[Opposite[s]][n]]
        /\ m[s][n] # nil => m.parent[m[s][n]] = n
        /\ \A b \in D[m[s][n]] : Before(s, b, n)
    BY DEF Shape
  <2> QED BY <2>1, <2>2
<1>5. \A n \in N \ {top} : r.parent[n] \in N /\ \E s \in Sides : r[s][r.parent[n]] = n
  <2> TAKE n \in N \ {top}
  <2>1. m.parent[n] \in N /\ \E s \in Sides : m[s][m.parent[n]] = n
    BY DEF Shape
  <2> QED BY <2>1
<1> QED
  BY <1>1, <1>3, <1>4, <1>5 DEF Shape

\* The nodes below each node once k hangs from tmp.
HungSets(N, D, k, tmp) ==
  [x \in (N \cup {k}) \cup {nil} |->
     IF x = k THEN {k} ELSE IF tmp \in D[x] THEN D[x] \cup {k} ELSE D[x]]

\* A new leaf on the side where its key belongs leaves a tree.
LEMMA HangShape ==
  ASSUME NEW m, NEW N, NEW D, NEW top, Shape(m, N, D, top),
         NEW k \in Keys \ N, NEW tmp \in N, NEW side \in Sides,
         m[side][tmp] = nil, Before(side, k, tmp),
         \A x \in N \ {tmp}, t \in Sides : Before(t, tmp, x) => Before(t, k, x),
         NEW r, IsMemory(r), r.left[nil] = nil, r.right[nil] = nil,
         \A t \in Sides : r[t][k] = nil,
         \A t \in Sides : \A x \in N :
            r[t][x] = IF t = side /\ x = tmp THEN k ELSE m[t][x],
         r.parent[k] = tmp,
         \A x \in N : r.parent[x] = m.parent[x]
  PROVE  Shape(r, N \cup {k}, HungSets(N, D, k, tmp), top)
<1> DEFINE M == N \cup {k}
           E == HungSets(N, D, k, tmp)
<1>1. /\ N \subseteq Keys /\ nil \notin Keys
      /\ D \in [N \cup {nil} -> SUBSET N] /\ D[nil] = {} /\ D[top] = N
      /\ top \in N \cup {nil}
      /\ top # nil => m.parent[top] = nil
  BY KeysAssumption DEF Shape
<1>2. \A x \in N, t \in Sides :
       /\ m[t][x] \in N \cup {nil}
       /\ D[x] = {x} \cup D[m[t][x]] \cup D[m[Opposite[t]][x]]
       /\ m[t][x] # nil => m.parent[m[t][x]] = x
       /\ \A b \in D[m[t][x]] : Before(t, b, x)
  BY DEF Shape
<1>3. \A x \in N \ {top} : m.parent[x] \in N /\ \E t \in Sides : m[t][m.parent[x]] = x
  BY DEF Shape
<1>4. /\ E \in [M \cup {nil} -> SUBSET M]
      /\ E[k] = {k} /\ E[nil] = {}
      /\ \A x \in N \cup {nil} : E[x] = IF tmp \in D[x] THEN D[x] \cup {k} ELSE D[x]
  BY <1>1 DEF HungSets
<1> HIDE DEF E
<1>5. top \in N /\ E[top] = M /\ r.parent[top] = nil
  BY <1>1, <1>4
<1>6. M \subseteq Keys
  BY <1>1
<1> DEFINE Good(x, t) ==
       /\ r[t][x] \in M \cup {nil}
       /\ E[x] = {x} \cup E[r[t][x]] \cup E[r[Opposite[t]][x]]
       /\ r[t][x] # nil => r.parent[r[t][x]] = x
       /\ \A b \in E[r[t][x]] : Before(t, b, x)
<1>7. \A t \in Sides : Good(k, t)
  BY <1>4, OppositeSide
<1>8. \A t \in Sides : Good(tmp, t)
  <2> TAKE t \in Sides
  <2> DEFINE o == Opposite[side]
             c == m[o][tmp]
  <2>1. t = side \/ t = o
    BY TwoSides
  <2>2. r[side][tmp] = k /\ r[o][tmp] = c /\ o \in Sides /\ Opposite[o] = side
    BY OppositeSide
  <2>3. c \in N \cup {nil} /\ tmp \notin D[c] /\ tmp \in D[tmp]
    BY <1>2, <2>2, ShapeFacts
  <2>4. D[tmp] = {tmp} \cup D[c]
    BY <1>2, <2>2, <1>1
  <2>5. E[c] = D[c] /\ E[tmp] = {tmp} \cup D[c] \cup {k}
    BY <1>4, <2>3, <2>4
  <2>6. (\A b \in D[c] : Before(o, b, tmp)) /\ (c # nil => m.parent[c] = tmp)
    BY <1>2, <2>2
  <2> HIDE DEF o, c
  <2>7. Good(tmp, side)
    BY <2>2, <2>5, <1>4 DEF o
  <2>8. Good(tmp, o)
    BY <2>2, <2>3, <2>5, <2>6, <1>4
  <2> QED BY <2>1, <2>7, <2>8
<1>9. \A x \in N \ {tmp}, t \in Sides : Good(x, t)
  <2> TAKE x \in N \ {tmp}, t \in Sides
  <2> DEFINE c == m[t][x]
             d == m[Opposite[t]][x]
  <2>1. r[t][x] = c /\ r[Opposite[t]][x] = d
    BY OppositeSide
  <2>2. /\ c \in N \cup {nil} /\ d \in N \cup {nil}
        /\ D[x] = {x} \cup D[c] \cup D[d]
        /\ c # nil => m.parent[c] = x
        /\ \A b \in D[c] : Before(t, b, x)
    BY <1>2, OppositeSide
  <2> HIDE DEF c, d
  <2>5. /\ E[x] = IF tmp \in D[x] THEN D[x] \cup {k} ELSE D[x]
        /\ E[c] = IF tmp \in D[c] THEN D[c] \cup {k} ELSE D[c]
        /\ E[d] = IF tmp \in D[d] THEN D[d] \cup {k} ELSE D[d]
    BY <1>4, <2>2
  <2>3. \A b \in E[c] : Before(t, b, x)
    <3>1. CASE tmp \in D[c]
      <4>1. Before(t, tmp, x)
        BY <2>2, <3>1
      <4>2. Before(t, k, x)
        BY <4>1
      <4> QED BY <4>2, <2>2, <2>5
    <3>2. CASE tmp \notin D[c]
      BY <3>2, <2>2, <1>4
    <3> QED BY <3>1, <3>2
  <2>4. E[x] = {x} \cup E[c] \cup E[d]
    BY <2>2, <2>5
  <2> QED
    BY <2>1, <2>2, <2>3, <2>4
<1>10. \A x \in M, t \in Sides : Good(x, t)
  BY <1>7, <1>8, <1>9
<1>11. \A x \in M \ {top} : r.parent[x] \in M /\ \E t \in Sides : r[t][r.parent[x]] = x
  <2> TAKE x \in M \ {top}
  <2>1. CASE x = k
    BY <2>1
  <2>2. CASE x # k
    <3>1. PICK t \in Sides : m[t][m.parent[x]] = x
      BY <1>3, <2>2
    <3>2. m.parent[x] \in N
      BY <1>3, <2>2
    <3>3. r[t][m.parent[x]] = x
      BY <3>1, <3>2, <2>2, <1>1
    <3> QED BY <3>2, <3>3, <2>2
  <2> QED BY <2>1, <2>2
<1> QED
  BY <1>4, <1>5, <1>6, <1>10, <1>11 DEF Shape, E

\* The nodes below each node once z is gone.
UnlinkedSets(N, D, z) == [x \in (N \ {z}) \cup {nil} |-> D[x] \ {z}]

\* In r the child of z on that side has the place of z.
Unlinks(m, N, z, side, r) ==
  /\ IsMemory(r) /\ r.left[nil] = nil /\ r.right[nil] = nil
  /\ \A t \in Sides : \A x \in N \ {z} :
       r[t][x] = IF m[t][x] = z THEN m[side][z] ELSE m[t][x]
  /\ \A x \in N \ {z} :
       r.parent[x] = IF x = m[side][z] THEN m.parent[z] ELSE m.parent[x]

\* A tree from which a node with at most one child is cut is a tree.
LEMMA UnlinkShape ==
  ASSUME NEW m, NEW N, NEW D, NEW top, Shape(m, N, D, top),
         NEW z \in N, NEW side \in Sides, m[Opposite[side]][z] = nil,
         NEW r, Unlinks(m, N, z, side, r)
  PROVE  Shape(r, N \ {z}, UnlinkedSets(N, D, z), IF z = top THEN m[side][z] ELSE top)
<1> /\ IsMemory(r) /\ r.left[nil] = nil /\ r.right[nil] = nil
    /\ \A t \in Sides : \A x \in N \ {z} :
         r[t][x] = IF m[t][x] = z THEN m[side][z] ELSE m[t][x]
    /\ \A x \in N \ {z} :
         r.parent[x] = IF x = m[side][z] THEN m.parent[z] ELSE m.parent[x]
  BY DEF Unlinks
<1> DEFINE M == N \ {z}
           E == UnlinkedSets(N, D, z)
           c == m[side][z]
           p == m.parent[z]
           newTop == IF z = top THEN c ELSE top
<1>1. /\ N \subseteq Keys /\ nil \notin Keys
      /\ D \in [N \cup {nil} -> SUBSET N] /\ D[nil] = {} /\ D[top] = N
      /\ top \in N \cup {nil}
      /\ top # nil => m.parent[top] = nil
  BY KeysAssumption DEF Shape
<1>2. \A x \in N, t \in Sides :
       /\ m[t][x] \in N \cup {nil}
       /\ D[x] = {x} \cup D[m[t][x]] \cup D[m[Opposite[t]][x]]
       /\ m[t][x] # nil => m.parent[m[t][x]] = x
       /\ \A b \in D[m[t][x]] : Before(t, b, x)
  BY DEF Shape
<1>3. \A x \in N \ {top} : m.parent[x] \in N /\ \E t \in Sides : m[t][m.parent[x]] = x
  BY DEF Shape
<1>4. /\ E \in [M \cup {nil} -> SUBSET M]
      /\ E[nil] = {}
      /\ \A x \in M \cup {nil} : E[x] = D[x] \ {z}
  BY <1>1 DEF UnlinkedSets
<1>5. /\ c \in M \cup {nil} /\ D[z] = {z} \cup D[c] /\ z \notin D[c]
      /\ c # nil => c \in D[c] /\ m.parent[c] = z
  <2>1. /\ c \in N \cup {nil} /\ c # z /\ z \notin D[c]
        /\ c # nil => c \in D[c]
    BY <1>2, ShapeFacts
  <2> QED BY <2>1, <1>1, <1>2
<1> HIDE DEF E, c, p
<1>6. /\ newTop \in M \cup {nil} /\ E[newTop] = M
      /\ newTop # nil => r.parent[newTop] = nil
  <2>1. CASE z = top
    <3>1. p = nil
      BY <2>1, <1>1 DEF p
    <3>2. D[c] = M /\ E[c] = M
      BY <2>1, <1>1, <1>5, <1>4
    <3> QED BY <2>1, <3>1, <3>2, <1>5 DEF c, p
  <2>2. CASE z # top
    <3>1. top \in M /\ E[top] = M
      BY <2>2, <1>1, <1>4
    <3>2. top # c
      BY <3>1, <1>5, <1>1
    <3> QED BY <2>2, <3>1, <3>2, <1>1 DEF c
  <2> QED BY <2>1, <2>2
<1> DEFINE Good(x, t) ==
       /\ r[t][x] \in M \cup {nil}
       /\ E[x] = {x} \cup E[r[t][x]] \cup E[r[Opposite[t]][x]]
       /\ r[t][x] # nil => r.parent[r[t][x]] = x
       /\ \A b \in E[r[t][x]] : Before(t, b, x)
<1>7. \A x \in M, t \in Sides : Good(x, t)
  <2> TAKE x \in M, t \in Sides
  <2> DEFINE a == m[t][x]
             b == m[Opposite[t]][x]
             Moved(u) == IF u = z THEN c ELSE u
  <2>1. r[t][x] = Moved(a) /\ r[Opposite[t]][x] = Moved(b)
    BY OppositeSide DEF c
  <2>2. /\ a \in N \cup {nil} /\ b \in N \cup {nil}
        /\ D[x] = {x} \cup D[a] \cup D[b]
        /\ a # nil => m.parent[a] = x
        /\ \A y \in D[a] : Before(t, y, x)
    BY <1>2, OppositeSide
  <2> HIDE DEF a, b
  <2>3. \A u \in {a, b} : Moved(u) \in M \cup {nil} /\ E[Moved(u)] = D[u] \ {z}
    BY <2>2, <1>4, <1>5
  <2>4. E[x] = D[x] \ {z}
    BY <1>4
  <2>5. E[x] = {x} \cup E[Moved(a)] \cup E[Moved(b)]
    BY <2>2, <2>3, <2>4
  <2>6. Moved(a) # nil => r.parent[Moved(a)] = x
    <3>1. CASE a = z
      BY <3>1, <2>2, <1>1, <1>5 DEF c, p
    <3>2. CASE a # z /\ a # nil
      <4>1. a # c
        BY <3>2, <2>2, <1>5
      <4> QED BY <4>1, <3>2, <2>2 DEF c
    <3> QED BY <3>1, <3>2
  <2> HIDE DEF Moved
  <2> QED
    BY <2>1, <2>2, <2>3, <2>5, <2>6
<1>8. \A x \in M \ {newTop} : r.parent[x] \in M /\ \E t \in Sides : r[t][r.parent[x]] = x
  <2> TAKE x \in M \ {newTop}
  <2>1. CASE x = c
    <3>1. z # top
      BY <2>1
    <3>2. p \in N /\ \E t \in Sides : m[t][p] = z
      BY <3>1, <1>3 DEF p
    <3>3. PICK t \in Sides : m[t][p] = z
      BY <3>2
    <3>4. p \in M
      BY <3>2, <3>3, ShapeFacts
    <3>5. r[t][p] = c
      BY <3>3, <3>4 DEF c
    <3>6. r.parent[x] = p
      BY <2>1 DEF c, p
    <3> QED BY <3>4, <3>5, <3>6, <2>1
  <2>2. CASE x # c
    <3>1. x # top
      BY <1>1
    <3>2. PICK t \in Sides : m[t][m.parent[x]] = x
      BY <1>3, <3>1
    <3>3. m.parent[x] \in N /\ r.parent[x] = m.parent[x]
      BY <1>3, <3>1, <2>2 DEF c
    <3>4. m.parent[x] # z
      <4> SUFFICES ASSUME m.parent[x] = z PROVE FALSE
        OBVIOUS
      <4>1. t = side \/ t = Opposite[side]
        BY TwoSides
      <4> QED BY <4>1, <3>2, <2>2, <1>1 DEF c
    <3>5. r[t][m.parent[x]] = x
      BY <3>2, <3>3, <3>4
    <3> QED BY <3>3, <3>4, <3>5
  <2> QED BY <2>1, <2>2
<1> HIDE DEF Good
<1>9. M \subseteq Keys
  BY <1>1
<1> QED
  BY <1>4, <1>6, <1>7, <1>8, <1>9 DEF Shape, E, c, Good

\* The nodes below each node once y stands where z stood.
PutSets(N, D, z, y) ==
  [x \in ((N \ {z}) \cup {y}) \cup {nil} |->
     LET old == IF x = y THEN D[z] ELSE D[x]
     IN IF z \in old THEN (old \ {z}) \cup {y} ELSE old]

\* The other nodes lie on the same sides of y as of z.
SameOrder(N, z, y) ==
  \A x \in N \ {z} : \A t \in Sides :
    /\ Before(t, x, z) => Before(t, x, y)
    /\ Before(t, z, x) => Before(t, y, x)

\* In r the new node y has the place of z.
Puts(m, N, z, y, r) ==
  /\ IsMemory(r) /\ r.left[nil] = nil /\ r.right[nil] = nil
  /\ \A t \in Sides : r[t][y] = m[t][z]
  /\ \A t \in Sides : \A x \in N \ {z} :
       r[t][x] = IF m[t][x] = z THEN y ELSE m[t][x]
  /\ r.parent[y] = m.parent[z]
  /\ \A x \in N \ {z} : r.parent[x] = IF m.parent[x] = z THEN y ELSE m.parent[x]

\* A node that has the order of another one may take its place.
LEMMA PutShape ==
  ASSUME NEW m, NEW N, NEW D, NEW top, Shape(m, N, D, top),
         NEW z \in N, NEW y \in Keys \ N,
         SameOrder(N, z, y),
         NEW r, Puts(m, N, z, y, r)
  PROVE  Shape(r, (N \ {z}) \cup {y}, PutSets(N, D, z, y), IF z = top THEN y ELSE top)
<1> /\ IsMemory(r) /\ r.left[nil] = nil /\ r.right[nil] = nil
    /\ \A t \in Sides : r[t][y] = m[t][z]
    /\ \A t \in Sides : \A x \in N \ {z} :
         r[t][x] = IF m[t][x] = z THEN y ELSE m[t][x]
    /\ r.parent[y] = m.parent[z]
    /\ \A x \in N \ {z} : r.parent[x] = IF m.parent[x] = z THEN y ELSE m.parent[x]
  BY DEF Puts
<1> USE DEF SameOrder
<1> DEFINE M == (N \ {z}) \cup {y}
           E == PutSets(N, D, z, y)
           Moved(u) == IF u = z THEN y ELSE u
           Put(S) == IF z \in S THEN (S \ {z}) \cup {y} ELSE S
           newTop == Moved(top)
<1>1. /\ N \subseteq Keys /\ nil \notin Keys
      /\ D \in [N \cup {nil} -> SUBSET N] /\ D[nil] = {} /\ D[top] = N
      /\ top \in N \cup {nil}
      /\ top # nil => m.parent[top] = nil
  BY KeysAssumption DEF Shape
<1>2. \A x \in N, t \in Sides :
       /\ m[t][x] \in N \cup {nil}
       /\ D[x] = {x} \cup D[m[t][x]] \cup D[m[Opposite[t]][x]]
       /\ m[t][x] # nil => m.parent[m[t][x]] = x
       /\ \A b \in D[m[t][x]] : Before(t, b, x)
  BY DEF Shape
<1>3. \A x \in N \ {top} : m.parent[x] \in N /\ \E t \in Sides : m[t][m.parent[x]] = x
  BY DEF Shape
<1>4. /\ E \in [M \cup {nil} -> SUBSET M]
      /\ E[nil] = {}
      /\ \A u \in N \cup {nil} : E[Moved(u)] = Put(D[u])
  <2>1. \A u \in N \cup {nil} : Put(D[u]) \subseteq M
    BY <1>1
  <2>2. \A x \in M \cup {nil} : \E u \in N \cup {nil} : x = Moved(u) /\ E[x] = Put(D[u])
    BY <1>1 DEF PutSets
  <2>3. \A x \in M \cup {nil} : E[x] \in SUBSET M
    <3> TAKE x \in M \cup {nil}
    <3>1. PICK u \in N \cup {nil} : E[x] = Put(D[u])
      BY <2>2
    <3>2. Put(D[u]) \subseteq M
      BY <2>1
    <3> HIDE DEF Put
    <3> QED BY <3>1, <3>2
  <2>4. E \in [M \cup {nil} -> SUBSET M]
    BY <2>3 DEF PutSets
  <2>5. \A u \in N \cup {nil} : E[Moved(u)] = Put(D[u])
    BY <1>1 DEF PutSets
  <2> QED BY <2>4, <2>5, <1>1
<1> HIDE DEF E
<1>5. \A u \in N : Moved(u) \in M /\ Moved(u) \in Keys
  BY <1>1
<1>6. \A x \in M : \E u \in N : x = Moved(u)
  OBVIOUS
<1>7. \A u \in N, t \in Sides : r[t][Moved(u)] = Moved(m[t][u])
  <2> TAKE u \in N, t \in Sides
  <2>1. m[t][z] # z
    BY ShapeFacts
  <2> QED BY <2>1
<1>8. \A u \in N : r.parent[Moved(u)] = Moved(m.parent[u])
  <2>1. m.parent[z] # z
    <3>1. CASE z = top
      BY <3>1, <1>1
    <3>2. CASE z # top
      BY <3>2, <1>3, ShapeFacts
    <3> QED BY <3>1, <3>2
  <2> QED BY <2>1
<1>9. \A u, v \in N : \A t \in Sides : Before(t, u, v) => Before(t, Moved(u), Moved(v))
  BY BeforeOrder, <1>1
<1>10. /\ newTop \in M \cup {nil} /\ E[newTop] = M
       /\ newTop # nil => r.parent[newTop] = nil
  <2>1. top \in N
    BY <1>1
  <2> QED BY <2>1, <1>1, <1>4, <1>5, <1>8
<1> DEFINE Good(x, t) ==
       /\ r[t][x] \in M \cup {nil}
       /\ E[x] = {x} \cup E[r[t][x]] \cup E[r[Opposite[t]][x]]
       /\ r[t][x] # nil => r.parent[r[t][x]] = x
       /\ \A b \in E[r[t][x]] : Before(t, b, x)
<1>11. \A x \in M, t \in Sides : Good(x, t)
  <2> TAKE x \in M, t \in Sides
  <2>1. PICK u \in N : x = Moved(u)
    BY <1>6
  <2> DEFINE a == m[t][u]
             b == m[Opposite[t]][u]
  <2>2. /\ a \in N \cup {nil} /\ b \in N \cup {nil}
        /\ D[u] = {u} \cup D[a] \cup D[b]
        /\ a # nil => m.parent[a] = u
        /\ \A v \in D[a] : Before(t, v, u)
    BY <1>2, OppositeSide
  <2>3. r[t][x] = Moved(a) /\ r[Opposite[t]][x] = Moved(b)
    BY <2>1, <1>7, OppositeSide
  <2> HIDE DEF a, b
  <2>4. E[x] = Put(D[u]) /\ E[Moved(a)] = Put(D[a]) /\ E[Moved(b)] = Put(D[b])
    BY <2>1, <2>2, <1>4
  <2>5. E[x] = {x} \cup E[Moved(a)] \cup E[Moved(b)]
    BY <2>1, <2>2, <2>4
  <2>6. Moved(a) # nil => r.parent[Moved(a)] = x
    BY <2>1, <2>2, <1>8, <1>1
  <2>7. \A v \in E[Moved(a)] : Before(t, v, x)
    <3> TAKE v \in E[Moved(a)]
    <3>1. PICK w \in D[a] : v = Moved(w)
      BY <2>4
    <3>2. w \in N
      BY <3>1, <2>2, <1>1
    <3> HIDE DEF Moved
    <3> QED BY <3>1, <3>2, <2>1, <2>2, <1>9
  <2>8. Moved(a) \in M \cup {nil}
    BY <2>2
  <2> HIDE DEF Moved
  <2> QED BY <2>3, <2>5, <2>6, <2>7, <2>8
<1>12. \A x \in M \ {newTop} : r.parent[x] \in M /\ \E t \in Sides : r[t][r.parent[x]] = x
  <2> TAKE x \in M \ {newTop}
  <2>1. PICK u \in N \ {top} : x = Moved(u)
    BY <1>6
  <2>2. PICK t \in Sides : m[t][m.parent[u]] = u
    BY <1>3
  <2>3. m.parent[u] \in N
    BY <1>3
  <2>4. r.parent[x] = Moved(m.parent[u]) /\ r[t][Moved(m.parent[u])] = Moved(u)
    BY <2>1, <2>2, <2>3, <1>7, <1>8
  <2> QED BY <2>1, <2>3, <2>4, <1>5
<1> HIDE DEF Good
<1>13. M \subseteq Keys
  BY <1>1
<1> QED
  BY <1>4, <1>10, <1>11, <1>12, <1>13 DEF Shape, E, Good

-----------------------------------------------------------------------------
(* Recursion: the functions that walk the tree, one step at a time.        *)

\* A set of natural numbers that is not empty has a least one.
LEMMA LeastNumber ==
  ASSUME NEW S \in SUBSET Nat, S # {}
  PROVE  \E n \in S : \A m \in S : n <= m
<1>1. PICK n \in S : \A m \in S : <<m, n>> \notin OpToRel(<, Nat)
  BY WFMin, NatLessThanWellFounded, Zenon
<1>2. \A m \in S : ~(m < n)
  BY <1>1, Zenon DEF OpToRel
<1> QED
  BY <1>2

\* Sets of keys are finite.
LEMMA FiniteKeys ==
  ASSUME NEW S \in SUBSET Keys
  PROVE  IsFiniteSet(S) /\ Cardinality(S) \in Nat
BY FS_Subset, FS_CardinalityType, KeysAssumption

\* A proper subset of a set of keys is smaller.
LEMMA StrictlyFewer ==
  ASSUME NEW S \in SUBSET Keys, NEW T \in SUBSET S, T # S
  PROVE  Cardinality(T) < Cardinality(S)
<1>1. IsFiniteSet(S) /\ Cardinality(S) \in Nat
  BY FiniteKeys
<1>2. Cardinality(T) \in Nat
  BY FiniteKeys
<1>3. Cardinality(T) <= Cardinality(S) /\ Cardinality(T) # Cardinality(S)
  BY <1>1, FS_Subset
<1> QED BY <1>1, <1>2, <1>3

\* A set of nodes has one with no child in the set.
LEMMA Lowest ==
  ASSUME NEW m, NEW N, NEW D, NEW top, Shape(m, N, D, top),
         NEW B \in SUBSET N, B # {}
  PROVE  \E x \in B : \A s \in Sides : m[s][x] \notin B
<1>1. D \in [N \cup {nil} -> SUBSET N] /\ N \subseteq Keys /\ nil \notin N
  BY KeysAssumption DEF Shape
<1> DEFINE C == {Cardinality(D[x]) : x \in B}
<1>2. \A x \in B : Cardinality(D[x]) \in Nat
  BY <1>1, FiniteKeys
<1>3. PICK k \in C : \A j \in C : k <= j
  <2>1. C \in SUBSET Nat /\ C # {}
    BY <1>2
  <2> HIDE DEF C
  <2> QED BY <2>1, LeastNumber
<1>4. PICK x \in B : k = Cardinality(D[x])
  BY <1>3
<1>5. \A y \in B : Cardinality(D[x]) <= Cardinality(D[y])
  BY <1>3, <1>4
<1>6. \A s \in Sides : m[s][x] \notin B
  <2> SUFFICES ASSUME NEW s \in Sides, m[s][x] \in B PROVE FALSE
    OBVIOUS
  <2> DEFINE c == m[s][x]
  <2>1. D[c] \subseteq D[x] /\ x \in D[x] /\ x \notin D[c] /\ D[x] \subseteq N
    BY ShapeFacts
  <2>2. Cardinality(D[c]) < Cardinality(D[x])
    <3> HIDE DEF c
    <3> QED BY <2>1, <1>1, StrictlyFewer
  <2> QED BY <2>2, <1>5, <1>2
<1> QED BY <1>6

\* A set of nodes has one whose parent is not in the set.
LEMMA Highest ==
  ASSUME NEW m, NEW N, NEW D, NEW top, Shape(m, N, D, top),
         NEW B \in SUBSET N, B # {}
  PROVE  \E x \in B : m.parent[x] \notin B
<1>1. D \in [N \cup {nil} -> SUBSET N] /\ N \subseteq Keys /\ nil \notin N
  BY KeysAssumption DEF Shape
<1> DEFINE C == {Cardinality(N \ D[x]) : x \in B}
<1>2. \A x \in B : Cardinality(N \ D[x]) \in Nat
  <2> TAKE x \in B
  <2> N \ D[x] \in SUBSET Keys
    BY <1>1
  <2> QED BY FiniteKeys
<1>3. PICK k \in C : \A j \in C : k <= j
  <2>1. C \in SUBSET Nat /\ C # {}
    BY <1>2
  <2> HIDE DEF C
  <2> QED BY <2>1, LeastNumber
<1>4. PICK x \in B : k = Cardinality(N \ D[x])
  BY <1>3
<1>5. \A y \in B : Cardinality(N \ D[x]) <= Cardinality(N \ D[y])
  BY <1>3, <1>4
<1>6. m.parent[x] \notin B
  <2> SUFFICES ASSUME m.parent[x] \in B PROVE FALSE
    OBVIOUS
  <2> DEFINE p == m.parent[x]
  <2>1. x # top
    BY <1>1 DEF Shape
  <2>2. PICK s \in Sides : m[s][p] = x
    BY <2>1 DEF Shape
  <2>3. D[x] \subseteq D[p] /\ p \in D[p] /\ p \notin D[x] /\ D[p] \subseteq N
    BY <2>2, ShapeFacts
  <2>4. Cardinality(N \ D[p]) < Cardinality(N \ D[x])
    <3> HIDE DEF p
    <3>1. N \ D[x] \in SUBSET Keys /\ N \ D[p] \in SUBSET (N \ D[x]) /\ N \ D[p] # N \ D[x]
      BY <1>1, <2>3
    <3> QED BY <3>1, StrictlyFewer
  <2> QED BY <2>4, <1>5, <1>2
<1> QED BY <1>6

\* A function that calls itself on next until it is in stop.
Unfold(S, stop, val, next, f) ==
  [x \in S |-> IF x \in stop THEN val[x] ELSE f[next[x]]]

\* A function that goes on at the next element until it is at a stop exists,
\* whether it ends or not.
LEMMA TailRecursion ==
  ASSUME NEW S, NEW stop \in SUBSET S, NEW val, NEW next,
         \A x \in S \ stop : next[x] \in S
  PROVE  \E f : f = Unfold(S, stop, val, next, f)
<1> DEFINE Closed(T) == \A u \in T \ stop : next[u] \in T
           Orbit(x) == {y \in S : \A T \in SUBSET S : x \in T /\ Closed(T) => y \in T}
           End(x) == CHOOSE y : y \in stop \cap Orbit(x)
           f == [x \in S |-> val[End(x)]]
<1>1. \A x \in stop : End(x) = x
  <2> TAKE x \in stop
  <2>1. {x} \in SUBSET S /\ Closed({x})
    OBVIOUS
  <2>2. x \in Orbit(x)
    OBVIOUS
  <2>3. Orbit(x) = {x}
    BY <2>1, <2>2
  <2>4. stop \cap Orbit(x) = {x}
    BY <2>3
  <2> HIDE DEF Orbit
  <2> QED BY <2>4
<1>2. \A x \in S \ stop : stop \cap Orbit(x) = stop \cap Orbit(next[x])
  <2> TAKE x \in S \ stop
  <2> DEFINE z == next[x]
  <2>1. z \in S
    OBVIOUS
  <2>2. \A y \in Orbit(z) : y \in Orbit(x)
    <3> TAKE y \in Orbit(z)
    <3> SUFFICES ASSUME NEW T \in SUBSET S, x \in T, Closed(T) PROVE y \in T
      OBVIOUS
    <3>1. z \in T
      OBVIOUS
    <3> HIDE DEF z, Closed
    <3> QED BY <3>1
  <2>3. \A y \in stop \cap Orbit(x) : y \in Orbit(z)
    <3> TAKE y \in stop \cap Orbit(x)
    <3> SUFFICES ASSUME NEW T \in SUBSET S, z \in T, Closed(T) PROVE y \in T
      OBVIOUS
    <3>1. T \cup {x} \in SUBSET S /\ Closed(T \cup {x})
      OBVIOUS
    <3>2. y \in T \cup {x}
      <4> HIDE DEF z, Closed
      <4> QED BY <3>1
    <3> QED BY <3>2
  <2> HIDE DEF z, Orbit
  <2>4. stop \cap Orbit(x) = stop \cap Orbit(z)
    BY <2>2, <2>3
  <2> QED BY <2>4 DEF z
<1>3. \A x \in S \ stop : End(x) = End(next[x])
  <2> HIDE DEF Orbit
  <2> QED BY <1>2
<1> HIDE DEF End
<1>4. f = [x \in S |-> IF x \in stop THEN val[x] ELSE f[next[x]]]
  BY <1>1, <1>3
<1> QED BY <1>4 DEF Unfold

\* No key has a child outside of N.
Inward(m, N) == \A k \in Keys, s \in Sides : m[s][k] \in N \cup {nil}

\* Far, unfolded once.
LEMMA FarUnfolds ==
  ASSUME NEW m, NEW N \in SUBSET Keys, IsMemory(m), Inward(m, N), NEW s \in Sides
  PROVE  \A x \in Keys : Far(m, s, x) = IF m[s][x] = nil THEN x ELSE Far(m, s, m[s][x])
<1> DEFINE F == CHOOSE f : f = [x \in Keys |-> IF m[s][x] = nil THEN x ELSE f[m[s][x]]]
           stop == {x \in Keys : m[s][x] = nil}
           val == [x \in Keys |-> x]
           next == m[s]
<1>1. \A x \in Keys \ stop : next[x] \in Keys
  BY DEF Inward
<1>2. \E f : f = Unfold(Keys, stop, val, next, f)
  <2>1. stop \in SUBSET Keys
    OBVIOUS
  <2> HIDE DEF stop, val, next
  <2> QED BY <1>1, <2>1, TailRecursion
<1>3. \E f : f = [x \in Keys |-> IF m[s][x] = nil THEN x ELSE f[m[s][x]]]
  <2>1. PICK f : f = Unfold(Keys, stop, val, next, f)
    BY <1>2
  <2>2. f = [x \in Keys |-> IF m[s][x] = nil THEN x ELSE f[m[s][x]]]
    BY <2>1 DEF Unfold
  <2> QED BY <2>2
<1>4. F = [x \in Keys |-> IF m[s][x] = nil THEN x ELSE F[m[s][x]]]
  BY <1>3
<1>5. \A x : Far(m, s, x) = F[x]
  BY DEF Far
<1> HIDE DEF F
<1> QED BY <1>4, <1>5

\* Root, unfolded once.
LEMMA RootUnfolds ==
  ASSUME NEW m, IsMemory(m)
  PROVE  \A x \in Cells : Root(m, x) = IF m.parent[x] = nil THEN x ELSE Root(m, m.parent[x])
<1> DEFINE F == CHOOSE f : f = [x \in Cells |-> IF m.parent[x] = nil THEN x ELSE f[m.parent[x]]]
           stop == {x \in Cells : m.parent[x] = nil}
           val == [x \in Cells |-> x]
           next == m.parent
<1>1. \A x \in Cells \ stop : next[x] \in Cells
  BY DEF IsMemory
<1>2. \E f : f = Unfold(Cells, stop, val, next, f)
  <2>1. stop \in SUBSET Cells
    OBVIOUS
  <2> HIDE DEF stop, val, next
  <2> QED BY <1>1, <2>1, TailRecursion
<1>3. \E f : f = [x \in Cells |-> IF m.parent[x] = nil THEN x ELSE f[m.parent[x]]]
  <2>1. PICK f : f = Unfold(Cells, stop, val, next, f)
    BY <1>2
  <2>2. f = [x \in Cells |-> IF m.parent[x] = nil THEN x ELSE f[m.parent[x]]]
    BY <2>1 DEF Unfold
  <2> QED BY <2>2
<1>4. F = [x \in Cells |-> IF m.parent[x] = nil THEN x ELSE F[m.parent[x]]]
  BY <1>3
<1>5. \A x : Root(m, x) = F[x]
  BY DEF Root
<1> HIDE DEF F
<1> QED BY <1>4, <1>5

\* From a node as far as it goes on one side: the extreme of those below it.
LEMMA FarIsExtreme ==
  ASSUME NEW m, NEW N, NEW D, NEW top, Shape(m, N, D, top), Inward(m, N),
         NEW s \in Sides, NEW n \in N
  PROVE  /\ Far(m, s, n) \in D[n]
         /\ m[s][Far(m, s, n)] = nil
         /\ \A b \in D[n] : b = Far(m, s, n) \/ Before(s, Far(m, s, n), b)
<1> DEFINE P(x) == /\ Far(m, s, x) \in D[x]
                   /\ m[s][Far(m, s, x)] = nil
                   /\ \A b \in D[x] : b = Far(m, s, x) \/ Before(s, Far(m, s, x), b)
           B == {x \in N : ~P(x)}
<1>1. IsMemory(m) /\ N \in SUBSET Keys /\ D \in [N \cup {nil} -> SUBSET N] /\ D[nil] = {}
  BY DEF Shape
<1>2. SUFFICES ASSUME B # {} PROVE FALSE
  OBVIOUS
<1>3. PICK x \in B : m[s][x] \notin B
  <2>1. B \in SUBSET N
    OBVIOUS
  <2> HIDE DEF B
  <2> QED BY <1>2, <2>1, Lowest
<1> DEFINE c == m[s][x]
           o == Opposite[s]
           d == m[o][x]
<1>4. /\ D[x] = {x} \cup D[c] \cup D[d] /\ c \in N \cup {nil} /\ x \in Keys
      /\ \A b \in D[c] : Before(s, b, x)
      /\ \A b \in D[d] : Before(o, b, x) /\ b \in Keys
      /\ D[x] \in SUBSET Keys
  <2>1. D[d] \subseteq D[x] /\ D[x] \subseteq N
    BY ShapeFacts, OppositeSide
  <2> QED BY <2>1, <1>1, OppositeSide DEF Shape
<1>5. \A b \in D[d] : Before(s, x, b)
  BY <1>4, BeforeOrder
<1>6. Far(m, s, x) = IF c = nil THEN x ELSE Far(m, s, c)
  BY <1>1, <1>4, FarUnfolds
<1>7. c # nil => P(c)
  BY <1>3, <1>4
<1>8. CASE c = nil
  <2>1. P(x)
    BY <1>8, <1>6, <1>5, <1>4, <1>1
  <2> QED BY <2>1, <1>3
<1>9. CASE c # nil
  <2> DEFINE f == Far(m, s, c)
  <2>1. f \in D[c] /\ m[s][f] = nil /\ (\A b \in D[c] : b = f \/ Before(s, f, b))
    BY <1>7, <1>9
  <2>2. Before(s, f, x) /\ f \in Keys
    BY <2>1, <1>4
  <2>3. \A b \in D[x] : b = f \/ Before(s, f, b)
    <3>1. \A b \in D[d] : Before(s, f, b)
      <4> HIDE DEF f, d
      <4> QED BY <2>2, <1>5, <1>4, BeforeOrder
    <3> QED BY <3>1, <2>1, <2>2, <1>4
  <2>4. P(x)
    BY <2>1, <2>3, <1>6, <1>9, <1>4
  <2> QED BY <2>4, <1>3
<1> QED BY <1>8, <1>9

\* From any node up: the top.
LEMMA RootIsTop ==
  ASSUME NEW m, NEW N, NEW D, NEW top, Shape(m, N, D, top)
  PROVE  /\ \A n \in N : Root(m, n) = top
         /\ m.parent[nil] \in N => Root(m, nil) = top
<1> DEFINE B == {x \in N : Root(m, x) # top}
<1>1. IsMemory(m) /\ N \in SUBSET Keys /\ (top # nil => m.parent[top] = nil) /\ nil \notin N
      /\ top \in N \cup {nil} /\ nil \notin Keys
  BY KeysAssumption DEF Shape
<1>2. B = {}
  <2> SUFFICES ASSUME B # {} PROVE FALSE
    OBVIOUS
  <2>1. PICK x \in B : m.parent[x] \notin B
    <3>1. B \in SUBSET N
      OBVIOUS
    <3> HIDE DEF B
    <3> QED BY <3>1, Highest
  <2>2. Root(m, x) = IF m.parent[x] = nil THEN x ELSE Root(m, m.parent[x])
    BY RootUnfolds, <1>1 DEF Cells
  <2>3. x # top
    BY <2>2, <1>1, <2>1
  <2>4. m.parent[x] \in N
    BY <2>3, <2>1 DEF Shape
  <2> QED BY <2>1, <2>2, <2>4, <1>1
<1>3. \A n \in N : Root(m, n) = top
  BY <1>2
<1>4. m.parent[nil] \in N => Root(m, nil) = top
  BY <1>1, <1>3, RootUnfolds DEF Cells
<1> QED BY <1>3, <1>4

\* A node that is not below n comes before all that are, or after all.
LEMMA Contiguous ==
  ASSUME NEW m, NEW N, NEW D, NEW top, Shape(m, N, D, top),
         NEW n \in N, NEW u \in N \ D[n], NEW s \in Sides
  PROVE  \/ \A b \in D[n] : Before(s, u, b)
         \/ \A b \in D[n] : Before(s, b, u)
<1> DEFINE Apart(x) == \/ \A b \in D[x] : Before(s, u, b)
                       \/ \A b \in D[x] : Before(s, b, u)
           B == {x \in N : u \notin D[x] /\ ~Apart(x)}
<1>1. SUFFICES ASSUME B # {} PROVE FALSE
  OBVIOUS
<1>2. PICK x \in B : m.parent[x] \notin B
  <2>1. B \in SUBSET N
    OBVIOUS
  <2> HIDE DEF B
  <2> QED BY <1>1, <2>1, Highest
<1>3. x # top
  BY DEF Shape
<1> DEFINE p == m.parent[x]
<1>4. PICK t \in Sides : m[t][p] = x
  BY <1>3 DEF Shape
<1>5. p \in N
  BY <1>3 DEF Shape
<1> DEFINE d == m[Opposite[t]][p]
<1>6. /\ D[p] = {p} \cup D[x] \cup D[d] /\ D[p] \subseteq Keys
      /\ D[x] \subseteq D[p]
      /\ \A b \in D[x] : Before(t, b, p)
      /\ \A b \in D[d] : Before(Opposite[t], b, p)
  <2>1. D[p] \subseteq N /\ N \subseteq Keys /\ D[x] \subseteq D[p]
    BY <1>4, <1>5, ShapeFacts DEF Shape
  <2>2. D[p] = {p} \cup D[m[t][p]] \cup D[m[Opposite[t]][p]]
    BY <1>5 DEF Shape
  <2>3. (\A b \in D[m[t][p]] : Before(t, b, p)) /\ (\A b \in D[d] : Before(Opposite[t], b, p))
    BY <1>5, OppositeSide DEF Shape
  <2> QED BY <2>1, <2>2, <2>3, <1>4
<1>7. s = t \/ s = Opposite[t]
  BY TwoSides
<1>8. Opposite[t] \in Sides /\ Opposite[Opposite[t]] = t
  BY OppositeSide
<1>9. u \in Keys /\ p \in Keys
  BY <1>5 DEF Shape
<1> HIDE DEF p, d
<1>10. CASE u = p
  <2>1. \A b \in D[x] : Before(t, b, u) /\ b \in Keys
    BY <1>6, <1>10
  <2>2. \A b \in D[x] : Before(Opposite[t], u, b)
    BY <2>1, <1>8, <1>9, BeforeOrder
  <2> QED BY <2>1, <2>2, <1>7, <1>2
<1>11. CASE u \in D[d]
  <2>1. Before(Opposite[t], u, p)
    BY <1>11, <1>6
  <2>2. Before(t, p, u)
    BY <2>1, <1>8, <1>9, BeforeOrder
  <2>3. \A b \in D[x] : b \in Keys /\ Before(t, b, p)
    BY <1>6
  <2>4. \A b \in D[x] : Before(t, b, u)
    BY <2>2, <2>3, <1>9, BeforeOrder
  <2>5. \A b \in D[x] : Before(Opposite[t], u, b)
    BY <2>3, <2>4, <1>8, <1>9, BeforeOrder
  <2> QED BY <2>4, <2>5, <1>7, <1>2
<1>12. CASE u \notin D[p]
  <2>1. Apart(p)
    BY <1>12, <1>2, <1>5 DEF p
  <2> QED BY <2>1, <1>6, <1>2
<1> QED BY <1>2, <1>6, <1>10, <1>11, <1>12

-----------------------------------------------------------------------------
(* Iteration and search.                                                   *)

\* The climb of Neighbour as an operator of its own.
Climb(m, side, n) ==
  LET climb[x \in Keys] == LET p == m.parent[x] IN
        IF p # nil /\ m[side][p] = x THEN climb[p] ELSE p
  IN climb[n]

\* Climb, unfolded once.
LEMMA ClimbUnfolds ==
  ASSUME NEW m, IsMemory(m), NEW s \in Sides
  PROVE  \A x \in Keys : Climb(m, s, x) =
           IF m.parent[x] # nil /\ m[s][m.parent[x]] = x
           THEN Climb(m, s, m.parent[x]) ELSE m.parent[x]
<1> DEFINE Body(f) == [x \in Keys |-> LET p == m.parent[x] IN
                         IF p # nil /\ m[s][p] = x THEN f[p] ELSE p]
           F == CHOOSE f : f = Body(f)
           stop == {x \in Keys : ~(m.parent[x] # nil /\ m[s][m.parent[x]] = x)}
           val == m.parent
           next == m.parent
<1>1. \A x \in Keys \ stop : next[x] \in Keys
  BY DEF IsMemory, Cells
<1>2. \E f : f = Unfold(Keys, stop, val, next, f)
  <2>1. stop \in SUBSET Keys
    OBVIOUS
  <2> HIDE DEF stop, val, next
  <2> QED BY <1>1, <2>1, TailRecursion
<1>3. \E f : f = Body(f)
  <2>1. PICK f : f = Unfold(Keys, stop, val, next, f)
    BY <1>2
  <2>2. f = Body(f)
    BY <2>1 DEF Unfold
  <2> QED BY <2>2
<1>4. F = Body(F)
  <2> HIDE DEF Body
  <2> QED BY <1>3
<1>5. \A x : Climb(m, s, x) = F[x]
  BY DEF Climb
<1> HIDE DEF F
<1> QED BY <1>4, <1>5

\* A node without a child on that side has its neighbour above.
LEMMA NeighbourClimbs ==
  ASSUME NEW m, NEW s, NEW n
  PROVE  Neighbour(m, s, n) = IF m[s][n] # nil THEN Far(m, Opposite[s], m[s][n])
                              ELSE Climb(m, s, n)
BY DEF Neighbour, Climb

\* v is the node of N next to n on side s; nil if there is none.
IsNext(N, s, n, v) ==
  \/ v = nil /\ \A u \in N : ~Before(s, u, n)
  \/ /\ v \in N /\ Before(s, v, n)
     /\ \A u \in N : Before(s, u, n) => u = v \/ Before(s, u, v)

\* The climb from x leads to the node next to all that are below x.
LEMMA ClimbLeadsOut ==
  ASSUME NEW m, NEW N, NEW D, NEW top, Shape(m, N, D, top),
         NEW s \in Sides, NEW n \in N
  PROVE  LET c == Climb(m, s, n) IN
         \/ c = nil /\ \A u \in N \ D[n] : ~Before(s, u, n)
         \/ /\ c \in N \ D[n] /\ Before(s, c, n)
            /\ \A u \in N \ D[n] : Before(s, u, n) => u = c \/ Before(s, u, c)
<1> DEFINE Out(x, c) == \/ c = nil /\ \A u \in N \ D[x] : ~Before(s, u, x)
                        \/ /\ c \in N \ D[x] /\ Before(s, c, x)
                           /\ \A u \in N \ D[x] : Before(s, u, x) => u = c \/ Before(s, u, c)
           B == {x \in N : ~Out(x, Climb(m, s, x))}
<1>1. SUFFICES ASSUME B # {} PROVE FALSE
  OBVIOUS
<1>2. PICK x \in B : m.parent[x] \notin B
  <2>1. B \in SUBSET N
    OBVIOUS
  <2> HIDE DEF B
  <2> QED BY <1>1, <2>1, Highest
<1> DEFINE p == m.parent[x]
           o == Opposite[s]
<1>3. /\ IsMemory(m) /\ N \subseteq Keys /\ nil \notin N
      /\ top # nil => m.parent[top] = nil
      /\ D[top] = N /\ x \in Keys
  BY KeysAssumption DEF Shape
<1>4. Climb(m, s, x) = IF p # nil /\ m[s][p] = x THEN Climb(m, s, p) ELSE p
  BY <1>3, ClimbUnfolds
<1>5. o \in Sides /\ Opposite[o] = s /\ o # s
  BY OppositeSide
<1>6. CASE x = top
  BY <1>6, <1>3, <1>4, <1>2
<1>7. CASE x # top
  <2>1. p \in N /\ \E t \in Sides : m[t][p] = x
    BY <1>7 DEF Shape
  <2> DEFINE a == m[s][p]
             b == m[o][p]
  <2>2. /\ D[p] = {p} \cup D[a] \cup D[b] /\ p \in D[p] /\ x \in D[x] /\ D[x] \subseteq N
        /\ \A y \in D[a] : Before(s, y, p) /\ y \in Keys
        /\ \A y \in D[b] : Before(o, y, p) /\ y \in Keys
        /\ p \in Keys
    <3>1. D[p] = {p} \cup D[a] \cup D[b] /\ (\A y \in D[a] : Before(s, y, p))
          /\ (\A y \in D[b] : Before(o, y, p))
      BY <2>1, <1>5 DEF Shape
    <3>2. p \in D[p] /\ x \in D[x] /\ D[x] \subseteq N /\ D[p] \subseteq N
      BY <2>1, ShapeFacts
    <3> QED BY <3>1, <3>2, <1>3
  <2>3. \A y \in D[b] : Before(s, p, y)
    BY <2>2, <1>5, BeforeOrder
  <2>4. \A u \in N \ D[p], y \in D[p] : Before(s, u, y) => Before(s, u, p)
    <3> TAKE u \in N \ D[p], y \in D[p]
    <3>1. \/ \A v \in D[p] : Before(s, u, v)
          \/ \A v \in D[p] : Before(s, v, u)
      BY <2>1, Contiguous
    <3>2. ~(Before(s, u, y) /\ Before(s, y, u))
      <4> u \in Keys /\ y \in Keys
        BY <1>3, <2>2
      <4> QED BY BeforeOrder
    <3> QED BY <3>1, <3>2, <2>2
  <2>5. x = a \/ x = b
    BY <2>1, TwoSides
  <2> HIDE DEF a, b, o
  <2>6. CASE x = a
    <3>1. Out(p, Climb(m, s, p)) /\ Climb(m, s, x) = Climb(m, s, p)
      BY <2>6, <1>4, <1>2, <2>1, <1>3 DEF a
    <3> DEFINE c == Climb(m, s, p)
    <3> HIDE DEF c
    <3>2. Before(s, x, p) /\ x \in D[p]
      BY <2>2, <2>6
    <3>3. \A u \in N \ D[x] : Before(s, u, x) => u \notin D[p]
      <4> TAKE u \in N \ D[x]
      <4> SUFFICES ASSUME u \in D[p], Before(s, u, x) PROVE FALSE
        OBVIOUS
      <4>1. u = p \/ u \in D[b]
        BY <2>2, <2>6
      <4>2. Before(s, p, u) \/ p = u
        BY <4>1, <2>3
      <4>3. u \in Keys /\ p \in Keys /\ x \in Keys
        BY <1>3, <2>2
      <4> QED BY <4>2, <4>3, <3>2, BeforeOrder
    <3>4. \A u \in N \ D[x] : Before(s, u, x) => u \in N \ D[p] /\ Before(s, u, p)
      BY <3>3, <2>4, <3>2
    <3>5. CASE c = nil
      <4>1. \A u \in N \ D[p] : ~Before(s, u, p)
        BY <3>1, <3>5, <1>3 DEF c
      <4> QED BY <4>1, <3>4, <3>1, <3>5, <1>2 DEF c
    <3>6. CASE c # nil
      <4>1. /\ c \in N \ D[p] /\ Before(s, c, p)
            /\ \A u \in N \ D[p] : Before(s, u, p) => u = c \/ Before(s, u, c)
        BY <3>1, <3>6 DEF c
      <4>2. Before(s, c, x)
        <5>1. \/ \A v \in D[p] : Before(s, c, v)
              \/ \A v \in D[p] : Before(s, v, c)
          BY <4>1, <2>1, Contiguous
        <5>2. ~(Before(s, c, p) /\ Before(s, p, c))
          BY <4>1, <1>3, <2>2, BeforeOrder
        <5> QED BY <5>1, <5>2, <4>1, <2>2, <3>2
      <4>3. c \notin D[x]
        BY <4>1, <2>2, <2>6
      <4> QED BY <4>1, <4>2, <4>3, <3>4, <3>1, <1>2 DEF c
    <3> QED BY <3>5, <3>6
  <2>7. CASE x = b
    <3>1. Climb(m, s, x) = p
      <4> a # x
        <5> a # nil => a # b
          BY <2>1, ShapeFacts DEF a, b, o
        <5> QED BY <2>7, <1>3
      <4> QED BY <1>4 DEF a
    <3>2. Before(s, p, x)
      BY <2>2, <2>3, <2>7
    <3>3. \A u \in N \ D[x] : Before(s, u, x) => u = p \/ Before(s, u, p)
      BY <2>2, <2>4, <2>7
    <3>4. p \notin D[x]
      BY <2>1, <2>7, <1>5, ShapeFacts DEF b
    <3> QED BY <3>1, <3>2, <3>3, <3>4, <2>1, <1>2
  <2> QED BY <2>5, <2>6, <2>7
<1> QED BY <1>6, <1>7

\* NextNode and PrevNode lead to the next node in the order of the keys.
LEMMA NeighbourIsNext ==
  ASSUME NEW m, NEW N, NEW D, NEW top, Shape(m, N, D, top), Inward(m, N),
         NEW s \in Sides, NEW n \in N
  PROVE  IsNext(N, s, n, Neighbour(m, s, n))
<1> DEFINE o == Opposite[s]
           a == m[s][n]
           b == m[o][n]
           v == Neighbour(m, s, n)
<1>1. o \in Sides /\ Opposite[o] = s /\ o # s
  BY OppositeSide
<1>2. /\ D[n] = {n} \cup D[a] \cup D[b] /\ a \in N \cup {nil} /\ D[n] \subseteq N
      /\ N \subseteq Keys /\ n \in Keys /\ n \in D[n] /\ D[nil] = {}
      /\ \A y \in D[a] : Before(s, y, n) /\ y \in Keys
      /\ \A y \in D[b] : Before(o, y, n) /\ y \in Keys
  <2>1. D[n] = {n} \cup D[a] \cup D[b] /\ (\A y \in D[a] : Before(s, y, n))
        /\ (\A y \in D[b] : Before(o, y, n)) /\ a \in N \cup {nil}
        /\ N \subseteq Keys /\ D[nil] = {}
    BY <1>1 DEF Shape
  <2>2. n \in D[n] /\ D[n] \subseteq N
    BY ShapeFacts
  <2> QED BY <2>1, <2>2
<1> HIDE DEF a, b, o
<1>3. \A y \in D[b] : ~Before(s, y, n)
  <2> TAKE y \in D[b]
  <2>1. Before(s, n, y)
    BY <1>1, <1>2, BeforeOrder DEF o
  <2> QED BY <2>1, <1>2, BeforeOrder
<1>4. \A u \in D[n] : Before(s, u, n) => u \in D[a]
  BY <1>2, <1>3, BeforeOrder
<1>5. CASE a # nil
  <2>1. v = Far(m, o, a)
    BY <1>5, NeighbourClimbs DEF a, o
  <2>2. v \in D[a] /\ \A y \in D[a] : y = v \/ Before(o, v, y)
    BY <2>1, <1>1, <1>2, <1>5, FarIsExtreme
  <2> HIDE DEF v
  <2>3. \A y \in D[a] : y = v \/ Before(s, y, v)
    BY <2>2, <1>1, <1>2, BeforeOrder DEF o
  <2>4. \A u \in N \ D[n] : Before(s, u, n) => Before(s, u, v)
    <3> TAKE u \in N \ D[n]
    <3>1. \/ \A y \in D[n] : Before(s, u, y)
          \/ \A y \in D[n] : Before(s, y, u)
      BY Contiguous
    <3>2. ~(Before(s, u, n) /\ Before(s, n, u))
      BY <1>2, BeforeOrder
    <3> QED BY <3>1, <3>2, <2>2, <1>2
  <2> QED BY <2>2, <2>3, <2>4, <1>2, <1>4 DEF IsNext, v
<1>6. CASE a = nil
  <2>1. v = Climb(m, s, n)
    BY <1>6, NeighbourClimbs DEF a
  <2>2. \/ v = nil /\ \A u \in N \ D[n] : ~Before(s, u, n)
        \/ /\ v \in N /\ Before(s, v, n)
           /\ \A u \in N \ D[n] : Before(s, u, n) => u = v \/ Before(s, u, v)
    BY <2>1, ClimbLeadsOut
  <2>3. \A u \in D[n] : ~Before(s, u, n)
    BY <1>4, <1>6, <1>2
  <2> QED BY <2>2, <2>3 DEF IsNext
<1> QED BY <1>5, <1>6

\* The search of Descend for k, from n.
Search(m, k, n) ==
  LET down[x \in Keys] ==
        LET c == IF k < x THEN m.left[x] ELSE m.right[x] IN
        IF k = x \/ c = nil THEN x ELSE down[c]
  IN down[n]

\* The model's search is Search from the root.
LEMMA DescendSearches ==
  ASSUME NEW k
  PROVE  Descend(k) = IF node = nil THEN nil ELSE Search(mem, k, node)
BY DEF Descend, Search

\* The side on which k belongs under x.
Toward(k, x) == IF k < x THEN "left" ELSE "right"

\* Search, unfolded once.
LEMMA SearchUnfolds ==
  ASSUME NEW m, NEW N \in SUBSET Keys, IsMemory(m), Inward(m, N), NEW k \in Keys
  PROVE  \A x \in Keys : Search(m, k, x) =
           IF k = x \/ m[Toward(k, x)][x] = nil THEN x ELSE Search(m, k, m[Toward(k, x)][x])
<1> DEFINE Body(f) == [x \in Keys |-> LET c == IF k < x THEN m.left[x] ELSE m.right[x] IN
                         IF k = x \/ c = nil THEN x ELSE f[c]]
           F == CHOOSE f : f = Body(f)
           next == [x \in Keys |-> IF k < x THEN m.left[x] ELSE m.right[x]]
           stop == {x \in Keys : k = x \/ next[x] = nil}
           val == [x \in Keys |-> x]
<1>1. \A x \in Keys : next[x] = m[Toward(k, x)][x] /\ Toward(k, x) \in Sides
  BY DEF Toward, Sides
<1>2. \A x \in Keys \ stop : next[x] \in Keys
  <2> TAKE x \in Keys \ stop
  <2> next[x] \in N \cup {nil} /\ next[x] # nil
    <3> HIDE DEF next
    <3> QED BY <1>1 DEF Inward
  <2> QED OBVIOUS
<1>3. \E f : f = Unfold(Keys, stop, val, next, f)
  <2>1. stop \in SUBSET Keys
    OBVIOUS
  <2> HIDE DEF stop, val, next
  <2> QED BY <1>2, <2>1, TailRecursion
<1>4. \E f : f = Body(f)
  <2>1. PICK f : f = Unfold(Keys, stop, val, next, f)
    BY <1>3
  <2>2. f = Body(f)
    BY <2>1 DEF Unfold
  <2> QED BY <2>2
<1>5. F = Body(F)
  <2> HIDE DEF Body
  <2> QED BY <1>4
<1>6. \A x : Search(m, k, x) = F[x]
  BY DEF Search
<1> HIDE DEF F
<1>7. \A x \in Keys : F[x] = IF k = x \/ next[x] = nil THEN x ELSE F[next[x]]
  BY <1>5
<1> HIDE DEF next
<1> QED BY <1>1, <1>6, <1>7

\* The search goes to the side on which its key lies.
LEMMA TowardSide ==
  ASSUME NEW k \in Keys, NEW x \in Keys, k # x
  PROVE  Toward(k, x) \in Sides /\ Before(Toward(k, x), k, x)
BY KeysAssumption DEF Toward, Before, Sides

\* Every other node of N lies on the same side of k as of x.
SameSides(N, k, x) ==
  \A u \in N \ {x}, t \in Sides : Before(t, k, u) <=> Before(t, x, u)

\* The search ends at its key, or at a node where that key would be a leaf and
\* which lies to the other keys as that key does.
LEMMA SearchFinds ==
  ASSUME NEW m, NEW N, NEW D, NEW top, Shape(m, N, D, top), Inward(m, N),
         NEW k \in Keys, top # nil
  PROVE  LET x == Search(m, k, top) IN
         /\ x \in N
         /\ k \in N => x = k
         /\ k \notin N => m[Toward(k, x)][x] = nil /\ SameSides(N, k, x)
<1> DEFINE Fits(x) == /\ k \in N => k \in D[x]
                      /\ k \notin N => \A u \in N \ D[x], t \in Sides :
                                         Before(t, k, u) <=> Before(t, x, u)
           Found(y) == /\ y \in N
                       /\ k \in N => y = k
                       /\ k \notin N => m[Toward(k, y)][y] = nil /\ SameSides(N, k, y)
           B == {x \in N : Fits(x) /\ ~Found(Search(m, k, x))}
<1>1. /\ IsMemory(m) /\ N \in SUBSET Keys /\ nil \notin Keys
      /\ D \in [N \cup {nil} -> SUBSET N] /\ D[top] = N /\ D[nil] = {}
      /\ top \in N
  BY KeysAssumption DEF Shape
<1>2. Fits(top)
  BY <1>1
<1>3. SUFFICES ASSUME B # {} PROVE FALSE
  BY <1>1, <1>2
<1>4. PICK x \in B : \A s \in Sides : m[s][x] \notin B
  <2>1. B \in SUBSET N
    OBVIOUS
  <2> HIDE DEF B
  <2> QED BY <1>3, <2>1, Lowest
<1> DEFINE t == Toward(k, x)
           c == m[t][x]
           d == m[Opposite[t]][x]
<1>5. Search(m, k, x) = IF k = x \/ c = nil THEN x ELSE Search(m, k, c)
  BY <1>1, <1>4, SearchUnfolds
<1>6. k # x
  <2> SUFFICES ASSUME k = x PROVE FALSE
    OBVIOUS
  <2>1. Search(m, k, x) = x
    BY <1>5
  <2> QED BY <2>1, <1>4
<1>7. t \in Sides /\ Opposite[t] \in Sides /\ Opposite[Opposite[t]] = t /\ Before(t, k, x)
  BY <1>6, <1>1, <1>4, TowardSide, OppositeSide
<1> HIDE DEF t
<1>8. /\ D[x] = {x} \cup D[c] \cup D[d] /\ c \in N \cup {nil} /\ x \in N /\ x \in Keys
      /\ x \in D[x] /\ D[x] \subseteq N /\ D[c] \subseteq D[x]
      /\ c # nil => c \in D[c]
      /\ \A b \in D[c] : Before(t, b, x) /\ b \in Keys
      /\ \A b \in D[d] : Before(t, x, b) /\ b \in Keys
  <2>1. D[x] = {x} \cup D[c] \cup D[d] /\ (\A y \in D[c] : Before(t, y, x))
        /\ (\A y \in D[d] : Before(Opposite[t], y, x)) /\ c \in N \cup {nil}
    BY <1>4, <1>7 DEF Shape
  <2>2. x \in D[x] /\ D[x] \subseteq N /\ D[c] \subseteq D[x] /\ (c # nil => c \in D[c])
    BY <1>4, <1>7, ShapeFacts
  <2>3. \A b \in D[d] : b \in Keys
    BY <2>1, <2>2, <1>1
  <2>4. \A b \in D[d] : Before(t, x, b)
    BY <2>1, <2>3, <1>1, <1>4, <1>7, BeforeOrder
  <2> QED BY <2>1, <2>2, <2>3, <2>4, <1>1, <1>4
<1> HIDE DEF c, d
<1>9. \A u \in N \ D[x], v \in D[x], s \in Sides : Before(s, v, u) <=> Before(s, x, u)
  <2> TAKE u \in N \ D[x], v \in D[x], s \in Sides
  <2>1. \/ \A b \in D[x] : Before(s, u, b)
        \/ \A b \in D[x] : Before(s, b, u)
    BY <1>8, Contiguous
  <2>2. u \in Keys /\ v \in Keys /\ x \in Keys
    BY <1>1, <1>8
  <2>3. ~(Before(s, u, v) /\ Before(s, v, u)) /\ ~(Before(s, u, x) /\ Before(s, x, u))
    BY <2>2, BeforeOrder
  <2> QED BY <2>1, <2>3, <1>8
<1>10. CASE k \in N
  <2>1. k \in D[c]
    <3>1. k \in D[x]
      BY <1>4, <1>10
    <3>2. k \notin D[d]
      BY <1>7, <1>8, BeforeOrder
    <3> QED BY <3>1, <3>2, <1>6, <1>8
  <2>2. c # nil
    BY <2>1, <1>1
  <2>3. Fits(c) /\ c \in N
    BY <2>1, <2>2, <1>8, <1>10
  <2>4. Found(Search(m, k, c))
    BY <2>3, <1>4, <1>7 DEF c
  <2> QED BY <2>2, <2>4, <1>4, <1>5, <1>6
<1>11. CASE k \notin N
  <2>1. \A u \in D[d], s \in Sides : Before(s, k, u) <=> Before(s, x, u)
    <3> TAKE u \in D[d], s \in Sides
    <3>1. Before(t, x, u) /\ Before(t, k, u) /\ u \in Keys
      BY <1>7, <1>8, BeforeOrder
    <3>2. ~Before(Opposite[t], x, u) /\ ~Before(Opposite[t], k, u)
      <4>1. ~Before(t, u, x) /\ ~Before(t, u, k)
        BY <3>1, <1>7, <1>8, BeforeOrder
      <4> QED BY <4>1, <3>1, <1>7, <1>8, BeforeOrder
    <3> QED BY <3>1, <3>2, <1>7, TwoSides
  <2>2. CASE c = nil
    <3>1. SameSides(N, k, x)
      BY <2>1, <2>2, <1>1, <1>4, <1>8, <1>11 DEF SameSides
    <3> QED BY <3>1, <2>2, <1>4, <1>5, <1>8, <1>11 DEF c, t
  <2>3. CASE c # nil
    <3>1. c \in N /\ c \in D[c] /\ Before(t, c, x) /\ c \in Keys
      BY <2>3, <1>8
    <3>2. \A u \in N \ D[x], s \in Sides : Before(s, k, u) <=> Before(s, c, u)
      BY <1>4, <1>9, <1>8, <1>11, <3>1
    <3>3. \A s \in Sides : Before(s, k, x) <=> Before(s, c, x)
      <4>1. ~Before(Opposite[t], k, x) /\ ~Before(Opposite[t], c, x)
        BY <3>1, <1>7, <1>8, BeforeOrder
      <4> QED BY <4>1, <3>1, <1>7, TwoSides
    <3>4. \A u \in D[d], s \in Sides : Before(s, k, u) <=> Before(s, c, u)
      <4> TAKE u \in D[d], s \in Sides
      <4>1. Before(t, x, u) /\ Before(t, c, u) /\ Before(t, k, u) /\ u \in Keys
        BY <3>1, <1>7, <1>8, BeforeOrder
      <4>2. ~Before(Opposite[t], c, u) /\ ~Before(Opposite[t], k, u)
        <5>1. ~Before(t, u, c) /\ ~Before(t, u, k)
          BY <4>1, <3>1, <1>7, BeforeOrder
        <5> QED BY <5>1, <4>1, <3>1, <1>7, BeforeOrder
      <4> QED BY <4>1, <4>2, <1>7, TwoSides
    <3>5. Fits(c)
      BY <3>2, <3>3, <3>4, <1>8, <1>11
    <3>6. Found(Search(m, k, c))
      BY <3>1, <3>5, <1>4, <1>7 DEF c
    <3> QED BY <2>3, <3>6, <1>4, <1>5, <1>6
  <2> QED BY <2>2, <2>3
<1> QED BY <1>10, <1>11

-----------------------------------------------------------------------------
(* Counting blacks.                                                        *)

\* The nodes that the properties find below a node are those of the tree.
LEMMA BelowIsD ==
  ASSUME NEW N, NEW D, NEW top, Shape(mem, N, D, top), Inward(mem, N)
  PROVE  \A n \in N \cup {nil} : Below(n) = D[n]
<1> DEFINE Body(f) == [x \in Cells |-> IF x = nil THEN {} ELSE {x} \cup f[mem.left[x]] \cup f[mem.right[x]]]
           F == CHOOSE f : f = Body(f)
           G == [x \in Cells |-> IF x \in N \cup {nil} THEN D[x]
                                 ELSE {x} \cup D[mem.left[x]] \cup D[mem.right[x]]]
<1>1. /\ N \subseteq Keys /\ nil \notin Keys /\ D[nil] = {}
      /\ \A x \in Keys : mem.left[x] \in N \cup {nil} /\ mem.right[x] \in N \cup {nil}
      /\ \A x \in N : D[x] = {x} \cup D[mem.left[x]] \cup D[mem.right[x]]
  <2>1. \A x \in N : D[x] = {x} \cup D[mem["left"][x]] \cup D[mem["right"][x]]
    BY DEF Shape, Sides, Opposite
  <2>2. \A x \in Keys : mem["left"][x] \in N \cup {nil} /\ mem["right"][x] \in N \cup {nil}
    BY DEF Inward, Sides
  <2> QED BY <2>1, <2>2, KeysAssumption DEF Shape
<1>2. N \cup {nil} \subseteq Cells /\ \A x \in Cells : x = nil \/ x \in Keys
  BY <1>1 DEF Cells
<1>3. G = Body(G)
  <2>1. \A x \in Cells : G[x] = IF x = nil THEN {} ELSE {x} \cup G[mem.left[x]] \cup G[mem.right[x]]
    <3>1. \A x \in N \cup {nil} : G[x] = D[x]
      BY <1>2
    <3>2. \A x \in Keys \ N : G[x] = {x} \cup D[mem.left[x]] \cup D[mem.right[x]]
      BY <1>1, <1>2 DEF Cells
    <3> HIDE DEF G
    <3>3. \A x \in N : G[x] = {x} \cup G[mem.left[x]] \cup G[mem.right[x]]
      BY <3>1, <1>1
    <3>4. \A x \in Keys \ N : G[x] = {x} \cup G[mem.left[x]] \cup G[mem.right[x]]
      BY <3>1, <3>2, <1>1
    <3> QED BY <3>1, <3>3, <3>4, <1>1, <1>2
  <2>2. G = [x \in Cells |-> G[x]]
    OBVIOUS
  <2> HIDE DEF G
  <2> QED BY <2>1, <2>2
<1>4. F = Body(F)
  <2> HIDE DEF Body, G
  <2> QED BY <1>3
<1>5. \A x : Below(x) = F[x]
  BY DEF Below
<1> HIDE DEF F, G
<1>6. F[nil] = {} /\ \A x \in N : F[x] = {x} \cup F[mem.left[x]] \cup F[mem.right[x]]
  BY <1>1, <1>2, <1>4
<1> HIDE DEF Body
<1> DEFINE B == {x \in N : F[x] # D[x]}
<1>7. B = {}
  <2> SUFFICES ASSUME B # {} PROVE FALSE
    OBVIOUS
  <2>1. PICK x \in B : \A s \in Sides : mem[s][x] \notin B
    <3>1. B \in SUBSET N
      OBVIOUS
    <3> HIDE DEF B
    <3> QED BY <3>1, Lowest
  <2>2. mem.left[x] \notin B /\ mem.right[x] \notin B
    <3>1. mem["left"][x] \notin B /\ mem["right"][x] \notin B
      BY <2>1 DEF Sides
    <3> QED BY <3>1
  <2>3. mem.left[x] \in N \cup {nil} /\ mem.right[x] \in N \cup {nil}
    BY <2>1, <1>1
  <2>4. F[mem.left[x]] = D[mem.left[x]] /\ F[mem.right[x]] = D[mem.right[x]]
    BY <2>2, <2>3, <1>1, <1>6
  <2>5. F[x] = {x} \cup F[mem.left[x]] \cup F[mem.right[x]]
    BY <2>1, <1>6
  <2>6. D[x] = {x} \cup D[mem.left[x]] \cup D[mem.right[x]]
    BY <2>1, <1>1
  <2> QED BY <2>1, <2>4, <2>5, <2>6
<1> QED BY <1>1, <1>5, <1>6, <1>7

\* The black that the properties count for a removal's cursor.
Extra(x, p) == IF /\ pc = "remove" /\ x = cursor /\ mem.parent[x] = p /\ ~Red(mem, nil)
               THEN 1 ELSE 0

\* The ways down from a node all have as many blacks as its height says.
LEMMA BlackHeightIsH ==
  ASSUME NEW N, NEW D, NEW top, Shape(mem, N, D, top), Inward(mem, N),
         NEW H, NEW gp, NEW gs, Balanced(mem, N, H, gp, gs),
         \A x \in N, s \in Sides : Extra(mem[s][x], x) = IF x = gp /\ s = gs THEN 1 ELSE 0
  PROVE  \A n \in N \cup {nil} : BlackHeights(n) = {H[n]}
<1> DEFINE Plus(b, c, x) == {h + Extra(c, x) + (IF Red(mem, x) THEN 0 ELSE 1) : h \in b}
           Body(f) == [x \in Keys |->
               UNION {LET c == mem[s][x]
                          b == IF c = nil THEN {0} ELSE f[c]
                      IN {h + Extra(c, x) + (IF Red(mem, x) THEN 0 ELSE 1) : h \in b} :
                      s \in Sides}]
           F == CHOOSE f : f = Body(f)
           G == [x \in Keys |-> IF x \in N THEN {H[x]}
                  ELSE UNION {Plus({H[mem[s][x]]}, mem[s][x], x) : s \in Sides}]
<1>1. /\ N \subseteq Keys /\ nil \notin Keys /\ H[nil] = 0
      /\ H \in [N \cup {nil} -> Nat]
      /\ \A x \in Keys, s \in Sides : mem[s][x] \in N \cup {nil}
      /\ \A x \in N, s \in Sides : H[x] = H[mem[s][x]] + Extra(mem[s][x], x) + (IF Red(mem, x) THEN 0 ELSE 1)
  BY KeysAssumption DEF Shape, Inward, Balanced, Weight
<1>2. \A x \in N, s \in Sides : Plus({H[mem[s][x]]}, mem[s][x], x) = {H[x]}
  BY <1>1
<1> DEFINE Deep(f, c) == IF c = nil THEN {0} ELSE f[c]
<1> HIDE DEF Plus
<1>4. \A x \in N : UNION {Plus({H[mem[s][x]]}, mem[s][x], x) : s \in Sides} = {H[x]}
  BY <1>2 DEF Sides
<1>5. G = Body(G)
  <2>1. \A x \in Keys, s \in Sides : Deep(G, mem[s][x]) = {H[mem[s][x]]}
    BY <1>1
  <2>2. \A x \in Keys : G[x] = UNION {Plus({H[mem[s][x]]}, mem[s][x], x) : s \in Sides}
    BY <1>4
  <2>3. G = [x \in Keys |-> G[x]] /\ Body(G) = [x \in Keys |-> Body(G)[x]]
    OBVIOUS
  <2>4. \A x \in Keys : Body(G)[x] = UNION {Plus(Deep(G, mem[s][x]), mem[s][x], x) : s \in Sides}
    <3> HIDE DEF G
    <3> QED BY DEF Plus
  <2> HIDE DEF G, Body, Deep
  <2>5. \A x \in Keys : Body(G)[x] = UNION {Plus({H[mem[s][x]]}, mem[s][x], x) : s \in Sides}
    <3> TAKE x \in Keys
    <3>1. {Plus(Deep(G, mem[s][x]), mem[s][x], x) : s \in Sides} = {Plus({H[mem[s][x]]}, mem[s][x], x) : s \in Sides}
      BY <2>1
    <3> QED BY <3>1, <2>4
  <2> QED BY <2>2, <2>3, <2>5
<1>6. F = Body(F)
  <2> HIDE DEF Body, G
  <2> QED BY <1>5
<1>7. \A x : BlackHeights(x) = IF x = nil THEN {0} ELSE F[x]
  BY DEF BlackHeights, Extra
<1> HIDE DEF F, G
<1>8. \A x \in N : F[x] = UNION {Plus(Deep(F, mem[s][x]), mem[s][x], x) : s \in Sides}
  <2>1. \A x \in Keys : Body(F)[x] = UNION {Plus(Deep(F, mem[s][x]), mem[s][x], x) : s \in Sides}
    BY DEF Plus
  <2> HIDE DEF Body, Deep
  <2> QED BY <1>1, <1>6, <2>1
<1> HIDE DEF Deep
<1> HIDE DEF Body
<1> DEFINE B == {x \in N : F[x] # {H[x]}}
<1>9. B = {}
  <2> SUFFICES ASSUME B # {} PROVE FALSE
    OBVIOUS
  <2>1. PICK x \in B : \A s \in Sides : mem[s][x] \notin B
    <3>1. B \in SUBSET N
      OBVIOUS
    <3> HIDE DEF B
    <3> QED BY <3>1, Lowest
  <2>2. \A s \in Sides : Deep(F, mem[s][x]) = {H[mem[s][x]]}
    <3> TAKE s \in Sides
    <3>1. mem[s][x] \in N \cup {nil}
      BY <2>1, <1>1
    <3> QED BY <3>1, <2>1, <1>1 DEF Deep
  <2>3. {Plus(Deep(F, mem[s][x]), mem[s][x], x) : s \in Sides} = {Plus({H[mem[s][x]]}, mem[s][x], x) : s \in Sides}
    BY <2>2
  <2> QED BY <2>1, <2>3, <1>4, <1>8
<1> QED BY <1>1, <1>7, <1>9

\* v is the extreme of S on side s; nil if S is empty.
IsEnd(s, S, v) ==
  IF S = {} THEN v = nil ELSE v \in S /\ \A o \in S : o = v \/ Before(s, v, o)

\* The first and last node are the least and greatest key.
LEMMA EndIsLeast ==
  ASSUME NEW S \in SUBSET Keys, NEW v
  PROVE  /\ IsEnd("left", S, v) => Least(S) = v
         /\ IsEnd("right", S, v) => Greatest(S) = v
<1>1. S \subseteq Int
  BY KeysAssumption
<1>2. ASSUME IsEnd("left", S, v) PROVE Least(S) = v
  <2>1. CASE S = {}
    BY <1>2, <2>1 DEF IsEnd, Least
  <2>2. CASE S # {}
    <3>1. v \in S /\ \A o \in S : v <= o
      <4>1. v \in S /\ \A o \in S : o = v \/ Before("left", v, o)
        BY <1>2, <2>2 DEF IsEnd
      <4>2. \A o \in S : o = v \/ v < o
        BY <4>1 DEF Before
      <4> QED BY <4>1, <4>2, <1>1
    <3>2. \A w \in S : (\A o \in S : w <= o) => w = v
      BY <1>1, <3>1
    <3> DEFINE w == CHOOSE n \in S : \A o \in S : n <= o
    <3>3. w \in S /\ \A o \in S : w <= o
      BY <3>1
    <3>4. Least(S) = w
      BY <2>2 DEF Least
    <3> HIDE DEF w
    <3> QED BY <3>2, <3>3, <3>4
  <2> QED BY <2>1, <2>2
<1>3. ASSUME IsEnd("right", S, v) PROVE Greatest(S) = v
  <2>1. CASE S = {}
    BY <1>3, <2>1 DEF IsEnd, Greatest
  <2>2. CASE S # {}
    <3>1. v \in S /\ \A o \in S : v >= o
      <4>1. v \in S /\ \A o \in S : o = v \/ Before("right", v, o)
        BY <1>3, <2>2 DEF IsEnd
      <4>2. \A o \in S : o = v \/ v > o
        BY <4>1 DEF Before
      <4> QED BY <4>1, <4>2, <1>1
    <3>2. \A w \in S : (\A o \in S : w >= o) => w = v
      BY <1>1, <3>1
    <3> DEFINE w == CHOOSE n \in S : \A o \in S : n >= o
    <3>3. w \in S /\ \A o \in S : w >= o
      BY <3>1
    <3>4. Greatest(S) = w
      BY <2>2 DEF Greatest
    <3> HIDE DEF w
    <3> QED BY <3>2, <3>3, <3>4
  <2> QED BY <2>1, <2>2
<1> QED BY <1>2, <1>3

\* The ends of the order after a new leaf: it is an end if it hangs from one.
LEMMA EndAfterHang ==
  ASSUME NEW N \in SUBSET Keys, NEW s \in Sides, NEW e, IsEnd(s, N, e),
         NEW tmp \in N, NEW k \in Keys \ N, NEW side \in Sides, Before(side, k, tmp),
         SameSides(N, k, tmp)
  PROVE  IsEnd(s, N \cup {k}, IF side = s /\ tmp = e THEN k ELSE e)
<1> DEFINE o == Opposite[s]
<1>1. e \in N /\ e \in Keys /\ \A u \in N : u = e \/ Before(s, e, u)
  BY DEF IsEnd
<1>2. o \in Sides /\ Opposite[o] = s /\ (side = s \/ side = o)
  BY OppositeSide, TwoSides
<1>3. CASE side = s /\ tmp = e
  <2>1. \A u \in N : Before(s, k, u)
    BY <1>1, <1>3, BeforeOrder
  <2> QED BY <2>1, <1>3 DEF IsEnd
<1>4. CASE ~(side = s /\ tmp = e)
  <2>1. Before(s, e, k)
    <3>1. CASE tmp = e
      BY <3>1, <1>1, <1>2, <1>4, BeforeOrder
    <3>2. CASE tmp # e
      <4>1. Before(s, e, tmp)
        BY <3>2, <1>1
      <4>2. Before(o, tmp, e)
        BY <4>1, <1>1, BeforeOrder
      <4>3. Before(o, k, e)
        BY <4>2, <3>2, <1>1, <1>2 DEF SameSides
      <4> QED BY <4>3, <1>1, <1>2, BeforeOrder
    <3> QED BY <3>1, <3>2
  <2> QED BY <2>1, <1>1, <1>4 DEF IsEnd
<1> QED BY <1>3, <1>4

\* The ends of the order after a removal: the neighbour replaces an end.
LEMMA EndAfterUnlink ==
  ASSUME NEW N \in SUBSET Keys, NEW s \in Sides, NEW e, IsEnd(s, N, e),
         NEW z \in N, NEW v, z = e => IsNext(N, Opposite[s], z, v)
  PROVE  IsEnd(s, N \ {z}, IF z = e THEN v ELSE e)
<1> DEFINE o == Opposite[s]
<1>1. e \in N /\ e \in Keys /\ \A u \in N : u = e \/ Before(s, e, u)
  BY DEF IsEnd
<1>2. o \in Sides /\ Opposite[o] = s
  BY OppositeSide
<1>3. CASE z = e
  <2>1. \A u \in N : u = e \/ Before(o, u, e)
    BY <1>1, <1>2, BeforeOrder
  <2>2. IsNext(N, o, e, v)
    BY <1>3
  <2> HIDE DEF o
  <2>3. CASE v = nil /\ \A u \in N : ~Before(o, u, e)
    <3>1. N \ {z} = {}
      BY <2>1, <2>3, <1>3
    <3> QED BY <3>1, <2>3, <1>3 DEF IsEnd
  <2>4. CASE v \in N /\ Before(o, v, e) /\ \A u \in N : Before(o, u, e) => u = v \/ Before(o, u, v)
    <3>1. v # e
      BY <2>4, <1>1, <1>2, BeforeOrder
    <3>2. \A u \in N \ {z} : u = v \/ Before(o, u, v)
      BY <2>1, <2>4, <1>3
    <3>3. \A u \in N \ {z} : u = v \/ Before(s, v, u)
      BY <3>2, <2>4, <1>2, BeforeOrder DEF o
    <3> QED BY <3>1, <3>3, <2>4, <1>3 DEF IsEnd
  <2> QED BY <2>2, <2>3, <2>4 DEF IsNext
<1>4. CASE z # e
  BY <1>1, <1>4 DEF IsEnd
<1> QED BY <1>3, <1>4

\* The black that is missing on side gs of gp, as a number.
Gap(gp, gs, n, s) == IF n = gp /\ s = gs THEN 1 ELSE 0

\* The balance at n, on side s.
Even(m, H, gp, gs, n, s) ==
  H[n] = H[m[s][n]] + Gap(gp, gs, n, s) + Weight(m, n)

\* Balanced, one node and side at a time.
LEMMA BalancedIsEven ==
  ASSUME NEW m, NEW N, NEW H, NEW gp, NEW gs
  PROVE  Balanced(m, N, H, gp, gs) <=>
           /\ H \in [N \cup {nil} -> Nat] /\ H[nil] = 0
           /\ \A n \in N, s \in Sides : Even(m, H, gp, gs, n, s)
BY DEF Balanced, Even, Gap

\* What the heights H before and K after a rotation must have in common.
TurnHeights(m, N, n, s, nnew, H, K, gp, gs) ==
  /\ H \in [N \cup {nil} -> Nat] /\ K \in [N \cup {nil} -> Nat] /\ K[nil] = 0
  /\ gp # nnew /\ (gp = n => gs = s)
  /\ \A x \in N, t \in Sides : x \notin {n, nnew} => Even(m, H, gp, gs, x, t)
  /\ \A x \in N \cup {nil} : x \notin {n, nnew} => K[x] = H[x]
  /\ K[nnew] = H[n]
  /\ K[n] = H[m[s][n]] + Gap(gp, gs, n, s) + Weight(m, n)
  /\ K[n] = H[m[s][nnew]] + Weight(m, n)
  /\ H[n] = K[n] + Weight(m, nnew)
  /\ H[n] = H[m[Opposite[s]][nnew]] + Weight(m, nnew)

\* A rotation changes the heights of the two nodes that it turns only.
LEMMA RotateBalanced ==
  ASSUME NEW m, NEW N, NEW D, NEW top, Shape(m, N, D, top),
         NEW n \in N, NEW s \in Sides, NEW nnew \in {m[Opposite[s]][n]}, nnew # nil,
         NEW H, NEW K, NEW gp, NEW gs, TurnHeights(m, N, n, s, nnew, H, K, gp, gs)
  PROVE  Balanced(Rotate(m, n, s), N, K, gp, gs)
<1> DEFINE o == Opposite[s]
           p == m.parent[n]
           inner == m[s][nnew]
           far == m[o][nnew]
           a == m[s][n]
           r == Rotate(m, n, s)
<1>1. o \in Sides /\ o # s /\ Opposite[o] = s /\ \A t \in Sides : t = s \/ t = o
  BY OppositeSide, TwoSides
<1>2. /\ r.color = m.color
      /\ nnew \in N /\ nnew # n /\ inner # n /\ inner # nnew
      /\ \A t \in Sides : \A x \in Cells : r[t][x] =
           IF x = n THEN IF t = s THEN a ELSE inner
           ELSE IF x = nnew THEN IF t = s THEN n ELSE m[t][nnew]
           ELSE IF x = p /\ m[t][p] = n THEN nnew ELSE m[t][x]
  <2>1. n \in N /\ s \in Sides /\ m[Opposite[s]][n] # nil /\ Shape(m, N, D, top)
    OBVIOUS
  <2>2. LET new == m[Opposite[s]][n]
            in  == m[s][new]
        IN  /\ r.color = m.color
            /\ new \in N /\ new # n /\ in # n /\ in # new
            /\ \A t \in Sides : \A x \in Cells : r[t][x] =
                 IF x = n THEN IF t = s THEN a ELSE in
                 ELSE IF x = new THEN IF t = s THEN n ELSE m[t][new]
                 ELSE IF x = p /\ m[t][p] = n THEN new ELSE m[t][x]
    BY ONLY <2>1, RotateShape
  <2> QED BY <2>2
<1>3. N \cup {nil} \subseteq Cells /\ \A x \in N, t \in Sides : m[t][x] \in N \cup {nil}
  BY DEF Shape, Cells
<1>4. a # n /\ a # nnew /\ far # nnew /\ far # n
  <2>1. a # n /\ a # nnew
    BY ShapeFacts, <1>1
  <2>2. far # nnew /\ (far # nil => far \in D[far] /\ D[far] \subseteq D[nnew])
    <3>1. nnew \in N /\ o \in Sides /\ Shape(m, N, D, top)
      BY <1>1, <1>2
    <3> HIDE DEF o
    <3> QED BY ONLY <3>1, ShapeFacts
  <2>3. far # n
    <3>1. n \notin D[nnew]
      BY <1>1, ShapeFacts
    <3>3. n # nil
      BY ShapeFacts
    <3> QED BY <3>1, <2>2, <3>3
  <2> QED BY <2>1, <2>2, <2>3
<1>5. \A x \in N, t \in Sides : m[t][x] = nnew => x = n
  <2>1. \A x \in N, t \in Sides : m[t][x] # nil => m.parent[m[t][x]] = x
    BY DEF Shape
  <2>2. m.parent[nnew] \in {n} /\ nnew # nil
    BY <2>1, <1>1
  <2> QED BY <2>1, <2>2
<1>6. \A x \in N, t \in Sides : m[t][x] = n => x = p
  <2>1. \A x \in N, t \in Sides : m[t][x] # nil => m.parent[m[t][x]] = x
    BY DEF Shape
  <2>2. n # nil
    BY ShapeFacts
  <2> QED BY <2>1, <2>2
<1>7. \A x \in N : Weight(r, x) = Weight(m, x)
  BY <1>2 DEF Weight, Red
<1>8. gp # nnew
  BY DEF TurnHeights
<1>9. /\ H \in [N \cup {nil} -> Nat] /\ K \in [N \cup {nil} -> Nat] /\ K[nil] = 0
      /\ (gp = n => gs = s)
      /\ \A x \in N, t \in Sides : x \notin {n, nnew} => Even(m, H, gp, gs, x, t)
      /\ \A x \in N \cup {nil} : x \notin {n, nnew} => K[x] = H[x]
      /\ K[nnew] = H[n]
      /\ K[n] = H[a] + Gap(gp, gs, n, s) + Weight(m, n)
      /\ K[n] = H[inner] + Weight(m, n)
      /\ H[n] = K[n] + Weight(m, nnew)
      /\ H[n] = H[far] + Weight(m, nnew)
  BY DEF TurnHeights
<1> HIDE DEF o, p, inner, far, a, r
<1>10. a \in N \cup {nil} /\ inner \in N \cup {nil} /\ far \in N \cup {nil} /\ n \in Cells /\ nnew \in Cells
  BY <1>1, <1>2, <1>3 DEF a, inner, far
<1>11. K[a] = H[a] /\ K[inner] = H[inner] /\ K[far] = H[far]
  BY <1>2, <1>4, <1>9, <1>10
<1>12. \A t \in Sides : Even(r, K, gp, gs, n, t)
  <2>1. r[s][n] \in {a} /\ r[o][n] \in {inner}
    BY <1>1, <1>2, <1>10
  <2>2. Gap(gp, gs, n, o) = 0
    BY <1>1, <1>9 DEF Gap
  <2>3. K[n] \in Nat /\ H[inner] \in Nat /\ Weight(m, n) \in Nat
    BY <1>9, <1>10 DEF Weight
  <2>4. Even(r, K, gp, gs, n, s)
    BY <2>1, <1>7, <1>9, <1>11 DEF Even
  <2>6. K[n] = H[inner] + Weight(m, n) /\ K[inner] = H[inner] /\ Weight(r, n) = Weight(m, n)
    BY <1>7, <1>9, <1>11
  <2>5. Even(r, K, gp, gs, n, o)
    BY ONLY <2>1, <2>2, <2>3, <2>6 DEF Even
  <2> QED BY <2>4, <2>5, <1>1
<1>13. \A t \in Sides : Even(r, K, gp, gs, nnew, t)
  <2>1. r[s][nnew] \in {n} /\ r[o][nnew] \in {far}
    BY <1>1, <1>2, <1>10 DEF far
  <2>2. \A t \in Sides : Gap(gp, gs, nnew, t) = 0
    BY <1>8 DEF Gap
  <2>3. K[n] \in Nat /\ H[far] \in Nat /\ Weight(m, nnew) \in Nat
    BY <1>2, <1>9, <1>10 DEF Weight
  <2>6. /\ K[nnew] = K[n] + Weight(m, nnew) /\ K[nnew] = K[far] + Weight(m, nnew)
        /\ Weight(r, nnew) = Weight(m, nnew) /\ K[far] = H[far]
        /\ Gap(gp, gs, nnew, s) = 0 /\ Gap(gp, gs, nnew, o) = 0
    BY <2>2, <1>1, <1>2, <1>7, <1>9, <1>11
  <2>4. Even(r, K, gp, gs, nnew, s)
    BY ONLY <2>1, <2>3, <2>6 DEF Even
  <2>5. Even(r, K, gp, gs, nnew, o)
    BY ONLY <2>1, <2>3, <2>6 DEF Even
  <2> QED BY <2>4, <2>5, <1>1
<1>14. \A x \in N, t \in Sides : x \notin {n, nnew} => Even(r, K, gp, gs, x, t)
  <2> TAKE x \in N, t \in Sides
  <2> HAVE x \notin {n, nnew}
  <2>1. Even(m, H, gp, gs, x, t) /\ K[x] = H[x] /\ Weight(r, x) = Weight(m, x)
    BY <1>7, <1>9
  <2>2. r[t][x] = IF m[t][x] = n THEN nnew ELSE m[t][x]
    BY <1>2, <1>3, <1>6
  <2>3. K[r[t][x]] = H[m[t][x]]
    BY <2>2, <1>3, <1>5, <1>9
  <2> QED BY <2>1, <2>3 DEF Even
<1>15. \A x \in N, t \in Sides : Even(r, K, gp, gs, x, t)
  BY <1>12, <1>13, <1>14
<1>16. Balanced(r, N, K, gp, gs)
  BY <1>9, <1>15, BalancedIsEven
<1> QED BY <1>16 DEF r

-----------------------------------------------------------------------------
(* The inductive invariant.                                                *)

\* The tree in m: its nodes are N; A are the nodes that are allocated.
Tree(m, A, N, D, top) ==
  /\ Shape(m, N, D, top)
  /\ N \subseteq A /\ A \subseteq Keys
  /\ Inward(m, N)
  /\ \A k \in Keys \ A, s \in Sides : m[s][k] = nil

\* No black is missing anywhere.
NoGap(m, N, H) == Balanced(m, N, H, nil, "left")

\* The colours of a tree between two calls.
Settled(m, N, H) ==
  /\ NoGap(m, N, H)
  /\ \A n \in N : ~RedPair(m, n)
  /\ ~Red(m, nil)

\* size counts the nodes, begin and tail are their ends.
Counters(N, sz, b, t) ==
  /\ sz = Cardinality(N) /\ IsEnd("left", N, b) /\ IsEnd("right", N, t)

\* Between two calls there is a red-black tree of the allocated nodes.
Idle ==
  \E D, H : /\ Tree(mem, alive, alive, D, node)
            /\ Settled(mem, alive, H)
            /\ Counters(alive, size, begin, tail)
            /\ victim = nil

\* While an insertion is repaired only its cursor may be red under red.
Inserting ==
  \E D, H, top :
    /\ Tree(mem, alive, alive, D, top)
    /\ NoGap(mem, alive, H) /\ ~Red(mem, nil)
    /\ cursor \in alive /\ Red(mem, cursor)
    /\ \A n \in alive : RedPair(mem, n) => n = cursor
    /\ node \in alive /\ victim = nil
    /\ Counters(alive, size, begin, tail)

\* Where the black that is missing at x is missing; nowhere once nil is red.
Lacking(m, N, H, top, x) ==
  \/ Red(m, nil) /\ x = nil /\ NoGap(m, N, H)
  \/ ~Red(m, nil) /\ m.parent[x] = nil /\ x = top /\ NoGap(m, N, H)
  \/ /\ ~Red(m, nil) /\ m.parent[x] \in N
     /\ \E s \in Sides : m[s][m.parent[x]] = x /\ Balanced(m, N, H, m.parent[x], s)

\* The colours while a removal is repaired: a black is missing at x, and if x
\* is red, painting it black is all that is left to do.  nil hangs from a node,
\* so that the climb goes on, unless x is red.
RemoveState(m, N, H, top, x) ==
  /\ x \in N \cup {nil}
  /\ Lacking(m, N, H, top, x)
  /\ \A n \in N : RedPair(m, n) => Red(m, x) /\ x \in {n, m.parent[n]}
  /\ N # {} /\ m.parent[nil] \notin N => x # nil /\ Red(m, x)

\* While a removal is repaired the tree lacks its victim and a black.
Removing ==
  \E D, H, top :
    LET N == alive \ {victim} IN
    /\ Tree(mem, alive, N, D, top)
    /\ RemoveState(mem, N, H, top, cursor)
    /\ victim \in alive
    /\ IF N = {} THEN node = nil ELSE node \in N
    /\ Counters(N, size, begin, tail)

\* After a tree is destroyed nothing is linked.
NoTree ==
  /\ IsMemory(mem) /\ ~Red(mem, nil)
  /\ \A x \in Cells, s \in Sides : mem[s][x] = nil
  /\ alive = {} /\ victim = nil

\* The inductive invariant: what holds of the memory at each place of the code.
IInv ==
  /\ pc \in {"idle", "insert", "remove", "none", "undefined"}
  /\ pc = "idle" => Idle
  /\ pc = "insert" => Inserting
  /\ pc = "remove" => Removing
  /\ pc = "none" => NoTree

\* Setting the fields of a node changes its fields alone.
LEMMA SetFieldsFields ==
  ASSUME NEW m, IsMemory(m), NEW n \in Cells, NEW f,
         f.parent \in Cells, f.left \in Cells, f.right \in Cells, f.color \in {"red", "black"}
  PROVE  LET r == SetFields(m, n, f) IN
         /\ IsMemory(r)
         /\ r.parent = [m.parent EXCEPT ![n] = f.parent]
         /\ r.left = [m.left EXCEPT ![n] = f.left]
         /\ r.right = [m.right EXCEPT ![n] = f.right]
         /\ r.color = [m.color EXCEPT ![n] = f.color]
BY DEF SetFields, IsMemory

\* The fields of a new node.
LEMMA FreshFields ==
  /\ Fresh.parent = nil /\ Fresh.left = nil /\ Fresh.right = nil /\ Fresh.color = "black"
  /\ \A p : LET f == [Fresh EXCEPT !.parent = p, !.color = "red"] IN
            f.parent = p /\ f.left = nil /\ f.right = nil /\ f.color = "red"
BY DEF Fresh

\* Painting leaves the tree.
LEMMA PaintTree ==
  ASSUME NEW m, NEW A, NEW N, NEW D, NEW top, Tree(m, A, N, D, top),
         NEW x \in Cells, NEW c \in {"red", "black"}
  PROVE  LET r == Paint(m, x, c) IN
         /\ Tree(r, A, N, D, top)
         /\ r.parent = m.parent /\ r.left = m.left /\ r.right = m.right
         /\ \A s \in Sides : r[s] = m[s]
         /\ \A y \in Cells : Red(r, y) <=> IF y = x THEN c = "red" ELSE Red(m, y)
<1> DEFINE r == Paint(m, x, c)
<1>1. IsMemory(m)
  BY DEF Tree, Shape
<1>2. /\ IsMemory(r) /\ r.parent = m.parent /\ r.left = m.left /\ r.right = m.right
      /\ \A y \in Cells : r.color[y] = IF y = x THEN c ELSE m.color[y]
  <2>1. IsMemory(m) /\ x \in Cells /\ c \in {"red", "black"}
    BY <1>1
  <2> QED BY ONLY <2>1 DEF Paint, IsMemory
<1> HIDE DEF r
<1>3. \A s \in Sides : r[s] = m[s]
  <2>1. r["left"] = m["left"] /\ r["right"] = m["right"]
    BY <1>2
  <2> QED BY <2>1 DEF Sides
<1>4. Shape(r, N, D, top)
  BY <1>2, <1>3, AgreeShape DEF Tree
<1>5. Tree(r, A, N, D, top)
  BY <1>3, <1>4 DEF Tree, Inward
<1>6. \A y \in Cells : Red(r, y) <=> IF y = x THEN c = "red" ELSE Red(m, y)
  BY <1>2 DEF Red
<1> QED BY <1>2, <1>3, <1>5, <1>6 DEF r

\* r is m after a rotation of n towards s; nnew comes up and hands on inner.
Turned(m, A, N, top, n, s, nnew, inner, r) ==
  LET p == m.parent[n] IN
  /\ \E E : Tree(r, A, N, E, IF n = top THEN nnew ELSE top)
  /\ nnew \in N /\ nnew # n /\ inner # n /\ inner # nnew
  /\ inner \in N \cup {nil} /\ p \in N \cup {nil} /\ p # n /\ p # nnew
  /\ \A y : Red(r, y) <=> Red(m, y)
  /\ \A y \in Cells : r.parent[y] =
       IF y = nnew THEN p ELSE IF y = n THEN nnew
       ELSE IF y = inner /\ inner # nil THEN n ELSE m.parent[y]
  /\ \A t \in Sides : \A y \in Cells : r[t][y] =
       IF y = n THEN IF t = s THEN m[s][n] ELSE inner
       ELSE IF y = nnew THEN IF t = s THEN n ELSE m[t][nnew]
       ELSE IF y = p /\ m[t][p] = n THEN nnew ELSE m[t][y]

\* A rotation leaves a tree, and turns it so.
LEMMA RotateTree ==
  ASSUME NEW m, NEW A, NEW N, NEW D, NEW top, Tree(m, A, N, D, top),
         NEW n \in N, NEW s \in Sides, NEW nnew \in {m[Opposite[s]][n]}, nnew # nil,
         NEW inner \in {m[s][nnew]}
  PROVE  Turned(m, A, N, top, n, s, nnew, inner, Rotate(m, n, s))
<1> DEFINE o == Opposite[s]
           p == m.parent[n]
           r == Rotate(m, n, s)
           E == RotatedSets(D, m, n, s)
           newTop == IF n = top THEN nnew ELSE top
<1>1. Shape(m, N, D, top)
  BY DEF Tree
<1>2. /\ Shape(r, N, E, newTop)
      /\ r.color = m.color
      /\ nnew \in N /\ nnew # n /\ inner # n /\ inner # nnew
      /\ \A x \in Cells : r.parent[x] =
           IF x = nnew THEN p ELSE IF x = n THEN nnew
           ELSE IF x = inner /\ inner # nil THEN n ELSE m.parent[x]
      /\ \A t \in Sides : \A x \in Cells : r[t][x] =
           IF x = n THEN IF t = s THEN m[s][n] ELSE inner
           ELSE IF x = nnew THEN IF t = s THEN n ELSE m[t][nnew]
           ELSE IF x = p /\ m[t][p] = n THEN nnew ELSE m[t][x]
  <2>1. n \in N /\ s \in Sides /\ m[Opposite[s]][n] # nil
    OBVIOUS
  <2>2. LET new == m[Opposite[s]][n]
            in  == m[s][new]
        IN  /\ Shape(r, N, E, IF n = top THEN new ELSE top)
            /\ r.color = m.color
            /\ new \in N /\ new # n /\ in # n /\ in # new
            /\ \A x \in Cells : r.parent[x] =
                 IF x = new THEN p ELSE IF x = n THEN new
                 ELSE IF x = in /\ in # nil THEN n ELSE m.parent[x]
            /\ \A t \in Sides : \A x \in Cells : r[t][x] =
                 IF x = n THEN IF t = s THEN m[s][n] ELSE in
                 ELSE IF x = new THEN IF t = s THEN n ELSE m[t][new]
                 ELSE IF x = p /\ m[t][p] = n THEN new ELSE m[t][x]
    BY ONLY <1>1, <2>1, RotateShape
  <2> QED BY <2>2
<1>3. /\ N \subseteq Keys /\ nil \notin Keys /\ n # nil
      /\ \A x \in N, t \in Sides : m[t][x] \in N \cup {nil}
      /\ \A x \in N, t \in Sides : m[t][x] # nil => m.parent[m[t][x]] = x
      /\ n # top => p \in N /\ \E t \in Sides : m[t][p] = n
      /\ n = top => p = nil
  BY <1>1, KeysAssumption DEF Shape
<1>4. inner \in N \cup {nil} /\ p \in N \cup {nil}
  BY <1>2, <1>3
<1>5. p # n /\ p # nnew
  <2>1. p # n
    BY <1>3, <1>1, ShapeFacts
  <2>2. p # nnew
    <3> SUFFICES ASSUME p = nnew PROVE FALSE
      OBVIOUS
    <3>1. PICK t \in Sides : m[t][nnew] \in {n}
      BY <1>3, <1>2
    <3>2. o \in Sides
      BY OppositeSide
    <3>3. n \notin D[nnew]
      BY <3>2, <1>1, ShapeFacts
    <3>4. n \in D[nnew]
      <4>1. n \in D[n]
        BY <1>1, ShapeFacts
      <4>2. D[m[t][nnew]] \subseteq D[nnew]
        BY <1>1, <1>2, ShapeFacts
      <4> QED BY <3>1, <4>1, <4>2
    <3> QED BY <3>3, <3>4
  <2> QED BY <2>1, <2>2
<1> HIDE DEF o, p, r, E
<1>6. Inward(r, N)
  <2> SUFFICES ASSUME NEW k \in Keys, NEW t \in Sides PROVE r[t][k] \in N \cup {nil}
    BY DEF Inward
  <2>1. m[t][k] \in N \cup {nil} /\ m[s][n] \in N \cup {nil} /\ m[t][nnew] \in N \cup {nil}
    BY <1>2, <1>3 DEF Tree, Inward
  <2>2. k \in Cells
    BY DEF Cells
  <2>3. r[t][k] = IF k = n THEN IF t = s THEN m[s][n] ELSE inner
           ELSE IF k = nnew THEN IF t = s THEN n ELSE m[t][nnew]
           ELSE IF k = p /\ m[t][p] = n THEN nnew ELSE m[t][k]
    BY <2>2, <1>2
  <2> QED BY <2>1, <2>3, <1>2, <1>4
<1>7. \A k \in Keys \ A, t \in Sides : r[t][k] = nil
  <2> TAKE k \in Keys \ A, t \in Sides
  <2>1. k \notin N /\ m[t][k] = nil /\ k # nil /\ k \in Cells
    BY <1>3 DEF Tree, Cells
  <2> QED BY <2>1, <1>2, <1>4
<1>8. Tree(r, A, N, E, newTop)
  BY <1>2, <1>6, <1>7 DEF Tree
<1>9. \A y : Red(r, y) <=> Red(m, y)
  BY <1>2 DEF Red
<1> QED BY <1>2, <1>4, <1>5, <1>8, <1>9 DEF Turned, newTop, p, r

-----------------------------------------------------------------------------
(* Trees that begin and end; insertion.                                    *)

\* No node at all is a tree, with any colours but a red nil.
LEMMA EmptyIsSettled ==
  ASSUME NEW m, IsMemory(m), \A x \in Cells, s \in Sides : m[s][x] = nil, ~Red(m, nil)
  PROVE  \E D, H : /\ Tree(m, {}, {}, D, nil) /\ Settled(m, {}, H)
                   /\ Counters({}, 0, nil, nil)
<1> DEFINE D == [x \in {nil} |-> {}]
           H == [x \in {nil} |-> 0]
<1>1. m.left[nil] = nil /\ m.right[nil] = nil
  <2>1. m["left"][nil] = nil /\ m["right"][nil] = nil
    BY DEF Cells, Sides
  <2> QED BY <2>1
<1>2. Shape(m, {}, D, nil)
  BY <1>1 DEF Shape
<1>3. Tree(m, {}, {}, D, nil)
  BY <1>2 DEF Tree, Inward, Cells
<1>4. Settled(m, {}, H)
  BY DEF Settled, NoGap, Balanced
<1>5. Counters({}, 0, nil, nil)
  BY FS_EmptySet DEF Counters, IsEnd
<1> QED BY <1>3, <1>4, <1>5

\* The invariant holds of an empty tree.
LEMMA InitIInv == Init => IInv
<1> SUFFICES ASSUME Init PROVE IInv
  OBVIOUS
<1>1. IsMemory(mem)
  BY DEF Init, IsMemory, Cells
<1>2. \A x \in Cells, s \in Sides : mem[s][x] = nil
  BY DEF Init, Sides
<1>3. ~Red(mem, nil)
  BY DEF Init, Red, Cells
<1>4. alive = {} /\ size = 0 /\ begin = nil /\ tail = nil /\ node = nil /\ victim = nil /\ pc = "idle"
  BY DEF Init
<1>5. Idle
  BY <1>1, <1>2, <1>3, <1>4, EmptyIsSettled DEF Idle
<1> QED BY <1>4, <1>5 DEF IInv

\* A new tree satisfies the invariant.
LEMMA CreateStep ==
  ASSUME IInv, Create PROVE IInv'
<1>1. NoTree
  BY DEF IInv, Create
<1>2. alive' = {} /\ size' = 0 /\ begin' = nil /\ tail' = nil /\ node' = nil /\ victim' = nil /\ pc' = "idle" /\ mem' = mem
  BY <1>1 DEF Create, NoTree
<1>3. \E D, H : /\ Tree(mem, {}, {}, D, nil) /\ Settled(mem, {}, H)
                /\ Counters({}, 0, nil, nil)
  BY <1>1, EmptyIsSettled DEF NoTree
<1>4. Idle'
  <2>1. PICK D, H : /\ Tree(mem, {}, {}, D, nil) /\ Settled(mem, {}, H)
                    /\ Counters({}, 0, nil, nil)
    BY <1>3
  <2>2. /\ Tree(mem', alive', alive', D, node') /\ Settled(mem', alive', H)
        /\ Counters(alive', size', begin', tail') /\ victim' = nil
    BY <2>1, <1>2
  <2> QED BY <2>2 DEF Idle
<1> QED BY <1>2, <1>4 DEF IInv

\* Destroying a tree leaves nothing linked.
LEMMA DestroyStep ==
  ASSUME IInv, Destroy PROVE IInv'
<1>1. Idle /\ pc = "idle" /\ pc' = "none" /\ victim' = victim
  BY DEF IInv, Destroy
<1>2. PICK D, H : /\ Tree(mem, alive, alive, D, node)
                  /\ Settled(mem, alive, H) /\ victim = nil
  BY <1>1 DEF Idle
<1>3. Below(node) = alive
  <2>1. Shape(mem, alive, D, node) /\ Inward(mem, alive)
    BY <1>2 DEF Tree
  <2> QED BY <2>1, BelowIsD DEF Shape
<1>4. IsMemory(mem) /\ mem.left[nil] = nil /\ mem.right[nil] = nil /\ alive \subseteq Keys
  BY <1>2 DEF Tree, Shape
<1>5. mem' = [f \in DOMAIN mem |->
              [n \in Cells |-> IF n \in alive THEN Fresh[f] ELSE mem[f][n]]]
  BY <1>3 DEF Destroy
<1>6. DOMAIN mem = {"parent", "left", "right", "color"}
  BY <1>4 DEF IsMemory
<1>7. /\ mem'.parent = [n \in Cells |-> IF n \in alive THEN nil ELSE mem.parent[n]]
      /\ mem'.left = [n \in Cells |-> IF n \in alive THEN nil ELSE mem.left[n]]
      /\ mem'.right = [n \in Cells |-> IF n \in alive THEN nil ELSE mem.right[n]]
      /\ mem'.color = [n \in Cells |-> IF n \in alive THEN "black" ELSE mem.color[n]]
  BY <1>5, <1>6, FreshFields
<1>8. IsMemory(mem')
  <2>1. DOMAIN mem' = {"parent", "left", "right", "color"}
    BY <1>5, <1>6
  <2> QED BY <2>1, <1>4, <1>7 DEF IsMemory, Cells
<1>9. \A x \in Cells, s \in Sides : mem'[s][x] = nil
  <2> SUFFICES ASSUME NEW x \in Cells PROVE mem'["left"][x] = nil /\ mem'["right"][x] = nil
    BY DEF Sides
  <2>1. x \notin alive /\ x # nil => mem["left"][x] = nil /\ mem["right"][x] = nil
    BY <1>2 DEF Tree, Cells, Sides
  <2> QED BY <2>1, <1>4, <1>7
<1>10. ~Red(mem', nil)
  <2>1. nil \notin alive /\ nil \in Cells /\ ~Red(mem, nil)
    BY <1>4, <1>2, KeysAssumption DEF Cells, Settled
  <2> QED BY <2>1, <1>7 DEF Red
<1>11. alive' = {}
  BY <1>3 DEF Destroy
<1>12. NoTree'
  BY <1>1, <1>2, <1>8, <1>9, <1>10, <1>11 DEF NoTree, Red
<1> QED BY <1>1, <1>12 DEF IInv

\* The tree of one black node.
LEMMA InsertFirstStep ==
  ASSUME IInv, NEW k \in Keys, InsertFirst(k) PROVE IInv'
<1>1. Idle /\ pc = "idle" /\ node = nil
  BY DEF IInv, InsertFirst
<1>2. PICK D0, H0 : /\ Tree(mem, alive, alive, D0, node)
                    /\ Settled(mem, alive, H0) /\ Counters(alive, size, begin, tail) /\ victim = nil
  BY <1>1 DEF Idle
<1>3. /\ IsMemory(mem) /\ mem.left[nil] = nil /\ mem.right[nil] = nil
      /\ ~Red(mem, nil) /\ alive = {}
  BY <1>1, <1>2 DEF Tree, Shape, Settled
<1>4. k \in Cells /\ nil \in Cells /\ k # nil
  BY KeysAssumption DEF Cells
<1>5. \A s \in Sides, x \in Cells : mem[s][x] = nil
  BY <1>2, <1>3 DEF Tree, Cells, Sides
<1> DEFINE r == mem'
<1>6. /\ IsMemory(r)
      /\ r.parent = [mem.parent EXCEPT ![k] = nil]
      /\ r.left = [mem.left EXCEPT ![k] = nil]
      /\ r.right = [mem.right EXCEPT ![k] = nil]
      /\ r.color = [mem.color EXCEPT ![k] = "black"]
  <2>1. r = SetFields(mem, k, Fresh)
    BY DEF InsertFirst
  <2>2. /\ Fresh.parent = nil /\ Fresh.left = nil /\ Fresh.right = nil /\ Fresh.color = "black"
    BY FreshFields
  <2>3. /\ IsMemory(mem) /\ k \in Cells
        /\ Fresh.parent \in Cells /\ Fresh.left \in Cells /\ Fresh.right \in Cells
        /\ Fresh.color \in {"red", "black"}
    BY <1>3, <1>4, <2>2
  <2> HIDE DEF r
  <2> QED BY ONLY <2>1, <2>2, <2>3, SetFieldsFields
<1>7. /\ r.parent[k] = nil /\ ~Red(r, k) /\ ~Red(r, nil)
  BY <1>3, <1>4, <1>6 DEF IsMemory, Red
<1>8. \A s \in Sides, x \in Cells : r[s][x] = nil
  <2>1. \A x \in Cells : r["left"][x] = nil /\ r["right"][x] = nil
    BY <1>4, <1>5, <1>6, <1>3 DEF IsMemory, Sides
  <2> QED BY <2>1 DEF Sides
<1> HIDE DEF r
<1> DEFINE N == {k}
           D == [x \in {k} \cup {nil} |-> IF x = k THEN {k} ELSE {}]
           H == [x \in {k} \cup {nil} |-> IF x = k THEN 1 ELSE 0]
<1>9. Shape(r, N, D, k)
  <2>1. r.left[nil] = nil /\ r.right[nil] = nil
    <3>1. r["left"][nil] = nil /\ r["right"][nil] = nil
      BY <1>4, <1>8 DEF Sides
    <3> QED BY <3>1
  <2>2. \A s \in Sides : r[s][k] = nil /\ Opposite[s] \in Sides /\ r[Opposite[s]][k] = nil
    BY <1>4, <1>8, OppositeSide
  <2>3. D[k] = {k} /\ D[nil] = {} /\ D \in [N \cup {nil} -> SUBSET N]
    BY <1>4
  <2> HIDE DEF D
  <2> QED BY <2>1, <2>2, <2>3, <1>4, <1>6, <1>7 DEF Shape
<1>10. Tree(r, N, N, D, k)
  BY <1>8, <1>9 DEF Tree, Inward, Cells
<1>11. Settled(r, N, H)
  <2>1. H[k] = 1 /\ H[nil] = 0 /\ H \in [N \cup {nil} -> Nat]
    BY <1>4
  <2>2. \A s \in Sides : r[s][k] = nil
    BY <1>4, <1>8
  <2> HIDE DEF H
  <2> QED BY <2>1, <2>2, <1>4, <1>7 DEF Settled, NoGap, Balanced, Weight, RedPair
<1>12. Counters(N, 1, k, k)
  BY FS_Singleton DEF Counters, IsEnd
<1>13. /\ alive' = N /\ node' = k /\ begin' = k /\ tail' = k /\ size' = 1
       /\ victim' = nil /\ pc' = "idle"
  <2>1. Cardinality({}) = 0
    BY FS_EmptySet
  <2> QED BY <1>1, <1>2, <1>3, <2>1 DEF InsertFirst, Counters, callVars
<1>14. Idle'
  <2> HIDE DEF N, D, H
  <2>1. /\ Tree(mem', alive', alive', D, node') /\ Settled(mem', alive', H)
        /\ Counters(alive', size', begin', tail') /\ victim' = nil
    BY <1>10, <1>11, <1>12, <1>13 DEF r
  <2> QED BY <2>1 DEF Idle
<1> QED BY <1>13, <1>14 DEF IInv

\* The tree r of m once the red node k hangs from tmp.
Hung(m, r, M, top, k, tmp) ==
  /\ \E E, K : Tree(r, M, M, E, top) /\ NoGap(r, M, K)
  /\ ~Red(r, nil) /\ Red(r, k)
  /\ \A n \in M : RedPair(r, n) => n = k /\ Red(m, tmp)

\* What a red node hung from where the search for it ended makes of the tree.
LEMMA HangTree ==
  ASSUME NEW m, NEW N, NEW D, NEW H, NEW top, Tree(m, N, N, D, top), Settled(m, N, H),
         NEW k \in Keys \ N, NEW tmp \in N, NEW side \in Sides,
         m[side][tmp] = nil, Before(side, k, tmp), SameSides(N, k, tmp),
         NEW r, IsMemory(r),
         r.parent = [m.parent EXCEPT ![k] = tmp],
         r.color = [m.color EXCEPT ![k] = "red"],
         \A t \in Sides, x \in Cells : r[t][x] = IF t = side /\ x = tmp THEN k ELSE m[t][x]
  PROVE  Hung(m, r, N \cup {k}, top, k, tmp)
<1>1. /\ Shape(m, N, D, top) /\ IsMemory(m) /\ N \subseteq Keys
      /\ m.left[nil] = nil /\ m.right[nil] = nil
      /\ Inward(m, N) /\ \A x \in Keys \ N, s \in Sides : m[s][x] = nil
      /\ NoGap(m, N, H) /\ ~Red(m, nil) /\ \A n \in N : ~RedPair(m, n)
  BY DEF Tree, Shape, Settled
<1>2. k \in Cells /\ nil \in Cells /\ k # nil /\ nil \notin N /\ tmp # nil /\ k \notin N /\ k # tmp /\ tmp \in Cells
  BY <1>1, KeysAssumption DEF Cells
<1>3. /\ r.parent[k] = tmp
      /\ \A x \in Cells : x # k => r.parent[x] = m.parent[x]
      /\ \A x \in Cells : Red(r, x) <=> x = k \/ Red(m, x)
  BY <1>1, <1>2 DEF IsMemory, Red
<1>4. \A x \in N : x \in Cells /\ x # k
  BY <1>1, <1>2 DEF Cells
<1>5. r.left[nil] = nil /\ r.right[nil] = nil
  <2>1. r["left"][nil] = nil /\ r["right"][nil] = nil
    BY <1>1, <1>2 DEF Sides
  <2> QED BY <2>1
<1>6. \A t \in Sides : r[t][k] = nil
  BY <1>1, <1>2
<1> DEFINE E == HungSets(N, D, k, tmp)
           K == [x \in (N \cup {k}) \cup {nil} |-> IF x = k THEN 0 ELSE H[x]]
           M == N \cup {k}
<1>7. Shape(r, M, E, top)
  <2>1. /\ Shape(m, N, D, top) /\ k \in Keys \ N /\ tmp \in N /\ side \in Sides
        /\ m[side][tmp] = nil /\ Before(side, k, tmp)
        /\ \A x \in N \ {tmp}, t \in Sides : Before(t, tmp, x) => Before(t, k, x)
        /\ IsMemory(r) /\ r.left[nil] = nil /\ r.right[nil] = nil
        /\ \A t \in Sides : r[t][k] = nil
        /\ \A t \in Sides : \A x \in N :
             r[t][x] = IF t = side /\ x = tmp THEN k ELSE m[t][x]
        /\ r.parent[k] = tmp
        /\ \A x \in N : r.parent[x] = m.parent[x]
    BY <1>1, <1>3, <1>4, <1>5, <1>6 DEF SameSides
  <2> QED BY ONLY <2>1, HangShape
<1>8. Tree(r, M, M, E, top)
  <2>1. Inward(r, M)
    BY <1>1, <1>2 DEF Inward, Cells
  <2>2. \A x \in Keys \ M, s \in Sides : r[s][x] = nil
    BY <1>1, <1>2 DEF Cells
  <2>3. M \subseteq Keys
    BY <1>1
  <2> HIDE DEF E
  <2> QED BY <1>7, <2>1, <2>2, <2>3 DEF Tree
<1>9. NoGap(r, M, K)
  <2>1. /\ H \in [N \cup {nil} -> Nat] /\ H[nil] = 0
        /\ \A n \in N, s \in Sides : H[n] = H[m[s][n]] + Weight(m, n)
    <3>1. \A n \in N : n # nil
      BY <1>2
    <3>2. \A n \in N, s \in Sides :
       H[n] = H[m[s][n]] + 0 + Weight(m, n)
       BY <1>1, <3>1 DEF NoGap, Balanced
    <3>3. H \in [N \cup {nil} -> Nat] /\ H[nil] = 0 /\ \A n \in N : Weight(m, n) \in Nat
      BY <1>1 DEF NoGap, Balanced, Weight
    <3>4. \A n \in N, s \in Sides : m[s][n] \in N \cup {nil}
      BY <1>1 DEF Inward
    <3>5. \A n \in N, s \in Sides : H[m[s][n]] \in Nat
      BY <3>3, <3>4
    <3> QED BY <3>2, <3>3, <3>5
  <2>2. K \in [M \cup {nil} -> Nat] /\ K[nil] = 0 /\ K[k] = 0 /\ \A x \in N : K[x] = H[x]
    BY <2>1, <1>2
  <2> HIDE DEF K
  <2>3. \A x \in M, s \in Sides : K[x] = K[r[s][x]] + 0 + Weight(r, x)
    <3> TAKE x \in M, s \in Sides
    <3>1. CASE x = k
      <4>1. r[s][x] = nil /\ Weight(r, x) = 0
        BY <3>1, <1>2, <1>3, <1>6 DEF Weight
      <4> QED BY <4>1, <3>1, <2>2
    <3>2. CASE x # k
      <4>1. Weight(r, x) = Weight(m, x) /\ Weight(m, x) \in Nat
        BY <3>2, <1>3, <1>4 DEF Weight
      <4>2. m[s][x] \in N \cup {nil}
        BY <3>2, <1>1 DEF Inward
      <4>3. K[r[s][x]] = H[m[s][x]]
        BY <4>2, <3>2, <1>2, <1>4, <2>1, <2>2
      <4>4. H[m[s][x]] \in Nat
        BY <4>2, <2>1
      <4>5. K[x] = H[x] /\ H[x] = H[m[s][x]] + Weight(m, x)
        BY <3>2, <2>1, <2>2
      <4> QED BY <4>1, <4>3, <4>4, <4>5
    <3> QED BY <3>1, <3>2
  <2>4. nil \notin M
    BY <1>2
  <2> QED BY <2>2, <2>3, <2>4 DEF NoGap, Balanced
<1>10. ~Red(r, nil) /\ Red(r, k)
  BY <1>1, <1>2, <1>3
<1>11. ASSUME NEW n \in M, RedPair(r, n) PROVE n = k /\ Red(m, tmp)
  <2>1. CASE n = k
    BY <2>1, <1>11, <1>2, <1>3 DEF RedPair
  <2>2. CASE n # k
    <3>1. n \in N /\ r.parent[n] = m.parent[n]
      BY <2>2, <1>3, <1>4
    <3>2. m.parent[n] \in N \cup {nil}
      BY <3>1, <1>1 DEF Shape
    <3>3. RedPair(m, n)
      BY <3>1, <3>2, <1>2, <1>3, <1>4, <1>11 DEF RedPair
    <3>4. FALSE
      BY <3>1, <3>3, <1>1
    <3> QED BY <3>4
  <2> QED BY <2>1, <2>2
<1> HIDE DEF E, K
<1> QED BY <1>8, <1>9, <1>10, <1>11 DEF Hung

\* Hanging a new node keeps the invariant, with a repair to do or without.
LEMMA InsertBelowStep ==
  ASSUME IInv, NEW k \in Keys, InsertBelow(k) PROVE IInv'
<1> DEFINE tmp == Descend(k)
           side == Toward(k, tmp)
           f == [Fresh EXCEPT !.parent = tmp, !.color = "red"]
           m == SetFields(mem, k, f)
           r == SetChild(m, side, tmp, k)
<1>1. /\ Idle /\ pc = "idle" /\ node # nil /\ tmp # k
      /\ mem' = r
      /\ begin' = IF side = "left" /\ tmp = begin THEN k ELSE begin
      /\ tail' = IF side = "right" /\ tmp = tail THEN k ELSE tail
      /\ size' = size + 1 /\ alive' = alive \cup {k}
      /\ \/ Red(mem, tmp) /\ pc' = "insert" /\ cursor' = k
         \/ ~Red(mem, tmp) /\ pc' = pc
      /\ node' = node /\ victim' = victim
  BY DEF IInv, InsertBelow, Toward, SetChild
<1>2. PICK D, H : /\ Tree(mem, alive, alive, D, node)
                  /\ Settled(mem, alive, H) /\ Counters(alive, size, begin, tail) /\ victim = nil
  BY <1>1 DEF Idle
<1>3. /\ Shape(mem, alive, D, node) /\ Inward(mem, alive) /\ alive \subseteq Keys
      /\ IsMemory(mem) /\ \A x \in Keys \ alive, s \in Sides : mem[s][x] = nil
      /\ node \in alive
  BY <1>1, <1>2 DEF Tree, Shape
<1>4. tmp = Search(mem, k, node)
  BY <1>1, DescendSearches
<1>5. /\ tmp \in alive /\ k \in Keys \ alive /\ mem[side][tmp] = nil /\ SameSides(alive, k, tmp)
  BY <1>1, <1>3, <1>4, SearchFinds
<1>6. side \in Sides /\ Before(side, k, tmp)
  BY <1>1, <1>3, <1>5, TowardSide
<1>7. k \in Cells /\ tmp \in Cells /\ nil \in Cells
  BY <1>3, <1>5 DEF Cells
<1> HIDE DEF tmp, side
<1>8. /\ IsMemory(m)
      /\ m.parent = [mem.parent EXCEPT ![k] = tmp]
      /\ m.left = [mem.left EXCEPT ![k] = nil]
      /\ m.right = [mem.right EXCEPT ![k] = nil]
      /\ m.color = [mem.color EXCEPT ![k] = "red"]
  <2>1. f.parent = tmp /\ f.left = nil /\ f.right = nil /\ f.color = "red"
    BY FreshFields
  <2> HIDE DEF f
  <2>2. f.parent \in Cells /\ f.left \in Cells /\ f.right \in Cells /\ f.color \in {"red", "black"}
    BY <2>1, <1>7
  <2> QED BY <2>1, <2>2, <1>3, <1>7, SetFieldsFields
<1> HIDE DEF m
<1>9. \A t \in Sides, x \in Cells : m[t][x] = mem[t][x]
  <2>1. mem["left"][k] = nil /\ mem["right"][k] = nil
    BY <1>3, <1>5 DEF Sides
  <2>2. \A x \in Cells : m["left"][x] = mem["left"][x] /\ m["right"][x] = mem["right"][x]
    BY <2>1, <1>3, <1>8 DEF IsMemory
  <2> QED BY <2>2 DEF Sides
<1>10. /\ IsMemory(r)
       /\ r.parent = [mem.parent EXCEPT ![k] = tmp]
       /\ r.color = [mem.color EXCEPT ![k] = "red"]
       /\ \A t \in Sides, x \in Cells : r[t][x] = IF t = side /\ x = tmp THEN k ELSE mem[t][x]
  <2>1. /\ IsMemory(r) /\ r.parent = m.parent /\ r.color = m.color
        /\ \A t \in Sides : \A x \in Cells :
             r[t][x] = IF t = side /\ x = tmp THEN k ELSE m[t][x]
    BY <1>6, <1>7, <1>8, SetChildFields
  <2> HIDE DEF r
  <2> QED BY <2>1, <1>8, <1>9
<1> HIDE DEF r
<1> DEFINE M == alive \cup {k}
<1>11. Hung(mem, r, M, node, k, tmp)
  <2>1. /\ Tree(mem, alive, alive, D, node) /\ Settled(mem, alive, H)
        /\ k \in Keys \ alive /\ tmp \in alive /\ side \in Sides
        /\ mem[side][tmp] = nil /\ Before(side, k, tmp) /\ SameSides(alive, k, tmp)
    BY <1>2, <1>5, <1>6
  <2> QED BY ONLY <2>1, <1>10, HangTree
<1>12. Counters(M, size', begin', tail')
  <2>1. Cardinality(M) = Cardinality(alive) + 1
    BY <1>3, <1>5, FiniteKeys, FS_AddElement
  <2>2. IsEnd("left", alive, begin) /\ IsEnd("right", alive, tail) /\ size = Cardinality(alive)
    BY <1>2 DEF Counters
  <2>3. IsEnd("left", M, IF side = "left" /\ tmp = begin THEN k ELSE begin)
    <3>1. "left" \in Sides
      BY DEF Sides
    <3> QED BY <3>1, <2>2, <1>3, <1>5, <1>6, EndAfterHang
  <2>4. IsEnd("right", M, IF side = "right" /\ tmp = tail THEN k ELSE tail)
    <3>1. "right" \in Sides
      BY DEF Sides
    <3> QED BY <3>1, <2>2, <1>3, <1>5, <1>6, EndAfterHang
  <2> QED BY <2>1, <2>2, <2>3, <2>4, <1>1 DEF Counters
<1>13. PICK E, K : Tree(r, M, M, E, node) /\ NoGap(r, M, K)
  BY <1>11 DEF Hung
<1>18. ~Red(r, nil) /\ Red(r, k) /\ \A n \in M : RedPair(r, n) => n = k /\ Red(mem, tmp)
  BY <1>11 DEF Hung
<1>14. alive' = M /\ mem' = r /\ node' = node /\ victim' = nil
  BY <1>1, <1>2
<1>15. node \in M /\ k \in M
  BY <1>3
<1> HIDE DEF M
<1>16. CASE Red(mem, tmp) /\ pc' = "insert" /\ cursor' = k
  <2>1. /\ Tree(mem', alive', alive', E, node')
        /\ NoGap(mem', alive', K) /\ ~Red(mem', nil)
        /\ cursor' \in alive' /\ Red(mem', cursor')
        /\ \A n \in alive' : RedPair(mem', n) => n = cursor'
        /\ node' \in alive' /\ victim' = nil
        /\ Counters(alive', size', begin', tail')
    BY <1>18, <1>12, <1>13, <1>14, <1>15, <1>16
  <2>2. Inserting'
    BY <2>1 DEF Inserting
  <2> QED BY <2>2, <1>16 DEF IInv
<1>17. CASE ~Red(mem, tmp) /\ pc' = pc
  <2>1. /\ Tree(mem', alive', alive', E, node')
        /\ Settled(mem', alive', K)
        /\ victim' = nil
        /\ Counters(alive', size', begin', tail')
    BY <1>18, <1>12, <1>13, <1>14, <1>17 DEF Settled
  <2>2. Idle'
    BY <2>1 DEF Idle
  <2> QED BY <2>2, <1>1, <1>17 DEF IInv
<1> QED BY <1>1, <1>16, <1>17

\* The way up from a node, and the other child of its parent.
LEMMA ParentFacts ==
  ASSUME NEW m, NEW N, NEW D, NEW top, Shape(m, N, D, top), NEW n \in N
  PROVE  LET p == m.parent[n]
             s == SideOf(m, n, p)
             o == Opposite[s]
         IN  /\ p \in N \cup {nil} /\ p # n /\ (p = nil <=> n = top)
             /\ s \in Sides /\ o \in Sides
             /\ p # nil =>
                  /\ p \in N /\ m[s][p] = n /\ m[o][p] # n /\ m[o][p] # p
                  /\ \A t \in Sides : m[t][p] = n => t = s
                  /\ \A x \in N : m.parent[x] = p => x = n \/ x = m[o][p]
                  /\ m[o][p] \in N \cup {nil}
                  /\ m[o][p] # nil => m.parent[m[o][p]] = p
<1> DEFINE p == m.parent[n]
           s == SideOf(m, n, p)
           o == Opposite[s]
<1>1. /\ N \subseteq Keys /\ nil \notin N /\ top \in N \cup {nil}
      /\ top # nil => m.parent[top] = nil
      /\ \A x \in N, t \in Sides : m[t][x] \in N \cup {nil}
      /\ \A x \in N, t \in Sides : m[t][x] # nil => m.parent[m[t][x]] = x
      /\ \A x \in N \ {top} : m.parent[x] \in N /\ \E t \in Sides : m[t][m.parent[x]] = x
  BY KeysAssumption DEF Shape
<1>2. s \in Sides /\ o \in Sides /\ o # s /\ \A t \in Sides : t = s \/ t = o
  <2>1. s \in Sides
    BY DEF SideOf, Sides
  <2> HIDE DEF s
  <2> QED BY <2>1, OppositeSide, TwoSides
<1>3. CASE n = top
  <2>1. p = nil /\ n # nil
    BY <1>1, <1>3
  <2> QED BY <1>2, <1>3, <2>1
<1>4. CASE n # top
  <2>1. p \in N /\ \E t \in Sides : m[t][p] = n
    BY <1>1, <1>4
  <2>2. p # nil /\ n # nil
    BY <2>1, <1>1
  <2>3. p # n
    <3>1. PICK t \in Sides : m[t][p] = n
      BY <2>1
    <3>2. m[t][n] # n
      BY ShapeFacts
    <3> QED BY <3>1, <3>2
  <2>4. m[s][p] = n
    <3>1. m["left"][p] = n \/ m["right"][p] = n
      BY <2>1 DEF Sides
    <3> QED BY <3>1 DEF SideOf
  <2>5. m[s][p] # m[o][p] /\ m[o][p] # p
    <3>1. m[s][p] # nil
      BY <2>2, <2>4
    <3>2. p \in N /\ s \in Sides /\ o \in Sides
      BY <2>1, <1>2
    <3> HIDE DEF p, s
    <3> QED BY <3>1, <3>2, ShapeFacts
  <2>6. \A x \in N : m.parent[x] = p => x = n \/ x = m[o][p]
    <3> SUFFICES ASSUME NEW x \in N, m.parent[x] = p PROVE x = n \/ x = m[o][p]
      OBVIOUS
    <3>1. x # top
      BY <1>1, <2>2
    <3>2. PICK t \in Sides : m[t][p] = x
      BY <3>1, <1>1
    <3> QED BY <3>2, <2>4, <1>2
  <2> HIDE DEF p, s, o
  <2>7. \A t \in Sides : m[t][p] = n => t = s
    BY <1>2, <2>4, <2>5
  <2>8. m[o][p] \in N \cup {nil} /\ (m[o][p] # nil => m.parent[m[o][p]] = p)
    BY <1>1, <1>2, <2>1
  <2>9. m[o][p] # n
    BY <2>4, <2>5
  <2> QED BY <1>2, <1>4, <2>1, <2>2, <2>3, <2>4, <2>5, <2>6, <2>7, <2>8, <2>9 DEF p, s, o
<1> QED BY <1>3, <1>4

\* A black weighs one, a red nothing.
LEMMA WeightIs ==
  ASSUME NEW m, NEW x
  PROVE  /\ Weight(m, x) \in {0, 1}
         /\ Red(m, x) => Weight(m, x) = 0
         /\ ~Red(m, x) => Weight(m, x) = 1
BY DEF Weight

\* A node is as high as each child, and one higher if it is black.
Heights(m, N, H) ==
  /\ H \in [N \cup {nil} -> Nat] /\ H[nil] = 0
  /\ \A x \in N, t \in Sides : H[x] = H[m[t][x]] + Weight(m, x)

\* Without a gap the heights are the same on both sides.
LEMMA NoGapIs ==
  ASSUME NEW m, NEW A, NEW N, NEW D, NEW top, Tree(m, A, N, D, top), NEW H
  PROVE  NoGap(m, N, H) <=> Heights(m, N, H)
<1>1. N \subseteq Keys /\ \A x \in N : x # nil
  BY KeysAssumption DEF Tree
<1>2. \A x \in N, t \in Sides : m[t][x] \in N \cup {nil}
  BY <1>1 DEF Tree, Inward
<1>3. \A x : Weight(m, x) \in {0, 1}
  BY WeightIs
<1>4. ASSUME H \in [N \cup {nil} -> Nat]
      PROVE  \A x \in N, t \in Sides : H[m[t][x]] + 0 + Weight(m, x) = H[m[t][x]] + Weight(m, x)
  BY <1>2, <1>3, <1>4
<1>5. NoGap(m, N, H) <=>
           /\ H \in [N \cup {nil} -> Nat] /\ H[nil] = 0
           /\ \A x \in N, t \in Sides : H[x] = H[m[t][x]] + 0 + Weight(m, x)
  BY <1>1 DEF NoGap, Balanced
<1> QED BY <1>4, <1>5 DEF Heights

\* Without a gap it does not matter on which side of nil it would be.
LEMMA NoGapSide ==
  ASSUME NEW m, NEW N, NEW H, NEW s, nil \notin N
  PROVE  NoGap(m, N, H) <=> Balanced(m, N, H, nil, s)
BY DEF NoGap, Balanced

\* The tree of Inserting, for a cursor z.
InsertState(m, N, D, H, top, z) ==
  /\ Tree(m, N, N, D, top)
  /\ NoGap(m, N, H) /\ ~Red(m, nil)
  /\ z \in N /\ Red(m, z)
  /\ \A n \in N : RedPair(m, n) => n = z

\* A turn of the loop that leaves such a tree keeps the invariant.
LEMMA InsertingStep ==
  ASSUME NEW D, NEW H, NEW top, Inserting, InsertState(mem', alive, D, H, top, cursor'),
         UNCHANGED <<alive, node, begin, tail, size, victim>>, pc' = "insert"
  PROVE  IInv'
<1>1. node \in alive /\ victim = nil /\ Counters(alive, size, begin, tail)
  BY DEF Inserting
<1>2. /\ Tree(mem', alive', alive', D, top)
      /\ NoGap(mem', alive', H) /\ ~Red(mem', nil)
      /\ cursor' \in alive' /\ Red(mem', cursor')
      /\ \A n \in alive' : RedPair(mem', n) => n = cursor'
      /\ node' \in alive' /\ victim' = nil
      /\ Counters(alive', size', begin', tail')
  BY <1>1 DEF InsertState
<1>3. Inserting'
  BY <1>2 DEF Inserting
<1> QED BY <1>3 DEF IInv

\* Two reds in a row: the lower one is the cursor, the upper one has a black
\* parent if it has one.
LEMMA TwoRedsFacts ==
  ASSUME NEW m, NEW N, NEW D, NEW H, NEW top, NEW z, InsertState(m, N, D, H, top, z),
         m.parent[z] # nil, Red(m, m.parent[z])
  PROVE  LET p == m.parent[z] pp == m.parent[p] IN
         /\ p \in N /\ pp \in N \cup {nil} /\ p # z /\ pp # p
         /\ ~Red(m, pp)
         /\ pp = nil <=> p = top
<1> DEFINE p == m.parent[z] pp == m.parent[p]
<1>1. Shape(m, N, D, top) /\ z \in N /\ ~Red(m, nil) /\ \A n \in N : RedPair(m, n) => n = z
  BY DEF InsertState, Tree
<1>2. p \in N /\ p # z
  BY <1>1, ParentFacts
<1>3. pp \in N \cup {nil} /\ pp # p /\ (pp = nil <=> p = top)
  <2> HIDE DEF p
  <2> QED BY <1>1, <1>2, ParentFacts
<1>4. ~Red(m, pp)
  BY <1>1, <1>2, <1>3 DEF RedPair
<1> QED BY <1>2, <1>3, <1>4

\* The parent and the uncle go black, the grandparent red: the pair moves up.
LEMMA Recoloured ==
  ASSUME NEW m, NEW N, NEW D, NEW H, NEW top, NEW z, InsertState(m, N, D, H, top, z),
         NEW p \in {m.parent[z]}, p # nil, Red(m, p), NEW g \in {m.parent[p]},
         NEW s \in {SideOf(m, p, g)}, NEW u \in {m[Opposite[s]][g]}, Red(m, u)
  PROVE  \E K : InsertState(Paint(Paint(Paint(m, p, "black"), u, "black"), g, "red"), N, D, K, top, g)
<1> DEFINE m1 == Paint(m, p, "black")
           m2 == Paint(m1, u, "black")
           r == Paint(m2, g, "red")
<1>3. /\ Tree(m, N, N, D, top) /\ Shape(m, N, D, top) /\ N \subseteq Keys /\ nil \notin N
      /\ NoGap(m, N, H) /\ ~Red(m, nil) /\ z \in N
      /\ \A n \in N : RedPair(m, n) => n = z
      /\ m.left[nil] = nil /\ m.right[nil] = nil
  BY KeysAssumption DEF InsertState, Tree, Shape
<1>4. p \in N /\ g \in N \cup {nil} /\ p # z /\ g # p /\ ~Red(m, g)
  <2>1. m.parent[z] # nil /\ Red(m, m.parent[z]) /\ InsertState(m, N, D, H, top, z)
    OBVIOUS
  <2>2. LET pp == m.parent[z] gg == m.parent[pp] IN
        pp \in N /\ gg \in N \cup {nil} /\ pp # z /\ gg # pp /\ ~Red(m, gg)
    BY ONLY <2>1, TwoRedsFacts
  <2> QED BY <2>2
<1>5. s \in Sides /\ Opposite[s] \in Sides
  <2>1. s \in Sides
    BY DEF SideOf, Sides
  <2> QED BY <2>1, OppositeSide
<1>6. g # nil
  <2>1. g = nil => u = nil
    <3>1. m["left"][nil] = nil /\ m["right"][nil] = nil
      BY <1>3
    <3> QED BY <1>5, <3>1 DEF Sides
  <2> QED BY <2>1, <1>3
<1>7. /\ g \in N /\ m[s][g] \in {p} /\ u # p /\ u # g
      /\ \A x \in N : m.parent[x] = g => x = p \/ x = u
      /\ u \in N \cup {nil}
  <2>1. p \in N /\ m.parent[p] # nil /\ Shape(m, N, D, top)
    BY <1>3, <1>4, <1>6
  <2>2. LET gg == m.parent[p]
            t  == SideOf(m, p, gg)
            v  == m[Opposite[t]][gg]
        IN  /\ m[t][gg] = p /\ v # p /\ v # gg /\ v \in N \cup {nil}
            /\ \A x \in N : m.parent[x] = gg => x = p \/ x = v
    BY ONLY <2>1, ParentFacts
  <2> QED BY <2>2, <1>4, <1>6
<1>8. u \in N /\ m.parent[z] \in {p} /\ m.parent[p] \in {g} /\ m[Opposite[s]][g] \in {u}
  BY <1>3, <1>7
<1>9. p \in Cells /\ g \in Cells /\ u \in Cells /\ nil \in Cells /\ \A x \in N : x \in Cells
  BY <1>3, <1>4, <1>7, <1>8 DEF Cells
<1>10. /\ Tree(m1, N, N, D, top) /\ m1.parent = m.parent /\ \A t \in Sides : m1[t] = m[t]
       /\ \A y \in Cells : Red(m1, y) <=> IF y = p THEN FALSE ELSE Red(m, y)
  <2>1. Tree(m, N, N, D, top) /\ p \in Cells
    BY <1>3, <1>9
  <2> QED BY ONLY <2>1, PaintTree
<1> HIDE DEF m1
<1>11. /\ Tree(m2, N, N, D, top) /\ m2.parent = m1.parent /\ \A t \in Sides : m2[t] = m1[t]
       /\ \A y \in Cells : Red(m2, y) <=> IF y = u THEN FALSE ELSE Red(m1, y)
  <2>1. Tree(m1, N, N, D, top) /\ u \in Cells
    BY <1>9, <1>10
  <2> QED BY ONLY <2>1, PaintTree
<1> HIDE DEF m2
<1>12. /\ Tree(r, N, N, D, top) /\ r.parent = m2.parent /\ \A t \in Sides : r[t] = m2[t]
       /\ \A y \in Cells : Red(r, y) <=> IF y = g THEN TRUE ELSE Red(m2, y)
  <2>1. Tree(m2, N, N, D, top) /\ g \in Cells
    BY <1>9, <1>11
  <2> QED BY ONLY <2>1, PaintTree
<1> HIDE DEF r
<1>13. /\ r.parent = m.parent /\ \A t \in Sides : r[t] = m[t]
       /\ \A y \in Cells : Red(r, y) <=> y = g \/ (y # p /\ y # u /\ Red(m, y))
  BY <1>10, <1>11, <1>12
<1> DEFINE K == [H EXCEPT ![p] = H[p] + 1, ![u] = H[u] + 1]
<1>14. /\ H \in [N \cup {nil} -> Nat] /\ H[nil] = 0
       /\ \A x \in N, t \in Sides : H[x] = H[m[t][x]] + Weight(m, x)
  <2>1. Tree(m, N, N, D, top) /\ NoGap(m, N, H)
    BY <1>3
  <2>2. Heights(m, N, H)
    BY ONLY <2>1, NoGapIs
  <2> QED BY <2>2 DEF Heights
<1>15. /\ K \in [N \cup {nil} -> Nat] /\ K[nil] = 0
       /\ \A x \in N \cup {nil} : K[x] = IF x \in {p, u} THEN H[x] + 1 ELSE H[x]
  <2>1. p \in N /\ u \in N /\ p # u /\ p # nil /\ u # nil
    BY <1>3, <1>4, <1>7, <1>8
  <2> QED BY ONLY <2>1, <1>14
<1> HIDE DEF K
<1>16. \A x \in N, t \in Sides : m[t][x] \in N \cup {nil} /\ (m[t][x] # nil => m.parent[m[t][x]] \in {x})
  BY <1>3 DEF Shape
<1>17. \A x \in N, t \in Sides : K[x] = K[r[t][x]] + Weight(r, x)
  <2> TAKE x \in N, t \in Sides
  <2>1. r[t][x] = m[t][x] /\ H[x] = H[m[t][x]] + Weight(m, x) /\ m[t][x] \in N \cup {nil}
    BY <1>13, <1>14, <1>16
  <2>2. H[m[t][x]] \in Nat /\ H[x] \in Nat
    BY <2>1, <1>14
  <2>3. CASE x = g
    <3>1. m[t][x] \in {p, u}
      <4>1. m[s][g] \in {p} /\ m[Opposite[s]][g] \in {u}
        BY <1>7, <1>8
      <4>2. t = s \/ t = Opposite[s]
        BY <1>5, TwoSides
      <4> QED BY <4>1, <4>2, <2>3
    <3>2. Weight(r, x) = 0 /\ Weight(m, x) = 1
      BY <2>3, <1>4, <1>13, <1>9 DEF Weight
    <3>3. K[x] = H[x] /\ K[m[t][x]] = H[m[t][x]] + 1
      BY <2>1, <2>3, <3>1, <1>15, <1>4, <1>7
    <3> QED BY <2>1, <2>2, <3>2, <3>3
  <2>4. CASE x # g
    <3>1. m[t][x] \notin {p, u}
      <4>1. m.parent[p] \in {g} /\ m.parent[u] \in {g}
        <5>1. m[Opposite[s]][g] # nil /\ m[Opposite[s]][g] \in {u}
          BY <1>3, <1>8
        <5>2. m.parent[m[Opposite[s]][g]] \in {g}
          BY <5>1, <1>5, <1>7, <1>16
        <5>3. m.parent[u] \in {g}
          BY ONLY <5>1, <5>2
        <5> QED BY <5>3, <1>8
      <4>2. m[t][x] # nil => m.parent[m[t][x]] \in {x}
        BY <1>16
      <4>3. p # nil /\ u # nil
        BY <1>3, <1>8
      <4> QED BY ONLY <4>1, <4>2, <4>3, <2>4
    <3>2. K[m[t][x]] = H[m[t][x]]
      BY <2>1, <3>1, <1>15
    <3>3. x \in {p, u} => K[x] = H[x] + 1 /\ Weight(r, x) = 1 /\ Weight(m, x) = 0
      BY <2>4, <1>9, <1>13, <1>15 DEF Weight
    <3>4. x \notin {p, u} => K[x] = H[x] /\ Weight(r, x) = Weight(m, x)
      BY <2>4, <1>9, <1>13, <1>15 DEF Weight
    <3> QED BY <2>1, <2>2, <3>2, <3>3, <3>4
  <2> QED BY <2>3, <2>4
<1>18. NoGap(r, N, K)
  <2>1. Tree(r, N, N, D, top)
    BY <1>12
  <2>2. Heights(r, N, K)
    BY <1>15, <1>17 DEF Heights
  <2> QED BY ONLY <2>1, <2>2, NoGapIs
<1>19. ~Red(r, nil) /\ Red(r, g)
  BY <1>9, <1>13, <1>3, <1>6
<1>20. ASSUME NEW n \in N, RedPair(r, n) PROVE n = g
  <2> SUFFICES ASSUME n # g PROVE FALSE
    OBVIOUS
  <2>1. n \notin {p, u} /\ Red(m, n) /\ r.parent[n] = m.parent[n] /\ m.parent[n] # nil /\ Red(r, m.parent[n])
    BY <1>9, <1>13, <1>20 DEF RedPair
  <2>2. m.parent[n] # g
    BY <2>1, <1>7
  <2>3. m.parent[n] \in Cells
    <3>1. m.parent[n] \in N \cup {nil}
      BY <1>3, ParentFacts
    <3> QED BY <3>1, <1>9
  <2>4. m.parent[n] # p /\ Red(m, m.parent[n])
    BY <2>1, <2>2, <2>3, <1>13
  <2>5. n = z
    BY <2>1, <2>4, <1>3 DEF RedPair
  <2> QED BY <2>4, <2>5, <1>8
<1>21. InsertState(r, N, D, K, top, g)
  BY <1>3, <1>12, <1>18, <1>19, <1>20, <1>7 DEF InsertState
<1> QED BY <1>21 DEF r, m1, m2

\* Recolouring moves the pair of reds up.
LEMMA InsertRecolorStep ==
  ASSUME IInv, InsertRecolor PROVE IInv'
<1>1. /\ Inserting /\ TwoReds(cursor) /\ Red(mem, Uncle(cursor)) /\ pc' = "insert"
      /\ UNCHANGED <<alive, node, begin, tail, size, victim>>
  BY DEF IInv, InsertRecolor, treeVars
<1>2. PICK D, H, top : InsertState(mem, alive, D, H, top, cursor)
  BY <1>1 DEF Inserting, InsertState
<1>3. PICK p, g, s, u :
      /\ p \in {mem.parent[cursor]} /\ g \in {mem.parent[p]} /\ s \in {SideOf(mem, p, g)}
      /\ u \in {mem[Opposite[s]][g]} /\ p # nil /\ Red(mem, p) /\ Red(mem, u)
      /\ mem' = Paint(Paint(Paint(mem, p, "black"), u, "black"), g, "red") /\ cursor' = g
  <2> DEFINE p == mem.parent[cursor]
             g == mem.parent[p]
             s == SideOf(mem, p, g)
             u == mem[Opposite[s]][g]
  <2>1. p # nil /\ Red(mem, p) /\ Red(mem, u)
    BY <1>1 DEF TwoReds, Uncle
  <2>2. mem' = Paint(Paint(Paint(mem, p, "black"), u, "black"), g, "red") /\ cursor' = g
    BY Zenon DEF InsertRecolor, Uncle
  <2> HIDE DEF p, g, s, u
  <2>3. p \in {mem.parent[cursor]} /\ g \in {mem.parent[p]} /\ s \in {SideOf(mem, p, g)}
        /\ u \in {mem[Opposite[s]][g]}
    BY DEF p, g, s, u
  <2> QED BY <2>1, <2>2, <2>3
<1>4. PICK K : InsertState(Paint(Paint(Paint(mem, p, "black"), u, "black"), g, "red"), alive, D, K, top, g)
  BY ONLY <1>2, <1>3, Recoloured
<1>5. InsertState(mem', alive, D, K, top, cursor')
  BY <1>3, <1>4
<1> QED BY ONLY <1>1, <1>5, InsertingStep

\* x hangs from p on side s.  The links are written as memberships here and
\* below: by an equation the provers would replace the name on its left in
\* every other fact, which then grows beyond their reach.
Hangs(m, s, p, x) == m[s][p] \in {x} /\ m.parent[x] \in {p}

\* The red cursor z hangs on side t of the red p, which hangs on side s of g;
\* the other side of g is black.
TwoBelow(m, N, H, z, t, p, s, g) ==
  /\ \E E, top : InsertState(m, N, E, H, top, z)
  /\ Hangs(m, t, p, z) /\ Hangs(m, s, g, p)
  /\ p # nil /\ g # nil /\ Red(m, p) /\ ~Red(m, m[Opposite[s]][g])

\* Then p and g are nodes, and g is black.
LEMMA TwoBelowFacts ==
  ASSUME NEW m, NEW N, NEW H, NEW z, NEW t, NEW p, NEW s, NEW g,
         TwoBelow(m, N, H, z, t, p, s, g)
  PROVE  p \in N /\ g \in N /\ p # z /\ g # p /\ ~Red(m, g)
<1>1. PICK E, top : InsertState(m, N, E, H, top, z)
  BY DEF TwoBelow
<1>2. /\ m.parent[z] \in {p} /\ m.parent[p] \in {g} /\ p # nil /\ g # nil /\ Red(m, p)
  BY DEF TwoBelow, Hangs
<1>3. /\ m.parent[z] # nil /\ Red(m, m.parent[z]) /\ InsertState(m, N, E, H, top, z)
  BY <1>1, <1>2
<1>4. LET pp == m.parent[z] gg == m.parent[pp] IN
      pp \in N /\ gg \in N \cup {nil} /\ pp # z /\ gg # pp /\ ~Red(m, gg)
  BY ONLY <1>3, TwoRedsFacts
<1> QED BY <1>2, <1>4

\* An inner grandchild becomes the outer one.
LEMMA BentTurn ==
  ASSUME NEW m, NEW N, NEW H, NEW z, NEW p, NEW s \in Sides, NEW g,
         TwoBelow(m, N, H, z, Opposite[s], p, s, g)
  PROVE  TwoBelow(Rotate(m, p, s), N, H, p, s, z, s, g)
<1> DEFINE o == Opposite[s]
           inner == m[s][z]
           r == Rotate(m, p, s)
<1>0. PICK D, top : InsertState(m, N, D, H, top, z)
  BY DEF TwoBelow
<1>1. /\ Tree(m, N, N, D, top) /\ Shape(m, N, D, top) /\ N \subseteq Keys /\ nil \notin N
      /\ NoGap(m, N, H) /\ ~Red(m, nil) /\ z \in N /\ Red(m, z)
      /\ \A n \in N : RedPair(m, n) => n = z
  BY <1>0, KeysAssumption DEF InsertState, Tree, Shape
<1>2. p \in N /\ g \in N /\ p # z /\ g # p /\ ~Red(m, g)
  BY TwoBelowFacts
<1>3. o \in Sides /\ o # s /\ \A t \in Sides : t = s \/ t = o
  BY OppositeSide, TwoSides
<1>4. /\ m[o][p] \in {z} /\ m[s][g] \in {p} /\ m.parent[z] \in {p} /\ m.parent[p] \in {g}
      /\ Red(m, p) /\ ~Red(m, m[o][g])
  BY DEF TwoBelow, Hangs
<1>5. m[o][p] # nil
  BY <1>1, <1>4
<1>6. /\ Turned(m, N, N, top, p, s, z, inner, r)
      /\ \A x \in Cells : r.parent[x] =
                  IF x = z THEN g ELSE IF x = p THEN z
                  ELSE IF x = inner /\ inner # nil THEN p ELSE m.parent[x]
      /\ \A t \in Sides : \A x \in Cells : r[t][x] =
                  IF x = p THEN IF t = s THEN m[s][p] ELSE inner
                  ELSE IF x = z THEN IF t = s THEN p ELSE m[t][z]
                  ELSE IF x = g /\ m[t][g] = p THEN z ELSE m[t][x]
  <2>1. /\ p \in N /\ s \in Sides /\ z \in {m[Opposite[s]][p]} /\ z # nil
        /\ Tree(m, N, N, D, top) /\ inner \in {m[s][z]}
    BY <1>1, <1>2, <1>4
  <2> HIDE DEF inner
  <2>2. Turned(m, N, N, top, p, s, z, inner, r)
    BY ONLY <2>1, RotateTree
  <2> HIDE DEF r
  <2> QED BY <2>2, <1>4 DEF Turned
<1>6a. /\ \E E : Tree(r, N, N, E, IF p = top THEN z ELSE top)
      /\ inner # p /\ inner # z
      /\ inner \in N \cup {nil} /\ g # p /\ g # z
      /\ \A y : Red(r, y) <=> Red(m, y)
  <2> HIDE DEF r, inner
  <2> QED BY <1>4, <1>6 DEF Turned
<1> HIDE DEF r, inner, o
<1>7. z \in Cells /\ p \in Cells /\ g \in Cells /\ \A x \in N : x \in Cells
  BY <1>1, <1>2 DEF Cells
<1>8. m[o][g] # p
  <2>1. g \in N /\ m[s][g] # nil
    BY <1>1, <1>2, <1>4
  <2>2. m[s][g] # m[Opposite[s]][g]
    BY <2>1, <1>1, ShapeFacts
  <2> QED BY <2>2, <1>4 DEF o
<1>9. /\ r.parent[p] \in {z} /\ r.parent[z] \in {g} /\ r[s][g] \in {z} /\ r[s][z] \in {p}
      /\ r[o][g] = m[o][g]
  BY <1>2, <1>3, <1>4, <1>6, <1>6a, <1>7, <1>8
<1>10. Heights(m, N, H)
  <2>1. Tree(m, N, N, D, top) /\ NoGap(m, N, H)
    BY <1>1
  <2> QED BY ONLY <2>1, NoGapIs
<1>11. Balanced(r, N, H, nil, s)
  <2>1. /\ H \in [N \cup {nil} -> Nat] /\ H[nil] = 0
        /\ \A x \in N, t \in Sides : H[x] = H[m[t][x]] + Weight(m, x)
    BY <1>10 DEF Heights
  <2>2. /\ Weight(m, p) = 0 /\ Weight(m, z) = 0
    BY <1>1, <1>4, WeightIs
  <2>3. \A x \in N, t \in Sides : H[m[t][x]] \in Nat
    BY <1>1, <2>1 DEF Tree, Inward
  <2>4. H[p] = H[m[s][p]] /\ H[p] = H[z] /\ H[z] = H[m[s][z]] /\ H[z] = H[m[o][z]]
    <3>1. H[p] = H[m[s][p]] + 0 /\ H[p] = H[m[o][p]] + 0 /\ H[z] = H[m[s][z]] + 0 /\ H[z] = H[m[o][z]] + 0
      BY <2>1, <2>2, <1>1, <1>2, <1>3
    <3>2. H[m[s][p]] \in Nat /\ H[m[o][p]] \in Nat /\ H[m[s][z]] \in Nat /\ H[m[o][z]] \in Nat
      BY <2>3, <1>1, <1>2, <1>3
    <3> QED BY <3>1, <3>2, <1>4
  <2>5. Balanced(m, N, H, nil, s)
    BY <1>1, NoGapSide
  <2>6. \A x \in N, t \in Sides : Even(m, H, nil, s, x, t)
    BY <2>5, BalancedIsEven
  <2>7. Gap(nil, s, p, s) = 0
    BY <1>1, <1>2 DEF Gap
  <2>8. H[p] \in Nat /\ H[z] \in Nat
    BY <2>1, <1>1, <1>2
  <2>9. TurnHeights(m, N, p, s, z, H, H, nil, s)
    <3>2. H[m[s][p]] \in Nat
      BY <2>4, <2>8
    <3>3. H[p] = H[m[s][p]] + 0 + 0 /\ H[p] = H[m[s][z]] + 0 /\ H[p] = H[p] + 0 /\ H[p] = H[m[o][z]] + 0
      BY <2>4, <2>8
    <3> QED BY <3>3, <2>1, <2>2, <2>4, <2>6, <2>7, <1>1, <1>2 DEF o, TurnHeights
  <2>11. /\ Shape(m, N, D, top) /\ p \in N /\ s \in Sides /\ z \in {m[Opposite[s]][p]} /\ z # nil
    BY <1>1, <1>2, <1>4 DEF o
  <2>10. Balanced(Rotate(m, p, s), N, H, nil, s)
    BY ONLY <2>9, <2>11, RotateBalanced
  <2> QED BY <2>10 DEF r
<1>12. NoGap(r, N, H)
  BY <1>1, <1>11, NoGapSide
<1>13. ASSUME NEW n \in N, RedPair(r, n) PROVE n = p
  <2> SUFFICES ASSUME n # p PROVE FALSE
    OBVIOUS
  <2>1. Red(m, n) /\ r.parent[n] # nil /\ Red(m, r.parent[n]) /\ n # nil
    BY <1>1, <1>6a, <1>13 DEF RedPair
  <2>2. n # z
    BY <2>1, <1>2, <1>9
  <2>3. CASE n = inner
    <3>1. m.parent[inner] \in {z}
      BY <2>1, <2>3, <1>1 DEF Shape, inner
    <3> QED BY <2>1, <2>2, <2>3, <3>1, <1>1 DEF RedPair
  <2>4. CASE n # inner
    <3>1. r.parent[n] = m.parent[n]
      BY <2>2, <2>4, <1>6, <1>7
    <3> QED BY <2>1, <2>2, <3>1, <1>1 DEF RedPair
  <2> QED BY <2>3, <2>4
<1>14. PICK E, t : Tree(r, N, N, E, t)
  BY <1>6a
<1>15. InsertState(r, N, E, H, t, p)
  BY <1>14, <1>12, <1>13, <1>1, <1>2, <1>4, <1>6a DEF InsertState
<1>16. Red(r, z) /\ ~Red(r, r[o][g])
  BY <1>1, <1>2, <1>4, <1>6a, <1>9
<1> QED BY <1>1, <1>2, <1>9, <1>15, <1>16 DEF r, o, TwoBelow, Hangs

\* The parent takes the place and the colour of the grandparent.
LEMMA StraightTurn ==
  ASSUME NEW m, NEW N, NEW H, NEW z, NEW p, NEW s \in Sides, NEW g,
         TwoBelow(m, N, H, z, s, p, s, g)
  PROVE  \E E, K, t :
           InsertState(Rotate(Paint(Paint(m, p, "black"), g, "red"), g, Opposite[s]), N, E, K, t, z)
<1> DEFINE o == Opposite[s]
           m1 == Paint(m, p, "black")
           m2 == Paint(m1, g, "red")
           u == m[o][g]
           inner == m[o][p]
           r == Rotate(m2, g, o)
<1>0. PICK D, top : InsertState(m, N, D, H, top, z)
  BY DEF TwoBelow
<1>1. /\ Tree(m, N, N, D, top) /\ Shape(m, N, D, top) /\ N \subseteq Keys /\ nil \notin N
      /\ NoGap(m, N, H) /\ ~Red(m, nil) /\ z \in N /\ Red(m, z)
      /\ \A n \in N : RedPair(m, n) => n = z
  BY <1>0, KeysAssumption DEF InsertState, Tree, Shape
<1>2. p \in N /\ g \in N /\ p # z /\ g # p /\ ~Red(m, g)
  BY TwoBelowFacts
<1>3. o \in Sides /\ o # s /\ Opposite[o] = s /\ \A t \in Sides : t = s \/ t = o
  BY OppositeSide, TwoSides
<1>4. /\ m[s][g] \in {p} /\ m[s][p] \in {z} /\ m.parent[z] \in {p} /\ m.parent[p] \in {g}
      /\ Red(m, p) /\ ~Red(m, u)
  BY DEF TwoBelow, Hangs
<1>5. /\ u \in N \cup {nil} /\ inner \in N \cup {nil} /\ inner # z /\ u # p /\ u # g /\ inner # p
      /\ z # g
      /\ \A x \in N, t \in Sides : m[t][x] \in N \cup {nil} /\ (m[t][x] # nil => m.parent[m[t][x]] \in {x})
  <2>1. \A x \in N, t \in Sides : m[t][x] \in N \cup {nil} /\ (m[t][x] # nil => m.parent[m[t][x]] \in {x})
    BY <1>1 DEF Shape
  <2>2. g \in N /\ p \in N /\ m[s][g] # nil /\ m[s][p] # nil /\ o \in Sides
    BY <1>1, <1>2, <1>3, <1>4
  <2>3. m[s][p] # m[Opposite[s]][p] /\ m[s][g] # m[Opposite[s]][g]
    BY <2>2, <1>1, ShapeFacts
  <2>4. m[o][g] # g /\ m[o][p] # p
    BY <2>2, <1>1, ShapeFacts
  <2>5. u \in N \cup {nil} /\ inner \in N \cup {nil}
    BY <2>1, <2>2
  <2>6. inner # z /\ u # p /\ u # g /\ inner # p
    BY <2>3, <2>4, <1>4
  <2>7. z # g
    BY <1>1, <1>2
  <2> QED BY <2>1, <2>5, <2>6, <2>7
<1>6. z \in Cells /\ p \in Cells /\ g \in Cells /\ nil \in Cells /\ \A x \in N : x \in Cells
  BY <1>1, <1>2 DEF Cells
<1> HIDE DEF o, u, inner
<1>7. /\ Tree(m1, N, N, D, top) /\ m1.parent = m.parent /\ \A t \in Sides : m1[t] = m[t]
      /\ \A y \in Cells : Red(m1, y) <=> IF y = p THEN FALSE ELSE Red(m, y)
  <2>1. Tree(m, N, N, D, top) /\ p \in Cells
    BY <1>1, <1>6
  <2> QED BY ONLY <2>1, PaintTree
<1> HIDE DEF m1
<1>8. /\ Tree(m2, N, N, D, top) /\ m2.parent = m1.parent /\ \A t \in Sides : m2[t] = m1[t]
      /\ \A y \in Cells : Red(m2, y) <=> IF y = g THEN TRUE ELSE Red(m1, y)
  <2>1. Tree(m1, N, N, D, top) /\ g \in Cells
    BY <1>7, <1>6
  <2> QED BY ONLY <2>1, PaintTree
<1> HIDE DEF m2
<1>9. /\ m2.parent = m.parent /\ \A t \in Sides : m2[t] = m[t]
      /\ \A y \in Cells : Red(m2, y) <=> y = g \/ (y # p /\ Red(m, y))
  BY <1>7, <1>8
<1>10. m2[Opposite[o]][g] \in {p} /\ m2[o][p] \in {inner} /\ m2[s][p] \in {z}
  BY <1>3, <1>4, <1>9 DEF inner
<1>11. /\ \E E, t : Tree(r, N, N, E, t)
       /\ \A y : Red(r, y) <=> Red(m2, y)
       /\ \A x \in Cells : r.parent[x] =
            IF x = p THEN m.parent[g] ELSE IF x = g THEN p
            ELSE IF x = inner /\ inner # nil THEN g ELSE m.parent[x]
  <2>1. /\ g \in N /\ o \in Sides /\ p \in {m2[Opposite[o]][g]} /\ p # nil
        /\ Tree(m2, N, N, D, top) /\ inner \in {m2[o][p]}
    BY <1>1, <1>2, <1>3, <1>8, <1>10
  <2>2. Turned(m2, N, N, top, g, o, p, inner, r)
    BY ONLY <2>1, RotateTree
  <2> HIDE DEF r
  <2> QED BY <2>2, <1>9 DEF Turned
<1>12. Heights(m, N, H)
  BY ONLY <1>1, NoGapIs
<1>13. /\ H \in [N \cup {nil} -> Nat] /\ H[nil] = 0
       /\ \A x \in N, t \in Sides : H[x] = H[m[t][x]] + Weight(m, x)
       /\ \A x \in N, t \in Sides : H[m[t][x]] \in Nat
  BY <1>5, <1>12 DEF Heights
<1>14. /\ Weight(m, p) = 0 /\ Weight(m, g) = 1 /\ Weight(m2, p) = 1 /\ Weight(m2, g) = 0
       /\ \A x \in N : x \notin {p, g} => Weight(m2, x) = Weight(m, x)
  BY <1>2, <1>4, <1>6, <1>9 DEF Weight
<1>15. /\ H[g] = H[p] + 1 /\ H[g] = H[u] + 1 /\ H[p] = H[inner] /\ H[p] = H[z]
       /\ H[g] \in Nat /\ H[p] \in Nat /\ H[u] = H[p]
  <2>1. H[g] = H[p] + 1 /\ H[g] = H[u] + 1 /\ H[p] = H[inner] + 0 /\ H[p] = H[z] + 0
    BY <1>2, <1>3, <1>4, <1>13, <1>14 DEF u, inner
  <2>2. H[u] \in Nat /\ H[inner] \in Nat /\ H[z] \in Nat /\ H[p] \in Nat /\ H[g] \in Nat
    BY <1>1, <1>2, <1>5, <1>13
  <2> QED BY <2>1, <2>2
<1> DEFINE K == [H EXCEPT ![p] = H[g], ![g] = H[p]]
<1>16. /\ K \in [N \cup {nil} -> Nat] /\ K[nil] = 0 /\ K[p] = H[g] /\ K[g] = H[p]
       /\ \A x \in N \cup {nil} : x \notin {p, g} => K[x] = H[x]
  BY <1>1, <1>2, <1>13, <1>15
<1> HIDE DEF K
<1>17. NoGap(r, N, K)
  <2>1. \A x \in N, t \in Sides : x \notin {g, p} => Even(m2, H, nil, o, x, t)
    <3> SUFFICES ASSUME NEW x \in N, NEW t \in Sides, x \notin {g, p}
                 PROVE  Even(m2, H, nil, o, x, t)
      OBVIOUS
    <3>1. H[x] = H[m[t][x]] + Weight(m, x) /\ H[m[t][x]] \in Nat /\ Weight(m2, x) = Weight(m, x) /\ m2[t][x] = m[t][x]
      BY <1>9, <1>13, <1>14
    <3>2. Weight(m, x) \in {0, 1} /\ Gap(nil, o, x, t) = 0
      BY <1>1, WeightIs DEF Gap
    <3> QED BY <3>1, <3>2 DEF Even
  <2>2. Gap(nil, o, g, o) = 0
    BY <1>1, <1>2 DEF Gap
  <2>3. m2[o][g] \in {u} /\ Shape(m2, N, D, top)
    BY <1>3, <1>8, <1>9 DEF u, Tree
  <2>4. TurnHeights(m2, N, g, o, p, H, K, nil, o)
    <3>1. m2[Opposite[o]][p] \in {z} /\ p # nil /\ g # nil
      BY <1>1, <1>2, <1>3, <1>10
    <3>2. /\ H[p] = H[m2[o][g]] + 0 + 0 /\ H[p] = H[m2[o][p]] + 0
          /\ H[g] = H[p] + 1 /\ H[g] = H[m2[Opposite[o]][p]] + 1
      <4>1. H[u] = H[p] /\ H[inner] = H[p] /\ H[z] = H[p] /\ H[p] \in Nat /\ H[g] = H[p] + 1
        BY <1>15
      <4>2. H[m2[o][g]] = H[p] /\ H[m2[o][p]] = H[p] /\ H[m2[Opposite[o]][p]] = H[p]
        BY ONLY <4>1, <2>3, <3>1, <1>10
      <4> QED BY ONLY <4>1, <4>2
    <3>3. /\ K[g] = H[m2[o][g]] + Gap(nil, o, g, o) + Weight(m2, g)
          /\ K[g] = H[m2[o][p]] + Weight(m2, g)
          /\ H[g] = K[g] + Weight(m2, p)
          /\ H[g] = H[m2[Opposite[o]][p]] + Weight(m2, p)
      BY ONLY <3>2, <2>2, <1>14, <1>15, <1>16
    <3>4. \A x \in N \cup {nil} : x \notin {g, p} => K[x] = H[x]
      BY <1>16
    <3> QED BY ONLY <2>1, <3>1, <3>3, <3>4, <1>13, <1>16 DEF TurnHeights
  <2>5. Shape(m2, N, D, top) /\ g \in N /\ o \in Sides /\ p \in {m2[Opposite[o]][g]} /\ p # nil
    BY <1>1, <1>2, <1>3, <1>10, <2>3
  <2>6. Balanced(Rotate(m2, g, o), N, K, nil, o)
    BY ONLY <2>4, <2>5, RotateBalanced
  <2> QED BY <2>6, <1>1, NoGapSide DEF r
<1> HIDE DEF r
<1>18. ASSUME NEW n \in N PROVE ~RedPair(r, n)
  <2> SUFFICES ASSUME RedPair(r, n) PROVE FALSE
    OBVIOUS
  <2>1. /\ n # p /\ n # nil /\ r.parent[n] # nil /\ r.parent[n] # p /\ (n = g \/ Red(m, n))
        /\ (r.parent[n] = g \/ Red(m, r.parent[n]))
    <3>1. Red(m2, n) /\ r.parent[n] # nil /\ Red(m2, r.parent[n])
      BY <1>11 DEF RedPair
    <3>2. r.parent[n] \in Cells
      <4>1. IsMemory(r)
        BY <1>11 DEF Tree, Shape
      <4> QED BY <4>1, <1>6 DEF IsMemory
    <3> QED BY <3>1, <3>2, <1>1, <1>2, <1>6, <1>9
  <2>2. n # g
    BY <2>1, <1>2, <1>6, <1>11
  <2>3. n # inner
    <3>1. n = inner => m.parent[n] \in {p}
      BY <2>1, <1>2, <1>3, <1>5 DEF inner
    <3>2. m.parent[n] \in {p} => RedPair(m, n)
      BY <2>1, <2>2, <1>1, <1>2, <1>4 DEF RedPair
    <3>3. RedPair(m, n) => n = z
      BY <1>1
    <3> QED BY <3>1, <3>2, <3>3, <1>5
  <2>4. r.parent[n] = m.parent[n]
    BY <2>1, <2>2, <2>3, <1>6, <1>11
  <2>5. m.parent[n] # g
    <3>1. p \in N /\ m.parent[p] # nil /\ Shape(m, N, D, top)
      BY <1>1, <1>2, <1>4
    <3>2. /\ \A t \in Sides : m[t][m.parent[p]] = p => t = SideOf(m, p, m.parent[p])
          /\ \A x \in N : m.parent[x] = m.parent[p] => 
               x = p \/ x = m[Opposite[SideOf(m, p, m.parent[p])]][m.parent[p]]
      BY ONLY <3>1, ParentFacts
    <3>3. m.parent[n] = g => n = p \/ n = m[Opposite[s]][g]
      BY <3>2, <1>4
    <3>4. n # u
      BY <2>1, <2>2, <1>4
    <3> QED BY <3>3, <3>4, <2>1 DEF u, o
  <2>6. n = z
    BY <2>1, <2>2, <2>4, <2>5, <1>1 DEF RedPair
  <2> QED BY <2>1, <2>4, <2>6, <1>4
<1>19. Red(r, z) /\ ~Red(r, nil)
  BY <1>1, <1>2, <1>5, <1>6, <1>9, <1>11
<1>20. PICK E, t : Tree(r, N, N, E, t)
  BY <1>11
<1>21. InsertState(r, N, E, K, t, z)
  BY <1>20, <1>17, <1>18, <1>19, <1>1 DEF InsertState
<1> QED BY <1>21 DEF r, m2, m1, o

\* A red root above the cursor is painted black.
LEMMA RootBlackened ==
  ASSUME NEW m, NEW N, NEW D, NEW H, NEW top, NEW z, InsertState(m, N, D, H, top, z),
         NEW p \in {m.parent[z]}, p # nil, Red(m, p), m.parent[p] \in {nil}
  PROVE  \E K : InsertState(Paint(m, p, "black"), N, D, K, top, z)
<1> DEFINE b == Paint(m, p, "black")
           K == [H EXCEPT ![p] = H[p] + 1]
<1>1. /\ Tree(m, N, N, D, top) /\ Shape(m, N, D, top) /\ N \subseteq Keys /\ nil \notin N
      /\ NoGap(m, N, H) /\ ~Red(m, nil) /\ z \in N /\ Red(m, z)
      /\ \A n \in N : RedPair(m, n) => n = z
  BY KeysAssumption DEF InsertState, Tree, Shape
<1>2. p \in N /\ p # z
  <2>1. m.parent[z] # nil /\ Red(m, m.parent[z]) /\ InsertState(m, N, D, H, top, z)
    OBVIOUS
  <2>2. m.parent[z] \in N /\ m.parent[z] # z
    BY ONLY <2>1, TwoRedsFacts
  <2> QED BY <2>2
<1>3. p \in Cells /\ z \in Cells /\ nil \in Cells /\ \A x \in N : x \in Cells
  BY <1>1, <1>2 DEF Cells
<1>4. /\ Tree(b, N, N, D, top) /\ b.parent = m.parent /\ \A t \in Sides : b[t] = m[t]
      /\ \A y \in Cells : Red(b, y) <=> IF y = p THEN FALSE ELSE Red(m, y)
  <2>1. Tree(m, N, N, D, top) /\ p \in Cells
    BY <1>1, <1>3
  <2> QED BY ONLY <2>1, PaintTree
<1> HIDE DEF b
<1>5. /\ H \in [N \cup {nil} -> Nat] /\ H[nil] = 0
      /\ \A x \in N, t \in Sides : H[x] = H[m[t][x]] + Weight(m, x)
  <2>1. Heights(m, N, H)
    BY ONLY <1>1, NoGapIs
  <2> QED BY <2>1 DEF Heights
<1>6. /\ K \in [N \cup {nil} -> Nat] /\ K[nil] = 0
      /\ \A x \in N \cup {nil} : K[x] = IF x = p THEN H[x] + 1 ELSE H[x]
  BY <1>1, <1>2, <1>5
<1> HIDE DEF K
<1>7. \A x \in N, t \in Sides : K[x] = K[b[t][x]] + Weight(b, x)
  <2> TAKE x \in N, t \in Sides
  <2>1. b[t][x] = m[t][x] /\ H[x] = H[m[t][x]] + Weight(m, x)
    BY <1>4, <1>5
  <2>2. m[t][x] \in N \cup {nil} /\ (m[t][x] # nil => m.parent[m[t][x]] \in {x}) /\ x # nil
    BY <1>1 DEF Shape
  <2>3. m[t][x] # p
    BY <2>2
  <2>4. K[m[t][x]] = H[m[t][x]] /\ H[m[t][x]] \in Nat
    BY <2>2, <2>3, <1>5, <1>6
  <2>5. x = p => K[x] = H[x] + 1 /\ Weight(b, x) = 1 /\ Weight(m, x) = 0
    BY <1>3, <1>4, <1>6 DEF Weight
  <2>6. x # p => K[x] = H[x] /\ Weight(b, x) = Weight(m, x)
    BY <1>3, <1>4, <1>6 DEF Weight
  <2> QED BY <2>1, <2>4, <2>5, <2>6
<1>8. NoGap(b, N, K)
  <2>1. Heights(b, N, K)
    BY <1>6, <1>7 DEF Heights
  <2> QED BY ONLY <2>1, <1>4, NoGapIs
<1>9. ~Red(b, nil) /\ Red(b, z)
  BY <1>1, <1>2, <1>3, <1>4
<1>10. ASSUME NEW n \in N, RedPair(b, n) PROVE n = z
  <2>1. m.parent[n] \in Cells
    BY <1>1, <1>3 DEF IsMemory, Shape
  <2>2. RedPair(m, n)
    BY <1>3, <1>4, <1>10, <2>1 DEF RedPair
  <2> QED BY <2>2, <1>1
<1>11. InsertState(b, N, D, K, top, z)
  BY <1>1, <1>4, <1>8, <1>9, <1>10 DEF InsertState
<1> QED BY <1>11 DEF b

\* Two reds below a black uncle hang in line, once a bent pair is turned.
LEMMA LinedUp ==
  ASSUME NEW m, NEW N, NEW D, NEW H, NEW top, NEW c, InsertState(m, N, D, H, top, c),
         NEW p \in {m.parent[c]}, p # nil, Red(m, p), NEW g \in {m.parent[p]}, g # nil,
         NEW s \in {SideOf(m, p, g)}, ~Red(m, m[Opposite[s]][g])
  PROVE  /\ s \in Sides
         /\ IF m[s][g] = p /\ m[Opposite[s]][p] = c
            THEN TwoBelow(Rotate(m, p, s), N, H, p, s, c, s, g)
            ELSE TwoBelow(m, N, H, c, s, p, s, g)
<1>1. Shape(m, N, D, top) /\ c \in N
  BY DEF InsertState, Tree
<1>2. p \in N
  <2>1. m.parent[c] # nil /\ Red(m, m.parent[c]) /\ InsertState(m, N, D, H, top, c)
    OBVIOUS
  <2>2. m.parent[c] \in N
    BY ONLY <2>1, TwoRedsFacts
  <2> QED BY <2>2
<1>3. s \in Sides
  BY DEF SideOf, Sides
<1>4. m[s][g] \in {p} /\ m.parent[p] \in {g} /\ m.parent[c] \in {p}
  <2>1. p \in N /\ m.parent[p] # nil /\ Shape(m, N, D, top)
    BY <1>1, <1>2
  <2>2. m[SideOf(m, p, m.parent[p])][m.parent[p]] = p
    BY ONLY <2>1, ParentFacts
  <2> QED BY <2>2
<1>5. CASE m[Opposite[s]][p] = c
  <2>1. TwoBelow(m, N, H, c, Opposite[s], p, s, g)
    <3>1. Hangs(m, Opposite[s], p, c) /\ Hangs(m, s, g, p)
      BY <1>4, <1>5 DEF Hangs
    <3> QED BY <3>1 DEF TwoBelow
  <2>2. TwoBelow(Rotate(m, p, s), N, H, p, s, c, s, g)
    BY ONLY <2>1, <1>3, BentTurn
  <2> QED BY <1>3, <1>4, <1>5, <2>2
<1>6. CASE m[Opposite[s]][p] # c
  <2>1. m[s][p] \in {c}
    <3>1. c \in N /\ m.parent[c] # nil /\ Shape(m, N, D, top)
      BY <1>1
    <3>2. /\ SideOf(m, c, m.parent[c]) \in Sides
          /\ m[SideOf(m, c, m.parent[c])][m.parent[c]] = c
      BY ONLY <3>1, ParentFacts
    <3>3. PICK t \in Sides : m[t][p] = c
      BY <3>2
    <3> QED BY <3>3, <1>3, <1>6, OppositeSide, TwoSides
  <2>2. TwoBelow(m, N, H, c, s, p, s, g)
    <3>1. Hangs(m, s, p, c) /\ Hangs(m, s, g, p)
      BY <1>4, <2>1 DEF Hangs
    <3> QED BY <3>1 DEF TwoBelow
  <2> QED BY <1>3, <1>6, <2>2
<1> QED BY <1>5, <1>6

\* Painting moves no node to another side.
LEMMA SideKept ==
  ASSUME NEW m, NEW N, NEW H, NEW z, NEW q, NEW s \in Sides, NEW h,
         TwoBelow(m, N, H, z, s, q, s, h)
  PROVE  SideOf(Paint(m, q, "black"), q, h) = s
<1>1. PICK E, t : InsertState(m, N, E, H, t, z)
  BY DEF TwoBelow
<1>2. IsMemory(m) /\ Shape(m, N, E, t)
  BY <1>1 DEF InsertState, Tree, Shape
<1>3. Paint(m, q, "black").left = m.left
  BY <1>2 DEF Paint, IsMemory
<1>4. m[s][h] \in {q} /\ m.parent[q] \in {h} /\ h # nil
  BY DEF TwoBelow, Hangs
<1>5. q \in N /\ m.parent[q] # nil
  BY <1>4, TwoBelowFacts
<1>6. \A d \in Sides : m[d][m.parent[q]] = q => d = SideOf(m, q, m.parent[q])
  BY ONLY <1>2, <1>5, ParentFacts
<1>7. s = SideOf(m, q, h)
  BY <1>4, <1>6
<1> QED BY <1>3, <1>7 DEF SideOf

\* Painting the root, or turning it and lining up before.
LEMMA InsertRotateStep ==
  ASSUME IInv, InsertRotate PROVE IInv'
<1>1. /\ Inserting /\ pc' = "insert" /\ TwoReds(cursor) /\ ~Red(mem, Uncle(cursor))
      /\ UNCHANGED <<alive, node, begin, tail, size, victim>>
  BY DEF IInv, InsertRotate, treeVars
<1>2. PICK D, H, top : InsertState(mem, alive, D, H, top, cursor)
  BY <1>1 DEF Inserting, InsertState
<1>3. PICK p, g, s :
      /\ p \in {mem.parent[cursor]} /\ g \in {mem.parent[p]} /\ s \in {SideOf(mem, p, g)}
      /\ p # nil /\ Red(mem, p) /\ ~Red(mem, mem[Opposite[s]][g])
  <2> DEFINE p == mem.parent[cursor]
             g == mem.parent[p]
             s == SideOf(mem, p, g)
  <2>1. p # nil /\ Red(mem, p) /\ ~Red(mem, mem[Opposite[s]][g])
    BY <1>1 DEF TwoReds, Uncle
  <2> HIDE DEF p, g, s
  <2>2. p \in {mem.parent[cursor]} /\ g \in {mem.parent[p]} /\ s \in {SideOf(mem, p, g)}
    BY DEF p, g, s
  <2> QED BY <2>1, <2>2
<1>4. PICK m1, z :
      /\ IF mem[s][g] = p /\ mem[Opposite[s]][p] = cursor
         THEN m1 = Rotate(mem, p, s) /\ z = p
         ELSE m1 = mem /\ z = cursor
      /\ cursor' = z
      /\ mem' = LET q  == m1.parent[z]
                    h  == m1.parent[q]
                    m2 == Paint(m1, q, "black")
                IN IF h = nil THEN m2
                   ELSE Rotate(Paint(m2, h, "red"), h, Opposite[SideOf(m2, q, h)])
  <2> DEFINE bent == mem[s][g] = p /\ mem[Opposite[s]][p] = cursor
             m1 == IF bent THEN Rotate(mem, p, s) ELSE mem
             z == IF bent THEN p ELSE cursor
  <2>1. /\ cursor' = z
        /\ mem' = LET q  == m1.parent[z]
                      h  == m1.parent[q]
                      m2 == Paint(m1, q, "black")
                  IN IF h = nil THEN m2
                     ELSE Rotate(Paint(m2, h, "red"), h, Opposite[SideOf(m2, q, h)])
    <3>1. p = mem.parent[cursor] /\ g = mem.parent[p] /\ s = SideOf(mem, p, g)
      BY <1>3
    <3> QED BY Zenon, <3>1 DEF InsertRotate
  <2>2. IF bent THEN m1 = Rotate(mem, p, s) /\ z = p ELSE m1 = mem /\ z = cursor
    OBVIOUS
  <2> HIDE DEF m1, z
  <2> QED BY <2>1, <2>2
<1>5. CASE g = nil
  <2>1. mem[Opposite[s]][p] # cursor \/ mem[s][g] # p
    <3>1. mem["left"][nil] = nil /\ mem["right"][nil] = nil
      BY <1>2 DEF InsertState, Tree, Shape
    <3>2. s \in Sides
      BY <1>3 DEF SideOf, Sides
    <3> QED BY <3>1, <3>2, <1>3, <1>5 DEF Sides
  <2>2. m1 = mem /\ z = cursor
    BY <1>4, <2>1
  <2>3. mem.parent[cursor] = p /\ mem.parent[p] = nil
    BY <1>3, <1>5
  <2>4. mem' = Paint(mem, p, "black") /\ cursor' = cursor
    BY <1>4, <2>2, <2>3
  <2>5. PICK K : InsertState(Paint(mem, p, "black"), alive, D, K, top, cursor)
    <3>1. mem.parent[p] \in {nil}
      BY <2>3
    <3> QED BY ONLY <1>2, <1>3, <3>1, RootBlackened
  <2>6. InsertState(mem', alive, D, K, top, cursor')
    BY <2>4, <2>5
  <2> QED BY ONLY <2>6, <1>1, InsertingStep
<1>6. CASE g # nil
  <2>1. /\ s \in Sides
        /\ IF mem[s][g] = p /\ mem[Opposite[s]][p] = cursor
           THEN TwoBelow(Rotate(mem, p, s), alive, H, p, s, cursor, s, g)
           ELSE TwoBelow(mem, alive, H, cursor, s, p, s, g)
    BY ONLY <1>2, <1>3, <1>6, LinedUp
  <2>2. PICK q : TwoBelow(m1, alive, H, z, s, q, s, g)
    BY <1>4, <2>1
  <2>3. m1.parent[z] = q /\ m1.parent[q] = g
    BY <2>2 DEF TwoBelow, Hangs
  <2>4. SideOf(Paint(m1, q, "black"), q, g) = s
    BY ONLY <2>1, <2>2, SideKept
  <2>5. mem' = Rotate(Paint(Paint(m1, q, "black"), g, "red"), g, Opposite[s])
    BY <1>4, <1>6, <2>3, <2>4
  <2>6. PICK E, K, t :
          InsertState(Rotate(Paint(Paint(m1, q, "black"), g, "red"), g, Opposite[s]), alive, E, K, t, z)
    BY ONLY <2>1, <2>2, StraightTurn
  <2>7. InsertState(mem', alive, E, K, t, cursor')
    BY <1>4, <2>5, <2>6
  <2> QED BY ONLY <2>7, <1>1, InsertingStep
<1> QED BY <1>5, <1>6

\* The end of an insertion leaves a settled tree.
LEMMA InsertDoneStep ==
  ASSUME IInv, InsertDone PROVE IInv'
<1>1. /\ Inserting /\ ~TwoReds(cursor) /\ node' = Root(mem, cursor) /\ pc' = "idle"
      /\ UNCHANGED <<mem, alive, begin, tail, size, victim>>
  BY DEF IInv, InsertDone
<1>2. PICK D, H, top :
    /\ Tree(mem, alive, alive, D, top)
    /\ NoGap(mem, alive, H) /\ ~Red(mem, nil)
    /\ cursor \in alive /\ Red(mem, cursor)
    /\ \A n \in alive : RedPair(mem, n) => n = cursor
    /\ node \in alive /\ victim = nil
    /\ Counters(alive, size, begin, tail)
  BY <1>1 DEF Inserting
<1>3. \A n \in alive : ~RedPair(mem, n)
  BY <1>1, <1>2 DEF RedPair, TwoReds
<1>4. node' = top
  <2>1. Shape(mem, alive, D, top)
    BY <1>2 DEF Tree
  <2> QED BY <2>1, <1>1, <1>2, RootIsTop
<1>5. /\ Tree(mem', alive', alive', D, node') /\ Settled(mem', alive', H)
      /\ Counters(alive', size', begin', tail') /\ victim' = nil
  BY <1>1, <1>2, <1>3, <1>4 DEF Settled
<1>6. Idle'
  BY <1>5 DEF Idle
<1> QED BY <1>1, <1>6 DEF IInv

\* A step that changes nothing keeps the invariant.
LEMMA StutterStep ==
  ASSUME IInv, UNCHANGED vars PROVE IInv'
<1>1. UNCHANGED <<mem, alive, node, begin, tail, size, pc, cursor, victim, by_key>>
  BY DEF vars, treeVars, callVars
<1>2. Idle => Idle'
  BY <1>1 DEF Idle, Red
<1>3. Inserting => Inserting'
  BY <1>1 DEF Inserting
<1>4. Removing => Removing'
  BY <1>1 DEF Removing
<1>5. NoTree => NoTree'
  BY <1>1 DEF NoTree
<1> QED BY <1>1, <1>2, <1>3, <1>4, <1>5 DEF IInv

-----------------------------------------------------------------------------
(* Removal: unlinking a node.                                              *)

\* r is m after Transplant(m, u, v), for a node u of the tree.
Replaced(m, N, u, v, r) ==
  /\ IsMemory(r) /\ r.color = m.color
  /\ r.left[nil] = nil /\ r.right[nil] = nil
  /\ r.parent = [m.parent EXCEPT ![v] = m.parent[u]]
  /\ \A t \in Sides, w \in N : r[t][w] = IF m[t][w] = u THEN v ELSE m[t][w]
  /\ \A t \in Sides, w \in Cells \ N : r[t][w] = m[t][w]

\* The fields of r, which is m with v hung from up on side s.
Rehung(m, s, up, v, r) ==
  /\ IsMemory(r) /\ r.color = m.color
  /\ r.parent = [m.parent EXCEPT ![v] = up]
  /\ \A t \in Sides : \A w \in Cells :
       r[t][w] = IF up # nil /\ t = s /\ w = up THEN v ELSE m[t][w]

\* What Transplant writes, field by field.
LEMMA TransplantFields ==
  ASSUME NEW m, IsMemory(m), NEW u \in Cells, NEW v \in Cells
  PROVE  Rehung(m, SideOf(m, u, m.parent[u]), m.parent[u], v, Transplant(m, u, v))
<1> DEFINE up == m.parent[u]
           s == SideOf(m, u, up)
           linked == IF up = nil THEN m ELSE SetChild(m, s, up, v)
           r == SetParent(linked, v, up)
<1>1. r = Transplant(m, u, v)
  BY DEF Transplant, SetChild, SetParent
<1>2. up \in Cells
  BY DEF IsMemory
<1>3. s \in Sides
  BY DEF SideOf, Sides
<1> HIDE DEF up, s
<1>6. /\ IsMemory(linked) /\ linked.color = m.color /\ linked.parent = m.parent
      /\ \A t \in Sides : \A w \in Cells : linked[t][w] = IF up # nil /\ t = s /\ w = up THEN v ELSE m[t][w]
  <2>1. CASE up = nil
    BY <2>1
  <2>2. CASE up # nil
    <3>1. linked = SetChild(m, s, up, v)
      BY <2>2
    <3>2. IsMemory(m) /\ s \in Sides /\ up \in Cells /\ v \in Cells
      BY <1>2, <1>3
    <3> DEFINE q == SetChild(m, s, up, v)
    <3>3. /\ IsMemory(q) /\ q.parent = m.parent /\ q.color = m.color
          /\ \A t \in Sides : \A x \in Cells : 
               q[t][x] = IF t = s /\ x = up THEN v ELSE m[t][x]
      BY ONLY <3>2, SetChildFields
    <3> HIDE DEF linked, q
    <3>4. \A t \in Sides : \A w \in Cells : q[t][w] = IF up # nil /\ t = s /\ w = up THEN v ELSE m[t][w]
      BY <3>3, <2>2
    <3>5. linked = q
      BY <3>1 DEF q
    <3> QED BY <3>3, <3>4, <3>5
  <2> QED BY <2>1, <2>2
<1> HIDE DEF linked
<1>7. /\ IsMemory(r) /\ r.color = linked.color /\ r.left = linked.left /\ r.right = linked.right
      /\ r.parent = [linked.parent EXCEPT ![v] = up]
  <2>1. IsMemory(linked) /\ v \in Cells /\ up \in Cells
    BY <1>2, <1>6
  <2> QED BY ONLY <2>1, SetParentFields
<1> HIDE DEF r
<1>8. \A t \in Sides : \A w \in Cells : r[t][w] = IF up # nil /\ t = s /\ w = up THEN v ELSE m[t][w]
  <2>1. r["left"] = linked["left"] /\ r["right"] = linked["right"]
    BY <1>7
  <2>2. \A t \in Sides : r[t] = linked[t]
    BY <2>1 DEF Sides
  <2> QED BY <2>2, <1>6
<1>9. Rehung(m, s, up, v, r)
  BY <1>6, <1>7, <1>8 DEF Rehung
<1> QED BY <1>1, <1>9 DEF up, s

\* Transplant puts v where u hung, and writes the parent of v even if it is nil.
LEMMA TransplantReplaces ==
  ASSUME NEW m, NEW N, NEW D, NEW top, Shape(m, N, D, top),
         NEW u \in N, NEW v \in Cells
  PROVE  Replaced(m, N, u, v, Transplant(m, u, v))
<1> DEFINE up == m.parent[u]
           s == SideOf(m, u, up)
           r == Transplant(m, u, v)
<1>1. /\ IsMemory(m) /\ N \subseteq Keys /\ nil \notin N
      /\ m.left[nil] = nil /\ m.right[nil] = nil
      /\ \A w \in N, t \in Sides : m[t][w] # nil => m.parent[m[t][w]] = w
  BY KeysAssumption DEF Shape
<1>2. \A w \in N : w # nil /\ w \in Cells
  BY <1>1 DEF Cells
<1>3. /\ up \in N \cup {nil} /\ s \in Sides
      /\ up # nil => up \in N /\ m[s][up] = u /\ \A t \in Sides : m[t][up] = u => t = s
  <2>1. Shape(m, N, D, top) /\ u \in N
    OBVIOUS
  <2> QED BY ONLY <2>1, ParentFacts
<1>4. /\ IsMemory(r) /\ r.color = m.color
      /\ r.parent = [m.parent EXCEPT ![v] = up]
      /\ \A t \in Sides : \A w \in Cells :
           r[t][w] = IF up # nil /\ t = s /\ w = up THEN v ELSE m[t][w]
  <2>1. IsMemory(m) /\ u \in Cells /\ v \in Cells
    BY <1>1, <1>2
  <2>2. Rehung(m, s, up, v, r)
    BY ONLY <2>1, TransplantFields
  <2> QED BY <2>2 DEF Rehung
<1> HIDE DEF s, r
<1>5. \A t \in Sides, w \in N : m[t][w] = u <=> w = up /\ t = s
  BY <1>1, <1>2, <1>3
<1>6. \A t \in Sides, w \in N : r[t][w] = IF m[t][w] = u THEN v ELSE m[t][w]
  BY <1>2, <1>4, <1>5
<1>7. \A t \in Sides, w \in Cells \ N : r[t][w] = m[t][w]
  BY <1>3, <1>4
<1>8. r.left[nil] = nil /\ r.right[nil] = nil
  <2>1. r["left"][nil] = nil /\ r["right"][nil] = nil
    BY <1>1, <1>7 DEF Sides, Cells
  <2> QED BY <2>1
<1> QED BY <1>4, <1>6, <1>7, <1>8 DEF Replaced, r

\* r is m without the node z, which had at most one child, x; where z hung
\* its weight is missing.
CutOut(m, N, D, H, top, z, x, r) ==
  /\ Shape(r, N \ {z}, UnlinkedSets(N, D, z), IF z = top THEN x ELSE top)
  /\ Replaced(m, N, z, x, r)
  /\ x \in N \cup {nil} /\ x # z /\ H[x] = 0
  /\ x # nil => Red(m, x) /\ ~Red(m, z)
  /\ \A w \in N \ {z}, t \in Sides :
       H[w] = H[r[t][w]] + (IF m[t][w] = z THEN Weight(m, z) ELSE 0) + Weight(m, w)

\* A node with at most one child, replaced by that child, is out of the tree;
\* if it was black its child is red, or a black is missing there.
LEMMA CutFacts ==
  ASSUME NEW m, NEW N, NEW D, NEW H, NEW top, Tree(m, N, N, D, top), Settled(m, N, H),
         NEW z \in N, NEW side \in Sides, m[Opposite[side]][z] = nil
  PROVE  CutOut(m, N, D, H, top, z, m[side][z], Transplant(m, z, m[side][z]))
<1> DEFINE x == m[side][z]
           r == Transplant(m, z, x)
<1>1. /\ Shape(m, N, D, top) /\ IsMemory(m) /\ N \subseteq Keys /\ nil \notin N
      /\ \A w \in N, t \in Sides : m[t][w] \in N \cup {nil}
      /\ \A w \in N, t \in Sides : m[t][w] # nil => m.parent[m[t][w]] = w
  BY KeysAssumption DEF Tree, Shape
<1>0. \A w \in N : w # nil /\ w \in Cells
  BY <1>1 DEF Cells
<1>2. /\ H \in [N \cup {nil} -> Nat] /\ H[nil] = 0
      /\ \A w \in N, t \in Sides : H[w] = H[m[t][w]] + Weight(m, w)
  <2>1. Heights(m, N, H)
    <3>1. NoGap(m, N, H) /\ Tree(m, N, N, D, top)
      BY DEF Settled
    <3> QED BY ONLY <3>1, NoGapIs
  <2> QED BY <2>1 DEF Heights
<1>3. \A w \in N : ~RedPair(m, w)
  BY DEF Settled
<1>4. Opposite[side] \in Sides
  BY OppositeSide
<1>5. x \in N \cup {nil} /\ x # z /\ x \in Cells
  <2>1. m[side][z] # z /\ m[side][z] \in Cells
    BY <1>1, ShapeFacts
  <2> QED BY <1>0, <1>1, <2>1
<1>6. \A w : Weight(m, w) \in {0, 1}
  BY WeightIs
<1>7. H[z] = Weight(m, z)
  <2>1. H[z] = H[m[Opposite[side]][z]] + Weight(m, z)
    BY <1>2, <1>4
  <2> QED BY <2>1, <1>2, <1>6
<1>8. H[x] = 0
  <2>1. H[z] = H[x] + Weight(m, z) /\ H[x] \in Nat
    BY <1>2, <1>5
  <2> QED BY <2>1, <1>6, <1>7
<1>9. ASSUME x # nil PROVE Red(m, x) /\ ~Red(m, z)
  <2>1. x \in N /\ m.parent[x] = z
    BY <1>1, <1>5, <1>9
  <2>2. H[x] = H[m[side][x]] + Weight(m, x) /\ m[side][x] \in N \cup {nil}
    BY <2>1, <1>1, <1>2
  <2>3. H[m[side][x]] \in Nat
    BY <2>2, <1>2
  <2> HIDE DEF x
  <2>4. Weight(m, x) # 1
    BY <2>2, <2>3, <1>8
  <2>5. Red(m, x)
    BY <2>4, WeightIs
  <2> QED BY <2>1, <2>5, <1>1, <1>3 DEF RedPair
<1> HIDE DEF x
<1>10. Replaced(m, N, z, x, r)
  <2>1. Shape(m, N, D, top) /\ z \in N /\ x \in Cells
    BY <1>1, <1>5
  <2> QED BY ONLY <2>1, TransplantReplaces
<1> HIDE DEF r
<1>11. Shape(r, N \ {z}, UnlinkedSets(N, D, z), IF z = top THEN x ELSE top)
  <2>1. /\ Shape(m, N, D, top) /\ z \in N /\ side \in Sides /\ m[Opposite[side]][z] = nil
        /\ Unlinks(m, N, z, side, r)
    BY <1>1, <1>10, <1>0 DEF Replaced, x, IsMemory, Unlinks
  <2>2. CASE z = top
    <3>1. Shape(r, N \ {z}, UnlinkedSets(N, D, z), m[side][z])
      BY ONLY <2>1, <2>2, UnlinkShape
    <3> QED BY <3>1, <2>2 DEF x
  <2>3. CASE z # top
    <3>1. Shape(r, N \ {z}, UnlinkedSets(N, D, z), top)
      BY ONLY <2>1, <2>3, UnlinkShape
    <3> QED BY <3>1, <2>3
  <2> QED BY <2>2, <2>3
<1>12. \A w \in N \ {z}, t \in Sides :
         H[w] = H[r[t][w]] + (IF m[t][w] = z THEN Weight(m, z) ELSE 0) + Weight(m, w)
  <2> TAKE w \in N \ {z}, t \in Sides
  <2>1. H[w] = H[m[t][w]] + Weight(m, w) /\ H[m[t][w]] \in Nat
    BY <1>1, <1>2
  <2>2. r[t][w] = IF m[t][w] = z THEN x ELSE m[t][w]
    BY <1>10 DEF Replaced
  <2>3. CASE m[t][w] = z
    <3>1. r[t][w] = x
      BY <2>2, <2>3
    <3> QED BY <3>1, <2>1, <2>3, <1>6, <1>7, <1>8
  <2>4. CASE m[t][w] # z
    <3>1. r[t][w] = m[t][w]
      BY <2>2, <2>4
    <3> QED BY <3>1, <2>1, <2>4, <1>6
  <2> QED BY <2>3, <2>4
<1>13. CutOut(m, N, D, H, top, z, x, r)
  BY <1>5, <1>8, <1>9, <1>10, <1>11, <1>12 DEF CutOut
<1> QED BY <1>13 DEF r, x

\* When the last black is in place the node is freed.
LEMMA FinishStep ==
  ASSUME NEW m, NEW D, NEW H, NEW top, NEW r, NEW z \in alive, NEW keyed,
         Tree(m, alive, alive \ {z}, D, top), Settled(m, alive \ {z}, H),
         Counters(alive \ {z}, size', begin', tail'),
         alive \ {z} # {} => r = top,
         FinishRemoval(m, r, z, keyed)
  PROVE  IInv'
<1> DEFINE N == alive \ {z}
<1>1. /\ mem' = SetFields(m, z, Fresh)
      /\ node' = IF size' = 0 THEN nil ELSE r
      /\ alive' = N /\ victim' = nil /\ (pc' = "undefined" \/ pc' = "idle")
  BY DEF FinishRemoval
<1>2. /\ Shape(m, N, D, top) /\ Inward(m, N) /\ N \subseteq Keys /\ alive \subseteq Keys
      /\ IsMemory(m)
      /\ \A k \in Keys \ alive, s \in Sides : m[s][k] = nil
      /\ top \in N \cup {nil} /\ m.left[nil] = nil /\ m.right[nil] = nil
  BY DEF Tree, Shape
<1>3. z \in Cells /\ z # nil /\ nil \in Cells /\ (\A w \in N : w \in Cells) /\ z \notin N
  BY <1>2, KeysAssumption DEF Cells
<1>4. node' = top
  <2>1. size' = Cardinality(N) /\ IsFiniteSet(N)
    BY <1>2, FiniteKeys DEF Counters
  <2>2. size' = 0 <=> N = {}
    BY <2>1, FS_EmptySet
  <2> QED BY <2>2, <1>1, <1>2
<1> DEFINE q == SetFields(m, z, Fresh)
<1>5. /\ IsMemory(q)
      /\ q.parent = [m.parent EXCEPT ![z] = nil]
      /\ q.left = [m.left EXCEPT ![z] = nil]
      /\ q.right = [m.right EXCEPT ![z] = nil]
      /\ q.color = [m.color EXCEPT ![z] = "black"]
  <2>2. /\ Fresh.parent = nil /\ Fresh.left = nil /\ Fresh.right = nil /\ Fresh.color = "black"
    BY FreshFields
  <2>3. /\ IsMemory(m) /\ z \in Cells
        /\ Fresh.parent \in Cells /\ Fresh.left \in Cells /\ Fresh.right \in Cells
        /\ Fresh.color \in {"red", "black"}
    BY <1>2, <1>3, <2>2
  <2> QED BY ONLY <2>2, <2>3, SetFieldsFields
<1> HIDE DEF q, N
<1>6. /\ \A t \in Sides : \A w \in Cells : q[t][w] = IF w = z THEN nil ELSE m[t][w]
      /\ \A w \in Cells : w # z => q.parent[w] = m.parent[w] /\ (Red(q, w) <=> Red(m, w))
  <2>1. \A w \in Cells : /\ q["left"][w] = IF w = z THEN nil ELSE m["left"][w]
                         /\ q["right"][w] = IF w = z THEN nil ELSE m["right"][w]
    BY <1>2, <1>5 DEF IsMemory
  <2>2. \A w \in Cells : w # z => q.parent[w] = m.parent[w] /\ q.color[w] = m.color[w]
    BY <1>2, <1>5 DEF IsMemory
  <2> QED BY <2>1, <2>2 DEF Sides, Red
<1>7. Shape(q, N, D, top)
  <2>1. /\ Shape(m, N, D, top) /\ IsMemory(q)
        /\ \A t \in Sides : \A w \in N \cup {nil} : q[t][w] = m[t][w]
        /\ \A w \in N : q.parent[w] = m.parent[w]
    BY <1>2, <1>3, <1>5, <1>6
  <2> QED BY ONLY <2>1, AgreeShape
<1>8. Tree(q, N, N, D, top)
  <2>1. Inward(q, N)
    BY <1>2, <1>6 DEF Inward, Cells
  <2>2. \A k \in Keys \ N, s \in Sides : q[s][k] = nil
    BY <1>2, <1>6 DEF Cells, N
  <2> QED BY <1>2, <1>7, <2>1, <2>2 DEF Tree
<1>9. Settled(q, N, H)
  <2>1. NoGap(m, N, H) /\ (\A n \in N : ~RedPair(m, n)) /\ ~Red(m, nil)
    BY DEF Settled, N
  <2>2. ~Red(q, nil)
    BY <2>1, <1>3, <1>6
  <2>3. ASSUME NEW n \in N PROVE ~RedPair(q, n)
    <3>1. m.parent[n] \in N \cup {nil}
      BY <1>2, ParentFacts
    <3>2. q.parent[n] = m.parent[n] /\ (Red(q, n) <=> Red(m, n))
      BY <1>3, <1>6
    <3>3. Red(q, m.parent[n]) <=> Red(m, m.parent[n])
      BY <3>1, <1>3, <1>6
    <3> QED BY <2>1, <3>2, <3>3 DEF RedPair
  <2>4. NoGap(q, N, H)
    <3>1. Heights(m, N, H)
      <4>1. Tree(m, alive, N, D, top) /\ NoGap(m, N, H)
        BY <2>1 DEF N
      <4> QED BY ONLY <4>1, NoGapIs
    <3>2. \A w \in N, t \in Sides : q[t][w] = m[t][w] /\ Weight(q, w) = Weight(m, w)
      BY <1>3, <1>6 DEF Weight
    <3>3. Heights(q, N, H)
      BY <3>1, <3>2 DEF Heights
    <3> QED BY ONLY <3>3, <1>8, NoGapIs
  <2> QED BY <2>2, <2>3, <2>4 DEF Settled
<1>10. Idle'
  <2>1. /\ Tree(mem', alive', alive', D, node') /\ Settled(mem', alive', H)
        /\ Counters(alive', size', begin', tail') /\ victim' = nil
    BY <1>1, <1>4, <1>8, <1>9 DEF N, q
  <2> QED BY <2>1 DEF Idle
<1> QED BY <1>1, <1>10 DEF IInv

\* m is a tree from which a node of that colour is gone, above x.
CutState(m, A, N, x, root, color) ==
  \E D, H, top :
    /\ Tree(m, A, N, D, top) /\ root = top
    /\ color = "red" => Settled(m, N, H)
    /\ color = "black" => RemoveState(m, N, H, top, x)

\* What follows the unlinking of z keeps the invariant.
LEMMA UnlinkedStep ==
  ASSUME Idle, pc = "idle", NEW z \in alive, NEW x, NEW m, NEW r, NEW color, NEW keyed,
         CutState(m, alive, alive \ {z}, x, r, color), Unlinked(z, x, m, r, color, keyed)
  PROVE  IInv'
<1> DEFINE N == alive \ {z}
<1>1. PICK D0, H0 : /\ Tree(mem, alive, alive, D0, node)
                    /\ Counters(alive, size, begin, tail)
  BY DEF Idle
<1>2. PICK D, H, top :
    /\ Tree(m, alive, N, D, top) /\ r = top
    /\ color = "red" => Settled(m, N, H)
    /\ color = "black" => RemoveState(m, N, H, top, x)
  BY DEF CutState
<1>3. Shape(mem, alive, D0, node) /\ Inward(mem, alive) /\ alive \subseteq Keys
  BY <1>1 DEF Tree
<1>4. Counters(N, size', begin', tail')
  <2>1. size' = Cardinality(N)
    <3>1. IsFiniteSet(alive) /\ Cardinality(alive) \in Nat
      BY <1>3, FiniteKeys
    <3>2. Cardinality(N) = Cardinality(alive) - 1
      BY <3>1, FS_RemoveElement
    <3> QED BY <3>2, <1>1 DEF Counters, Unlinked
  <2>2. IsEnd("left", N, begin')
    <3>1. IsNext(alive, "right", z, NextNode(mem, z))
      <4>1. "right" \in Sides
        BY DEF Sides
      <4> QED BY <4>1, <1>3, NeighbourIsNext DEF NextNode
    <3>2. alive \in SUBSET Keys /\ "left" \in Sides /\ IsEnd("left", alive, begin) /\ Opposite["left"] = "right"
      BY <1>1, <1>3 DEF Counters, Sides, Opposite
    <3>3. IsEnd("left", N, IF z = begin THEN NextNode(mem, z) ELSE begin)
      BY <3>1, <3>2, EndAfterUnlink
    <3> QED BY <3>3 DEF Unlinked
  <2>3. IsEnd("right", N, tail')
    <3>1. IsNext(alive, "left", z, PrevNode(mem, z))
      <4>1. "left" \in Sides
        BY DEF Sides
      <4> QED BY <4>1, <1>3, NeighbourIsNext DEF PrevNode
    <3>2. alive \in SUBSET Keys /\ "right" \in Sides /\ IsEnd("right", alive, tail) /\ Opposite["right"] = "left"
      BY <1>1, <1>3 DEF Counters, Sides, Opposite
    <3>3. IsEnd("right", N, IF z = tail THEN PrevNode(mem, z) ELSE tail)
      BY <3>1, <3>2, EndAfterUnlink
    <3> QED BY <3>3 DEF Unlinked
  <2> QED BY <2>1, <2>2, <2>3 DEF Counters
<1>5. \/ /\ color = "black"
         /\ mem' = m /\ node' = r
         /\ pc' = "remove" /\ cursor' = x /\ victim' = z
         /\ alive' = alive
      \/ color = "red" /\ FinishRemoval(m, r, z, keyed)
  BY DEF Unlinked
<1>6. CASE color = "red" /\ FinishRemoval(m, r, z, keyed)
  <2>1. /\ Tree(m, alive, alive \ {z}, D, top) /\ Settled(m, alive \ {z}, H)
        /\ Counters(alive \ {z}, size', begin', tail')
        /\ alive \ {z} # {} => r = top
        /\ FinishRemoval(m, r, z, keyed) /\ z \in alive
    BY <1>2, <1>4, <1>6
  <2> QED BY ONLY <2>1, FinishStep
<1>7. CASE /\ color = "black"
           /\ mem' = m /\ node' = r
           /\ pc' = "remove" /\ cursor' = x /\ victim' = z
           /\ alive' = alive
  <2>1. IF N = {} THEN r = nil ELSE r \in N
    BY <1>2 DEF Tree, Shape
  <2>2. /\ Tree(mem', alive', alive' \ {victim'}, D, top)
        /\ RemoveState(mem', alive' \ {victim'}, H, top, cursor')
        /\ victim' \in alive'
        /\ IF alive' \ {victim'} = {} THEN node' = nil ELSE node' \in alive' \ {victim'}
        /\ Counters(alive' \ {victim'}, size', begin', tail')
    BY <2>1, <1>2, <1>4, <1>7
  <2>3. Removing'
    BY <2>2 DEF Removing
  <2> QED BY <2>3, <1>7 DEF IInv
<1> QED BY <1>5, <1>6, <1>7

\* Removing a node with at most one child keeps the invariant.
LEMMA UnlinkShortStep ==
  ASSUME IInv, pc = "idle", NEW z \in alive, NEW side \in Sides, NEW keyed,
         UnlinkShort(z, side, keyed)
  PROVE  IInv'
<1> DEFINE x == mem[side][z]
           p == mem.parent[z]
           s == SideOf(mem, z, p)
           m == Transplant(mem, z, x)
           root == RootAfter(mem, z, x, node)
           color == mem.color[z]
           N == alive \ {z}
<1>1. Idle /\ mem[Opposite[side]][z] = nil /\ Unlinked(z, x, m, root, color, keyed)
  BY DEF IInv, UnlinkShort
<1>2. PICK D, H : Tree(mem, alive, alive, D, node) /\ Settled(mem, alive, H)
  BY <1>1 DEF Idle
<1>3. CutOut(mem, alive, D, H, node, z, x, m)
  <2>1. Tree(mem, alive, alive, D, node) /\ Settled(mem, alive, H) /\ z \in alive /\ side \in Sides /\ mem[Opposite[side]][z] = nil
    BY <1>1, <1>2
  <2> QED BY ONLY <2>1, CutFacts
<1>4. /\ Shape(mem, alive, D, node) /\ alive \subseteq Keys /\ nil \notin alive
      /\ IsMemory(mem)
      /\ Inward(mem, alive)
      /\ \A k \in Keys \ alive, t \in Sides : mem[t][k] = nil
      /\ (\A n \in alive : ~RedPair(mem, n)) /\ ~Red(mem, nil)
      /\ NoGap(mem, alive, H)
  BY <1>2, KeysAssumption DEF Tree, Shape, Settled
<1>5. /\ p \in alive \cup {nil} /\ p # z /\ (p = nil <=> z = node)
      /\ s \in Sides
      /\ p # nil => p \in alive /\ mem[s][p] = z /\ (\A t \in Sides : mem[t][p] = z => t = s)
      /\ \A w \in alive, t \in Sides : mem[t][w] = z => w = p
  <2>1. Shape(mem, alive, D, node) /\ z \in alive
    BY <1>4
  <2>2. /\ p \in alive \cup {nil} /\ p # z /\ (p = nil <=> z = node)
        /\ s \in Sides
        /\ p # nil => p \in alive /\ mem[s][p] = z /\ (\A t \in Sides : mem[t][p] = z => t = s)
    BY ONLY <2>1, ParentFacts
  <2>3. \A w \in alive, t \in Sides : mem[t][w] = z => w = p
    BY <1>4 DEF Shape
  <2> QED BY <2>2, <2>3
<1> HIDE DEF x, p, s, m, root
<1>6. /\ Shape(m, N, UnlinkedSets(alive, D, z), IF z = node THEN x ELSE node)
      /\ x \in N \cup {nil} /\ H[x] = 0
      /\ x # nil => Red(mem, x) /\ ~Red(mem, z)
      /\ \A w \in N, t \in Sides :
           H[w] = H[m[t][w]] + (IF mem[t][w] = z THEN Weight(mem, z) ELSE 0) + Weight(mem, w)
      /\ m.color = mem.color /\ IsMemory(m)
      /\ m.parent = [mem.parent EXCEPT ![x] = p]
      /\ \A t \in Sides, w \in alive : m[t][w] = IF mem[t][w] = z THEN x ELSE mem[t][w]
      /\ \A t \in Sides, w \in Cells \ alive : m[t][w] = mem[t][w]
  BY <1>3 DEF CutOut, Replaced, p
<1> DEFINE top == IF z = node THEN x ELSE node
           E == UnlinkedSets(alive, D, z)
           K == [w \in N \cup {nil} |-> H[w]]
<1>7. root = top
  BY <1>5 DEF root, RootAfter, p
<1>8. (\A w \in N : w \in Cells) /\ nil \in Cells /\ x \in Cells
  BY <1>4, <1>6 DEF Cells
<1>9. Tree(m, alive, N, E, top)
  <2>1. Inward(m, N)
    <3> SUFFICES ASSUME NEW k \in Keys, NEW t \in Sides PROVE m[t][k] \in N \cup {nil}
      BY DEF Inward
    <3>1. CASE k \in alive
      <4>1. m[t][k] = IF mem[t][k] = z THEN x ELSE mem[t][k]
        BY <3>1, <1>6
      <4>2. mem[t][k] \in alive \cup {nil}
        BY <1>4 DEF Inward
      <4> QED BY <4>1, <4>2, <1>6
    <3>2. CASE k \notin alive
      BY <3>2, <1>4, <1>6 DEF Cells
    <3> QED BY <3>1, <3>2
  <2>2. \A k \in Keys \ alive, t \in Sides : m[t][k] = nil
    BY <1>4, <1>6 DEF Cells
  <2> HIDE DEF E
  <2> QED BY <2>1, <2>2, <1>4, <1>6 DEF Tree, E
<1>10. ASSUME NEW gp, IF Red(mem, z) THEN gp = nil ELSE gp = p
       PROVE  Balanced(m, N, K, gp, s)
  <2>1. H \in [alive \cup {nil} -> Nat] /\ H[nil] = 0
    BY <1>4 DEF NoGap, Balanced
  <2>2. K \in [N \cup {nil} -> Nat] /\ K[nil] = 0 /\ \A w \in N \cup {nil} : K[w] = H[w]
    BY <2>1
  <2> HIDE DEF K
  <2>3. \A w \in N, t \in Sides : K[w] = K[m[t][w]] + (IF w = gp /\ t = s THEN 1 ELSE 0) + Weight(m, w)
    <3> TAKE w \in N, t \in Sides
    <3>1. H[w] = H[m[t][w]] + (IF mem[t][w] = z THEN Weight(mem, z) ELSE 0) + Weight(mem, w)
      BY <1>6
    <3>2. m[t][w] \in N \cup {nil} /\ Weight(m, w) = Weight(mem, w)
      BY <1>9, <1>4, <1>6 DEF Tree, Inward, Weight, Red
    <3>3. (IF mem[t][w] = z THEN Weight(mem, z) ELSE 0) = (IF w = gp /\ t = s THEN 1 ELSE 0)
      <4>1. CASE Red(mem, z)
        BY <4>1, <1>10, <1>4 DEF Weight
      <4>2. CASE ~Red(mem, z)
        <5>1. gp = p /\ Weight(mem, z) = 1
          BY <4>2, <1>10 DEF Weight
        <5>2. mem[t][w] = z <=> w = p /\ t = s
          BY <1>4, <1>5
        <5> QED BY <5>1, <5>2
      <4> QED BY <4>1, <4>2
    <3> QED BY <3>1, <3>2, <3>3, <2>2
  <2> QED BY <2>2, <2>3 DEF Balanced
<1>11. ~Red(m, nil) /\ (\A w : Red(m, w) <=> Red(mem, w))
  BY <1>4, <1>6 DEF Red
<1>12. ASSUME NEW n \in N, RedPair(m, n) PROVE n = x /\ Red(m, x)
  <2>1. n # x => m.parent[n] = mem.parent[n]
    BY <1>4, <1>6, <1>8 DEF IsMemory
  <2> QED BY <2>1, <1>12, <1>4, <1>11 DEF RedPair
<1>13. m.parent[x] = p
  BY <1>4, <1>6, <1>8 DEF IsMemory
<1>14. CASE color = "red"
  <2>1. Red(mem, z) /\ x = nil
    BY <1>6, <1>14 DEF Red
  <2>2. \A n \in N : ~RedPair(m, n)
    BY <2>1, <1>12, <1>4
  <2>3. NoGap(m, N, K)
    <3>1. Balanced(m, N, K, nil, s) /\ nil \notin N
      BY <2>1, <1>10, <1>4
    <3> HIDE DEF K
    <3> QED BY <3>1, NoGapSide
  <2>4. Settled(m, N, K)
    BY <2>2, <2>3, <1>11 DEF Settled
  <2>5. CutState(m, alive, N, x, root, color)
    <3> HIDE DEF K, E, top, color, N
    <3> QED BY <2>4, <1>7, <1>9, <1>14 DEF CutState
  <2> HIDE DEF color
  <2> QED BY <2>5, <1>1, UnlinkedStep DEF x, m, root
<1>15. CASE color = "black"
  <2>1. ~Red(mem, z)
    BY <1>15 DEF Red
  <2>2. Balanced(m, N, K, p, s)
    BY <2>1, <1>10
  <2>3. Lacking(m, N, K, top, x)
    <3>1. CASE p = nil
      <4>1. NoGap(m, N, K)
        <5> HIDE DEF K
        <5> QED BY <2>2, <3>1, <1>4, NoGapSide
      <4>2. x = top
        BY <3>1, <1>5
      <4> HIDE DEF K
      <4> QED BY <4>1, <4>2, <3>1, <1>11, <1>13 DEF Lacking
    <3>2. CASE p # nil
      <4>1. p \in N /\ m[s][p] = x
        BY <3>2, <1>5, <1>6
      <4> HIDE DEF K
      <4> QED BY <4>1, <1>5, <1>11, <1>13, <2>2 DEF Lacking
    <3> QED BY <3>1, <3>2
  <2>4. N # {} /\ m.parent[nil] \notin N => x # nil /\ Red(m, x)
    <3> SUFFICES ASSUME N # {}, m.parent[nil] \notin N, x = nil PROVE FALSE
      BY <1>6, <1>11
    <3>1. p = nil /\ z = node
      BY <1>5, <1>13
    <3>2. top = nil
      BY <3>1
    <3> QED BY <3>2, <1>6 DEF Shape
  <2>5. RemoveState(m, N, K, top, x)
    <3> HIDE DEF K
    <3> QED BY <2>3, <2>4, <1>6, <1>12 DEF RemoveState
  <2>6. CutState(m, alive, N, x, root, color)
    <3> HIDE DEF K, E, top, color, N
    <3> QED BY <2>5, <1>7, <1>9, <1>15 DEF CutState
  <2> HIDE DEF color
  <2> QED BY <2>6, <1>1, UnlinkedStep DEF x, m, root
<1>16. color \in {"red", "black"}
  BY <1>4 DEF IsMemory, Cells
<1> QED BY <1>14, <1>15, <1>16

\* What the code writes into y once it hangs in the place of z.
Dress(m, z, y) ==
  [m EXCEPT !.left[y] = m.left[z], !.parent[m.left[z]] = y, !.color[y] = m.color[z]]

\* The fields of r, which is m dressed so.
DressedUp(m, z, y, r) ==
  /\ IsMemory(r) /\ r.right = m.right
  /\ r.left = [m.left EXCEPT ![y] = m.left[z]]
  /\ r.parent = [m.parent EXCEPT ![m.left[z]] = y]
  /\ r.color = [m.color EXCEPT ![y] = m.color[z]]

\* What Dress writes, field by field.
LEMMA DressFields ==
  ASSUME NEW m, IsMemory(m), NEW z \in Cells, NEW y \in Cells
  PROVE  DressedUp(m, z, y, Dress(m, z, y))
<1> DEFINE a == m.left[z]
           c == m.color[z]
<1>1. a \in Cells /\ c \in {"red", "black"}
  BY DEF IsMemory
<1>2. Dress(m, z, y) = [m EXCEPT !.left[y] = a, !.parent[a] = y, !.color[y] = c]
  BY DEF Dress
<1> HIDE DEF a, c
<1> DEFINE r == [m EXCEPT !.left[y] = a, !.parent[a] = y, !.color[y] = c]
<1>3. /\ IsMemory(r) /\ r.right = m.right
      /\ r.left = [m.left EXCEPT ![y] = a]
      /\ r.parent = [m.parent EXCEPT ![a] = y]
      /\ r.color = [m.color EXCEPT ![y] = c]
  BY <1>1 DEF IsMemory
<1> HIDE DEF r
<1>4. DressedUp(m, z, y, r)
  BY <1>3 DEF DressedUp, a, c
<1> QED BY <1>2, <1>4 DEF r

\* m is r but that y already has the right child of z.
HalfDressed(r, z, y, m) ==
  /\ IsMemory(m) /\ m.color = r.color
  /\ \A t \in Sides, w \in Cells \ {y, z} : m[t][w] = r[t][w]
  /\ m.left[z] = r.left[z] /\ m.right[y] = r.right[z]
  /\ m.parent = [r.parent EXCEPT ![r.right[z]] = y]

\* Beside its place in the tree y gets the colour of z; the links of z stay.
Dressed(r, N, z, y, m, q) ==
  /\ Puts(r, N, z, y, q)
  /\ q.color = [r.color EXCEPT ![y] = r.color[z]]
  /\ q.parent[nil] = IF r.right[z] = nil THEN y ELSE r.parent[nil]
  /\ \A t \in Sides, w \in Cells \ (N \cup {y}) : q[t][w] = r[t][w]
  /\ \A t \in Sides : q[t][z] = m[t][z]

\* The successor, cut out of the tree, takes the place of z.
LEMMA TakePlace ==
  ASSUME NEW r, NEW N, NEW D, NEW top, Shape(r, N, D, top),
         NEW z \in N, NEW y \in Keys \ N, r.left[z] # nil,
         NEW m, HalfDressed(r, z, y, m)
  PROVE  Dressed(r, N, z, y, m, Dress(Transplant(m, z, y), z, y))
<1> DEFINE up == m.parent[z]
           s == SideOf(m, z, up)
           m2 == Transplant(m, z, y)
           q == Dress(m2, z, y)
           a == r.left[z]
           b == r.right[z]
<1>1. /\ IsMemory(m) /\ m.color = r.color
      /\ \A t \in Sides, w \in Cells \ {y, z} : m[t][w] = r[t][w]
      /\ m.left[z] = a /\ m.right[y] = b
      /\ m.parent = [r.parent EXCEPT ![b] = y]
  BY DEF HalfDressed
<1>2. /\ IsMemory(r) /\ N \subseteq Keys /\ nil \notin Keys
      /\ r.left[nil] = nil /\ r.right[nil] = nil
      /\ \A w \in N, t \in Sides : r[t][w] \in N \cup {nil}
      /\ \A w \in N, t \in Sides : r[t][w] # nil => r.parent[r[t][w]] = w
  BY KeysAssumption DEF Shape
<1>3. /\ z \in Cells /\ y \in Cells /\ nil \in Cells /\ (\A w \in N : w \in Cells /\ w # nil /\ w # y)
      /\ z # nil /\ y # nil /\ y # z
  BY <1>2 DEF Cells
<1>4. /\ a \in N /\ b \in N \cup {nil} /\ a # z /\ b # z /\ r.parent[a] = z /\ (b # nil => r.parent[b] = z)
      /\ a \in Cells /\ b \in Cells /\ a # nil
  <2>1. r["left"][z] # z /\ r["right"][z] # z
    <3>1. "left" \in Sides /\ "right" \in Sides
      BY DEF Sides
    <3> QED BY <3>1, ShapeFacts
  <2>2. /\ r["left"][z] \in N \cup {nil} /\ r["right"][z] \in N \cup {nil}
        /\ r["left"][z] # nil => r.parent[r["left"][z]] = z
        /\ r["right"][z] # nil => r.parent[r["right"][z]] = z
    BY <1>2 DEF Sides
  <2>3. a \in N /\ b \in N \cup {nil} /\ a # z /\ b # z /\ r.parent[a] = z /\ (b # nil => r.parent[b] = z)
    BY <2>1, <2>2
  <2> HIDE DEF a, b
  <2> QED BY <2>3, <1>3
<1>5. up = r.parent[z]
  BY <1>1, <1>2, <1>3, <1>4 DEF IsMemory
<1>6. /\ up \in N \cup {nil} /\ up # z /\ up # y /\ up \in Cells
      /\ SideOf(r, z, up) \in Sides
      /\ up # nil => up \in N /\ r[SideOf(r, z, up)][up] = z
                     /\ \A t \in Sides : r[t][up] = z => t = SideOf(r, z, up)
  <2>1. Shape(r, N, D, top) /\ z \in N
    OBVIOUS
  <2>2. /\ r.parent[z] \in N \cup {nil} /\ r.parent[z] # z
        /\ SideOf(r, z, r.parent[z]) \in Sides
        /\ r.parent[z] # nil => r.parent[z] \in N /\ r[SideOf(r, z, r.parent[z])][r.parent[z]] = z
                     /\ \A t \in Sides : r[t][r.parent[z]] = z => t = SideOf(r, z, r.parent[z])
    BY ONLY <2>1, ParentFacts
  <2> HIDE DEF up
  <2> QED BY <2>2, <1>3, <1>5
<1> HIDE DEF up
<1>7. s = SideOf(r, z, up)
  <2>1. m["left"][up] = r["left"][up]
    BY <1>1, <1>6 DEF Sides
  <2> QED BY <2>1 DEF SideOf
<1>8. /\ IsMemory(m2) /\ m2.color = m.color
      /\ m2.parent = [m.parent EXCEPT ![y] = up]
      /\ \A t \in Sides : \A w \in Cells :
           m2[t][w] = IF up # nil /\ t = s /\ w = up THEN y ELSE m[t][w]
  <2>1. IsMemory(m) /\ z \in Cells /\ y \in Cells
    BY <1>1, <1>3
  <2>2. Rehung(m, s, up, y, m2)
    <3> USE DEF up
    <3> QED BY ONLY <2>1, TransplantFields
  <2> HIDE DEF m2, s
  <2> QED BY <2>2 DEF Rehung
<1> HIDE DEF m2, s
<1>9. m2.left[z] = a /\ m2.color[z] = r.color[z]
  <2>1. m2["left"][z] = m["left"][z]
    BY <1>3, <1>6, <1>8 DEF Sides
  <2> QED BY <2>1, <1>1, <1>8
<1>10. /\ IsMemory(q) /\ q.right = m2.right
       /\ q.left = [m2.left EXCEPT ![y] = a]
       /\ q.parent = [m2.parent EXCEPT ![a] = y]
       /\ q.color = [m2.color EXCEPT ![y] = r.color[z]]
  <2>1. IsMemory(m2) /\ z \in Cells /\ y \in Cells
    BY <1>3, <1>8
  <2> HIDE DEF a
  <2>2. /\ IsMemory(q) /\ q.right = m2.right
        /\ q.left = [m2.left EXCEPT ![y] = m2.left[z]]
        /\ q.parent = [m2.parent EXCEPT ![m2.left[z]] = y]
        /\ q.color = [m2.color EXCEPT ![y] = m2.color[z]]
    <3>1. DressedUp(m2, z, y, q)
      BY ONLY <2>1, DressFields
    <3> HIDE DEF q
    <3> QED BY <3>1 DEF DressedUp
  <2> HIDE DEF q
  <2> QED BY <2>2, <1>9
<1> HIDE DEF q, a, b
<1>11. \A t \in Sides : \A w \in Cells : w # y => q[t][w] = m2[t][w]
  <2>1. \A w \in Cells : w # y => q["left"][w] = m2["left"][w] /\ q["right"][w] = m2["right"][w]
    BY <1>8, <1>10 DEF IsMemory
  <2> QED BY <2>1 DEF Sides
<1>12. \A t \in Sides : q[t][y] = r[t][z]
  <2>1. q.left[y] = a
    BY <1>3, <1>8, <1>10 DEF IsMemory
  <2>2. q.right[y] = b
    <3>1. m2["right"][y] = m["right"][y]
      BY <1>3, <1>6, <1>8 DEF Sides
    <3> QED BY <3>1, <1>1, <1>10
  <2>3. q["left"][y] = r["left"][z] /\ q["right"][y] = r["right"][z]
    BY <2>1, <2>2 DEF a, b
  <2> QED BY <2>3 DEF Sides
<1>13. \A t \in Sides, w \in N \ {z} : q[t][w] = IF r[t][w] = z THEN y ELSE r[t][w]
  <2> TAKE t \in Sides, w \in N \ {z}
  <2>1. q[t][w] = IF up # nil /\ t = s /\ w = up THEN y ELSE r[t][w]
    BY <1>1, <1>3, <1>8, <1>11
  <2>2. r[t][w] = z <=> up # nil /\ t = s /\ w = up
    BY <1>2, <1>3, <1>5, <1>6, <1>7
  <2> QED BY <2>1, <2>2
<1>14. q.parent[y] = r.parent[z]
  BY <1>1, <1>3, <1>4, <1>5, <1>8, <1>10 DEF IsMemory
<1>15. \A w \in Cells : w # y => q.parent[w] = IF w = a \/ w = b THEN y ELSE r.parent[w]
  BY <1>1, <1>2, <1>3, <1>4, <1>8, <1>10 DEF IsMemory
<1>16. \A w \in N \ {z} : q.parent[w] = IF r.parent[w] = z THEN y ELSE r.parent[w]
  <2> TAKE w \in N \ {z}
  <2>1. q.parent[w] = IF w = a \/ w = b THEN y ELSE r.parent[w]
    BY <1>3, <1>15
  <2>2. r.parent[w] = z => w = a \/ w = b
    <3> SUFFICES ASSUME r.parent[w] = z PROVE w = a \/ w = b
      OBVIOUS
    <3>1. w # top
      BY <1>3 DEF Shape
    <3>2. PICK t \in Sides : r[t][z] = w
      BY <3>1 DEF Shape
    <3>3. r["left"][z] = w \/ r["right"][z] = w
      BY <3>2 DEF Sides
    <3> QED BY <3>3 DEF a, b
  <2>3. w = a \/ w = b => r.parent[w] = z
    BY <1>3, <1>4
  <2> QED BY <2>1, <2>2, <2>3
<1>17. q.left[nil] = nil /\ q.right[nil] = nil
  <2>1. q["left"][nil] = r["left"][nil] /\ q["right"][nil] = r["right"][nil]
    BY <1>1, <1>3, <1>8, <1>11 DEF Sides
  <2> QED BY <2>1, <1>2
<1>18. Puts(r, N, z, y, q)
  BY <1>10, <1>12, <1>13, <1>14, <1>16, <1>17 DEF Puts
<1>19. q.parent[nil] = IF b = nil THEN y ELSE r.parent[nil]
  BY <1>3, <1>4, <1>15
<1>20. \A t \in Sides, w \in Cells \ (N \cup {y}) : q[t][w] = r[t][w]
  BY <1>1, <1>6, <1>8, <1>11
<1>21. \A t \in Sides : q[t][z] = m[t][z]
  BY <1>3, <1>6, <1>8, <1>11
<1>22. q.color = [r.color EXCEPT ![y] = r.color[z]]
  BY <1>1, <1>8, <1>10
<1> QED BY <1>18, <1>19, <1>20, <1>21, <1>22 DEF Dressed, q, m2, b

\* y comes next after z, which has two children.
Successor(m, N, top, z, y) ==
  /\ y \in N /\ y # z /\ y # top /\ m.left[y] = nil /\ m.left[z] # y
  /\ m.right[y] # z /\ m.parent[z] # y
  /\ m.parent[y] = z <=> m.right[z] = y
  /\ SameOrder(N \ {y}, z, y)

\* The node after one with two children has no left child and lies below it.
LEMMA SuccessorIs ==
  ASSUME NEW m, NEW N, NEW D, NEW top, Shape(m, N, D, top), Inward(m, N),
         NEW z \in N, m.right[z] # nil
  PROVE  Successor(m, N, top, z, NextNode(m, z))
<1> DEFINE y == NextNode(m, z)
           c == m["right"][z]
<1>1. /\ IsMemory(m) /\ N \subseteq Keys /\ N \subseteq Int /\ nil \notin N /\ D[nil] = {} /\ D[top] = N
      /\ \A n \in N, s \in Sides : /\ m[s][n] \in N \cup {nil}
                                   /\ D[n] = {n} \cup D[m[s][n]] \cup D[m[Opposite[s]][n]]
                                   /\ m[s][n] # nil => m.parent[m[s][n]] = n
                                   /\ \A b \in D[m[s][n]] : Before(s, b, n)
      /\ \A n \in N \ {top} : m.parent[n] \in N /\ \E s \in Sides : m[s][m.parent[n]] = n
  BY KeysAssumption DEF Shape
<1>2. "left" \in Sides /\ "right" \in Sides /\ Opposite["right"] = "left" /\ Opposite["left"] = "right"
  BY DEF Sides, Opposite
<1>3. c \in N /\ c # nil
  BY <1>1, <1>2
<1>4. y = Far(m, "left", c)
  <2>1. NextNode(m, z) = IF m["right"][z] # nil THEN Far(m, Opposite["right"], m["right"][z]) ELSE Climb(m, "right", z)
    BY NeighbourClimbs DEF NextNode
  <2> QED BY <2>1, <1>2, <1>3
<1>5. y \in D[c] /\ m["left"][y] = nil
  <2>1. Shape(m, N, D, top) /\ Inward(m, N) /\ "left" \in Sides /\ c \in N
    BY <1>2, <1>3
  <2> HIDE DEF c
  <2>2. Far(m, "left", c) \in D[c] /\ m["left"][Far(m, "left", c)] = nil
    BY ONLY <2>1, FarIsExtreme
  <2> HIDE DEF y
  <2> QED BY <2>2, <1>4
<1>6. Before("right", y, z)
  <2>1. \A b \in D[m["right"][z]] : Before("right", b, z)
    BY <1>1, <1>2
  <2> HIDE DEF y
  <2> QED BY <2>1, <1>5
<1>7. y \in N
  <2>1. D[c] \subseteq N
    BY <1>3 DEF Shape
  <2> QED BY <2>1, <1>5
<1>8. IsNext(N, "right", z, y)
  <2>1. Shape(m, N, D, top) /\ Inward(m, N) /\ "right" \in Sides /\ z \in N
    BY <1>2
  <2>2. IsNext(N, "right", z, Neighbour(m, "right", z))
    BY ONLY <2>1, NeighbourIsNext
  <2> QED BY <2>2 DEF NextNode
<1> HIDE DEF y
<1>9. y > z /\ y \in Int /\ z \in Int
  BY <1>1, <1>6, <1>7 DEF Before
<1>10. SameOrder(N \ {y}, z, y)
  <2>1. \A u \in N : Before("right", u, z) => u = y \/ Before("right", u, y)
    BY <1>8, <1>1, <1>7 DEF IsNext
  <2>2. \A u \in N : u > z => u = y \/ u > y
    BY <2>1 DEF Before
  <2> SUFFICES ASSUME NEW x \in (N \ {y}) \ {z}, NEW t \in Sides
               PROVE  /\ Before(t, x, z) => Before(t, x, y)
                      /\ Before(t, z, x) => Before(t, y, x)
    BY DEF SameOrder
  <2>3. x \in Int /\ (x > z => x > y)
    BY <2>2, <1>1
  <2> QED BY <2>3, <1>9 DEF Before
<1>11. \A s \in Sides : z \notin D[m[s][y]]
  <2>1. z \notin D[m["right"][y]]
    <3>1. z \in D[m["right"][y]] => Before("right", z, y)
      BY <1>1, <1>2, <1>7
    <3> QED BY <3>1, <1>9 DEF Before
  <2>2. z \notin D[m["left"][y]]
    BY <1>1, <1>5
  <2> QED BY <2>1, <2>2 DEF Sides
<1>12. y # top
  <2>1. z \in D[y] => z = y
    BY <1>11, <1>1, <1>2, <1>7
  <2> QED BY <2>1, <1>1, <1>9
<1>13. \A s \in Sides : m[s][y] # z
  <2>1. z \in D[z]
    BY <1>2, ShapeFacts
  <2> QED BY <2>1, <1>11
<1>14. m.parent[z] # y
  <2> SUFFICES ASSUME m.parent[z] = y PROVE FALSE
    OBVIOUS
  <2>1. z # top
    BY <1>1, <1>7 DEF Shape
  <2>2. \E s \in Sides : m[s][y] = z
    BY <2>1, <1>1
  <2> QED BY <2>2, <1>13
<1>15. m["left"][z] # y
  <2> SUFFICES ASSUME m["left"][z] = y PROVE FALSE
    OBVIOUS
  <2>1. y \in D[y]
    BY <1>2, <1>7, ShapeFacts
  <2>2. Before("left", y, z)
    BY <2>1, <1>1, <1>2
  <2> QED BY <2>2, <1>9 DEF Before
<1>16. m.parent[y] = z <=> m["right"][z] = y
  <2>1. m["right"][z] = y => m.parent[y] = z
    BY <1>1, <1>2, <1>3
  <2>2. ASSUME m.parent[y] = z PROVE m["right"][z] = y
    <3>1. PICK s \in Sides : m[s][z] = y
      BY <1>1, <1>7, <1>12, <2>2
    <3> QED BY <3>1, <1>15 DEF Sides
  <2> QED BY <2>1, <2>2
<1>17. m["right"][y] # z
  BY <1>2, <1>13
<1>18. Successor(m, N, top, z, y)
  BY <1>5, <1>7, <1>9, <1>10, <1>12, <1>14, <1>15, <1>16, <1>17 DEF Successor
<1> QED BY <1>18 DEF y

\* The two ways in which the code prepares the successor.
Prepared(m, z, y, x) ==
  IF m.parent[y] = z
  THEN [m EXCEPT !.parent[x] = y]
  ELSE LET t == Transplant(m, y, x)
       IN [t EXCEPT !.right[y] = t.right[z], !.parent[t.right[z]] = y]

\* The fields of r, which is m with c hung from y on the right.
HungRight(m, y, c, r) ==
  /\ IsMemory(r) /\ r.color = m.color /\ r.left = m.left
  /\ r.right = [m.right EXCEPT ![y] = c]
  /\ r.parent = [m.parent EXCEPT ![c] = y]

\* Writing the right child and its parent pointer does that.
LEMMA RightAndParent ==
  ASSUME NEW m, IsMemory(m), NEW y \in Cells, NEW c \in Cells
  PROVE  HungRight(m, y, c, [m EXCEPT !.right[y] = c, !.parent[c] = y])
BY DEF IsMemory, HungRight

\* Both leave the successor with the right child that z has without it.
LEMMA PreparedIsHalfDressed ==
  ASSUME NEW m, NEW N, NEW D, NEW top, Shape(m, N, D, top),
         NEW z \in N, NEW y, Successor(m, N, top, z, y),
         NEW x, x = m.right[y],
         NEW r, r = Transplant(m, y, x), Replaced(m, N, y, x, r)
  PROVE  /\ HalfDressed(r, z, y, Prepared(m, z, y, x))
         /\ \A t \in Sides : Prepared(m, z, y, x)[t][z] \in {m[t][z], r[t][z]}
<1> DEFINE q == Prepared(m, z, y, x)
<1>1. /\ IsMemory(m) /\ N \subseteq Keys /\ nil \notin N
      /\ \A w \in N, t \in Sides : m[t][w] # nil => m.parent[m[t][w]] = w
  BY KeysAssumption DEF Shape
<1>2. \A w \in N : w # nil /\ w \in Cells
  BY <1>1 DEF Cells
<1>3. /\ y \in N /\ y # z /\ m.left[z] # y /\ (m.parent[y] = z <=> m.right[z] = y)
  BY DEF Successor
<1>4. /\ IsMemory(r) /\ r.color = m.color
      /\ r.parent = [m.parent EXCEPT ![x] = m.parent[y]]
      /\ \A t \in Sides, w \in N : r[t][w] = IF m[t][w] = y THEN x ELSE m[t][w]
      /\ \A t \in Sides, w \in Cells \ N : r[t][w] = m[t][w]
  BY DEF Replaced
<1>5. x \in Cells /\ r.right[z] \in Cells
  BY <1>1, <1>2, <1>3, <1>4 DEF IsMemory
<1>6. CASE m.parent[y] = z
  <2> DEFINE p == SetParent(m, x, y)
  <2>1. q = p
    BY <1>6 DEF Prepared, SetParent
  <2>2. /\ IsMemory(p) /\ p.color = m.color /\ p.left = m.left /\ p.right = m.right
        /\ p.parent = [m.parent EXCEPT ![x] = y]
    <3>1. IsMemory(m) /\ x \in Cells /\ y \in Cells
      BY <1>1, <1>2, <1>3, <1>5
    <3> QED BY ONLY <3>1, SetParentFields
  <2> HIDE DEF p, q
  <2>3. r.right[z] = x /\ r.left[z] = m.left[z]
    <3>1. r["right"][z] = x /\ r["left"][z] = m["left"][z]
      BY <1>3, <1>4, <1>6 DEF Sides
    <3> QED BY <3>1
  <2>4. p.parent = [r.parent EXCEPT ![x] = y]
    BY <2>2, <1>4, <1>1, <1>5 DEF IsMemory
  <2>5. \A t \in Sides : p[t] = m[t]
    <3>1. p["left"] = m["left"] /\ p["right"] = m["right"]
      BY <2>2
    <3> QED BY <3>1 DEF Sides
  <2>6. \A t \in Sides, w \in Cells \ {y, z} : p[t][w] = r[t][w]
    <3> TAKE t \in Sides, w \in Cells \ {y, z}
    <3>1. CASE w \in N
      <4>1. m[t][w] # y
        BY <1>1, <1>2, <1>3, <1>6, <3>1
      <4> QED BY <4>1, <3>1, <1>4, <2>5
    <3>2. CASE w \notin N
      BY <3>2, <1>4, <2>5
    <3> QED BY <3>1, <3>2
  <2>7. HalfDressed(r, z, y, p)
    <3>1. p.left[z] = r.left[z] /\ p.right[y] = r.right[z]
      BY <2>2, <2>3
    <3>2. p.parent = [r.parent EXCEPT ![r.right[z]] = y]
      BY <2>3, <2>4
    <3> QED BY <3>1, <3>2, <2>2, <2>6, <1>4 DEF HalfDressed
  <2> QED BY <2>1, <2>5, <2>7 DEF q
<1>7. CASE m.parent[y] # z
  <2> DEFINE c == r.right[z]
             p == [r EXCEPT !.right[y] = c, !.parent[c] = y]
  <2>1. q = p
    BY <1>7 DEF Prepared
  <2>2. /\ IsMemory(p) /\ p.color = r.color /\ p.left = r.left
        /\ p.right = [r.right EXCEPT ![y] = c]
        /\ p.parent = [r.parent EXCEPT ![c] = y]
    <3>1. IsMemory(r) /\ y \in Cells /\ c \in Cells
      BY <1>2, <1>3, <1>4, <1>5
    <3> HIDE DEF c
    <3>2. HungRight(r, y, c, p)
      BY ONLY <3>1, RightAndParent
    <3> HIDE DEF p
    <3> QED BY <3>2 DEF HungRight
  <2> HIDE DEF p, q
  <2>3. \A t \in Sides, w \in Cells : w # y => p[t][w] = r[t][w]
    <3>1. \A w \in Cells : w # y => p["left"][w] = r["left"][w] /\ p["right"][w] = r["right"][w]
      BY <2>2, <1>4 DEF IsMemory
    <3> QED BY <3>1 DEF Sides
  <2>4. p.right[y] = c
    BY <2>2, <1>2, <1>3, <1>4 DEF IsMemory
  <2>5. HalfDressed(r, z, y, p)
    <3>1. p.left[z] = r.left[z] /\ p.right[y] = r.right[z]
      BY <2>2, <2>4
    <3>2. p.parent = [r.parent EXCEPT ![r.right[z]] = y]
      BY <2>2
    <3> QED BY <3>1, <3>2, <2>2, <2>3 DEF HalfDressed
  <2>6. \A t \in Sides : p[t][z] = r[t][z]
    BY <2>3, <1>2, <1>3
  <2> HIDE DEF c
  <2>7. HalfDressed(r, z, y, q) /\ \A t \in Sides : q[t][z] \in {m[t][z], r[t][z]}
    BY <2>1, <2>5, <2>6
  <2> QED BY <2>7 DEF q
<1> QED BY <1>6, <1>7

\* q is m without z, in whose place y is now, which x has replaced; where y
\* hung its weight is missing.
PlaceTaken(m, N, H, z, y, x, q) ==
  LET p1 == m.parent[y]
      gp == IF p1 = z THEN y ELSE p1
      s  == SideOf(m, y, p1)
  IN  /\ \E K : Balanced(q, N \ {z}, K, IF Red(m, y) THEN nil ELSE gp, s)
      /\ gp \in N \ {z} /\ s \in Sides /\ q[s][gp] = x /\ q.parent[x] = gp
      /\ \A n \in N \ {z} : RedPair(q, n) => n = x /\ Red(q, x)
      /\ ~Red(q, nil) /\ x \in (N \ {z}) \cup {nil}
      /\ x # nil => Red(q, x) /\ ~Red(m, y)
      /\ q.parent[nil] \notin N \ {z} => x # nil

\* After that a black is missing where the successor was, if it was black.
LEMMA TakenIsBalanced ==
  ASSUME NEW m, NEW N, NEW D, NEW H, NEW top, Shape(m, N, D, top), Settled(m, N, H),
         NEW z \in N, NEW y, Successor(m, N, top, z, y), m.right[z] # nil,
         NEW x, x = m.right[y], NEW r, CutOut(m, N, D, H, top, y, x, r),
         NEW q, NEW m1, Dressed(r, N \ {y}, z, y, m1, q)
  PROVE  PlaceTaken(m, N, H, z, y, x, q)
<1> DEFINE M == N \ {z}
           p1 == m.parent[y]
           gp == IF p1 = z THEN y ELSE p1
           s == SideOf(m, y, p1)
           gap == IF Red(m, y) THEN nil ELSE gp
           K == [w \in M \cup {nil} |-> IF w = y THEN H[z] ELSE H[w]]
<1>1. /\ IsMemory(m) /\ N \subseteq Keys /\ nil \notin N
      /\ \A w \in N, t \in Sides : m[t][w] \in N \cup {nil}
      /\ \A w \in N, t \in Sides : m[t][w] # nil => m.parent[m[t][w]] = w
      /\ \A w \in N \ {top} : m.parent[w] \in N /\ \E t \in Sides : m[t][m.parent[w]] = w
  BY KeysAssumption DEF Shape
<1>2. (\A w \in N : w # nil /\ w \in Cells) /\ nil \in Cells
  BY <1>1 DEF Cells
<1>3. /\ y \in N /\ y # z /\ y # top /\ m.left[y] = nil /\ m.left[z] # y
      /\ x # z /\ m.parent[z] # y
      /\ m.parent[y] = z <=> m.right[z] = y
  BY DEF Successor
<1>4. /\ Shape(r, N \ {y}, UnlinkedSets(N, D, y), top)
      /\ Replaced(m, N, y, x, r)
      /\ x \in N \cup {nil} /\ x # y /\ H[x] = 0
      /\ x # nil => Red(m, x) /\ ~Red(m, y)
      /\ \A w \in N \ {y}, t \in Sides :
           H[w] = H[r[t][w]] + (IF m[t][w] = y THEN Weight(m, y) ELSE 0) + Weight(m, w)
  BY <1>3 DEF CutOut
<1>5. /\ r.color = m.color
      /\ r.parent = [m.parent EXCEPT ![x] = m.parent[y]]
      /\ \A t \in Sides, w \in N : r[t][w] = IF m[t][w] = y THEN x ELSE m[t][w]
  BY <1>4 DEF Replaced
<1>6. /\ \A t \in Sides : q[t][y] = r[t][z]
      /\ \A t \in Sides, w \in M : w # y => q[t][w] = IF r[t][w] = z THEN y ELSE r[t][w]
      /\ q.parent[y] = r.parent[z]
      /\ \A w \in M : w # y => q.parent[w] = IF r.parent[w] = z THEN y ELSE r.parent[w]
      /\ q.color = [m.color EXCEPT ![y] = m.color[z]]
      /\ q.parent[nil] = IF r.right[z] = nil THEN y ELSE r.parent[nil]
  BY <1>5 DEF Dressed, Puts
<1>7. /\ p1 \in N /\ p1 # y /\ s \in Sides /\ m[s][p1] = y
      /\ \A w \in N, t \in Sides : m[t][w] = y <=> w = p1 /\ t = s
  <2>1. Shape(m, N, D, top) /\ y \in N
    BY <1>3
  <2>2. /\ p1 \in N \cup {nil} /\ p1 # y /\ (p1 = nil <=> y = top)
        /\ s \in Sides
        /\ p1 # nil => p1 \in N /\ m[s][p1] = y /\ \A t \in Sides : m[t][p1] = y => t = s
    BY ONLY <2>1, ParentFacts
  <2>3. \A w \in N, t \in Sides : m[t][w] = y => w = p1
    BY <1>1, <1>2, <1>3
  <2> HIDE DEF p1, s
  <2> QED BY <2>2, <2>3, <1>3
<1> HIDE DEF p1, s
<1>8. \A w \in N \ {y}, t \in Sides :
        /\ r[t][w] \in (N \ {y}) \cup {nil} /\ r[t][w] # y
  BY <1>2, <1>3, <1>4 DEF Shape
<1>9. \A t \in Sides : r[t][z] # z
  <2>1. Shape(r, N \ {y}, UnlinkedSets(N, D, y), top) /\ z \in N \ {y}
    BY <1>3, <1>4
  <2> QED BY ONLY <2>1, ShapeFacts
<1>10. /\ Red(q, y) <=> Red(m, z)
       /\ \A w \in Cells : w # y => (Red(q, w) <=> Red(m, w))
  BY <1>1, <1>2, <1>3, <1>6 DEF IsMemory, Red
<1>11. gp \in M /\ gp # nil
  BY <1>2, <1>3, <1>7
<1>12. H \in [N \cup {nil} -> Nat] /\ H[nil] = 0 /\ (\A n \in N : ~RedPair(m, n)) /\ ~Red(m, nil)
  BY DEF Settled, NoGap, Balanced
<1>13. Balanced(q, M, K, gap, s)
  <2>1. K \in [M \cup {nil} -> Nat] /\ K[nil] = 0 /\ K[y] = H[z]
        /\ \A w \in M \cup {nil} : w # y => K[w] = H[w]
    BY <1>2, <1>3, <1>12
  <2> HIDE DEF K
  <2>2. \A w \in N, t \in Sides :
          (IF m[t][w] = y THEN Weight(m, y) ELSE 0) = IF w = p1 /\ t = s /\ ~Red(m, y) THEN 1 ELSE 0
    BY <1>7 DEF Weight
  <2>3. ASSUME NEW w \in M, NEW t \in Sides
        PROVE  K[w] = K[q[t][w]] + (IF w = gap /\ t = s THEN 1 ELSE 0) + Weight(q, w)
    <3>1. CASE w = y
      <4>1. H[z] = H[r[t][z]] + (IF m[t][z] = y THEN Weight(m, y) ELSE 0) + Weight(m, z)
        BY <1>3, <1>4
      <4>2. q[t][w] = r[t][z] /\ K[r[t][z]] = H[r[t][z]]
        BY <3>1, <1>3, <1>6, <1>8, <1>9, <2>1
      <4>3. Weight(q, w) = Weight(m, z)
        BY <3>1, <1>10 DEF Weight
      <4>4. (IF m[t][z] = y THEN Weight(m, y) ELSE 0) = IF w = gap /\ t = s THEN 1 ELSE 0
        BY <3>1, <2>2, <1>2, <1>3, <1>7
      <4> QED BY <4>1, <4>2, <4>3, <4>4, <2>1, <3>1
    <3>2. CASE w # y
      <4>1. H[w] = H[r[t][w]] + (IF m[t][w] = y THEN Weight(m, y) ELSE 0) + Weight(m, w)
        BY <3>2, <1>4
      <4>2. K[q[t][w]] = H[r[t][w]]
        <5>1. CASE r[t][w] = z
          BY <5>1, <3>2, <1>6, <2>1
        <5>2. CASE r[t][w] # z
          BY <5>2, <3>2, <1>6, <1>8, <2>1
        <5> QED BY <5>1, <5>2
      <4>3. Weight(q, w) = Weight(m, w)
        BY <3>2, <1>2, <1>10 DEF Weight
      <4>4. (IF m[t][w] = y THEN Weight(m, y) ELSE 0) = IF w = gap /\ t = s THEN 1 ELSE 0
        BY <3>2, <2>2, <1>2, <1>3, <1>7
      <4> QED BY <4>1, <4>2, <4>3, <4>4, <2>1, <3>2
    <3> QED BY <3>1, <3>2
  <2> HIDE DEF gap, M
  <2> QED BY <2>1, <2>3 DEF Balanced
<1> HIDE DEF K, gap
<1>14. q[s][gp] = x
  <2>1. r[s][p1] = x
    BY <1>5, <1>7
  <2>2. CASE p1 = z
    BY <2>1, <2>2, <1>6, <1>7
  <2>3. CASE p1 # z
    BY <2>1, <2>3, <1>3, <1>6, <1>7
  <2> QED BY <2>2, <2>3
<1>15. r.parent[x] = p1 /\ \A w \in Cells : w # x => r.parent[w] = m.parent[w]
  BY <1>1, <1>2, <1>4, <1>5 DEF IsMemory, p1
<1>16. r["right"][z] = IF p1 = z THEN x ELSE m["right"][z]
  <2>1. p1 = z <=> m["right"][z] = y
    BY <1>3 DEF p1
  <2> QED BY <2>1, <1>5 DEF Sides
<1>17. q.parent[x] = gp
  <2>1. CASE x = nil
    <3>1. q.parent[nil] = IF r["right"][z] = nil THEN y ELSE r.parent[nil]
      BY <1>6
    <3> QED BY <3>1, <2>1, <1>15, <1>16
  <2>2. CASE x # nil
    BY <2>2, <1>3, <1>4, <1>6, <1>15
  <2> QED BY <2>1, <2>2
<1>18. ASSUME NEW n \in M, RedPair(q, n), n # x PROVE FALSE
  <2>1. q.parent[n] # nil /\ Red(q, n) /\ Red(q, q.parent[n])
    BY <1>18 DEF RedPair
  <2>2. CASE n = y
    <3>1. q.parent[n] = m.parent[z]
      BY <2>2, <1>2, <1>3, <1>6, <1>15
    <3>2. m.parent[z] \in Cells
      BY <1>1, <1>2 DEF IsMemory
    <3> QED BY <3>1, <3>2, <2>1, <2>2, <1>3, <1>10, <1>12 DEF RedPair
  <2>3. CASE n # y
    <3>1. q.parent[n] = IF m.parent[n] = z THEN y ELSE m.parent[n]
      BY <2>3, <1>2, <1>6, <1>15, <1>18
    <3>2. m.parent[n] \in Cells /\ (Red(q, n) <=> Red(m, n))
      BY <2>3, <1>1, <1>2, <1>10 DEF IsMemory
    <3>3. m.parent[n] # y
      <4> SUFFICES ASSUME m.parent[n] = y PROVE FALSE
        OBVIOUS
      <4>1. n # top
        BY <1>2, <1>3 DEF Shape
      <4>2. PICK t \in Sides : m[t][y] = n
        BY <4>1, <1>1
      <4>3. m["left"][y] = n \/ m["right"][y] = n
        BY <4>2 DEF Sides
      <4> QED BY <4>3, <1>2, <1>3, <1>18
    <3> QED BY <3>1, <3>2, <3>3, <2>1, <1>10, <1>12 DEF RedPair
  <2> QED BY <2>2, <2>3
<1>19. x # nil => Red(q, x)
  BY <1>2, <1>4, <1>10
<1>20. ~Red(q, nil)
  BY <1>2, <1>3, <1>10, <1>12
<1>21. ASSUME NEW n \in M, RedPair(q, n) PROVE n = x /\ Red(q, x)
  BY <1>2, <1>18, <1>19, <1>21
<1>22. q.parent[nil] \notin M => x # nil
  BY <1>11, <1>17
<1>23. x \in M \cup {nil}
  BY <1>3, <1>4
<1> HIDE DEF M, gp
<1>24. /\ \E L : Balanced(q, M, L, gap, s)
       /\ gp \in M /\ s \in Sides /\ q[s][gp] = x /\ q.parent[x] = gp
       /\ \A n \in M : RedPair(q, n) => n = x /\ Red(q, x)
       /\ ~Red(q, nil) /\ x \in M \cup {nil}
       /\ x # nil => Red(q, x) /\ ~Red(m, y)
       /\ q.parent[nil] \notin M => x # nil
  BY <1>4, <1>7, <1>11, <1>13, <1>14, <1>17, <1>19, <1>20, <1>21, <1>22, <1>23
<1> QED BY <1>24 DEF PlaceTaken, M, gp, gap, p1, s

\* With y in the place of z a tree is left that a removal can go on with.
LEMMA TakenIsCut ==
  ASSUME NEW m, NEW N, NEW D, NEW H, NEW top, Tree(m, N, N, D, top),
         NEW z \in N, NEW y \in N, NEW x, NEW q, PlaceTaken(m, N, H, z, y, x, q),
         NEW E, NEW newTop, Shape(q, N \ {z}, E, newTop),
         \A t \in Sides : q[t][z] \in (N \ {z}) \cup {nil},
         \A t \in Sides, w \in Cells \ N : q[t][w] = m[t][w]
  PROVE  CutState(q, N, N \ {z}, x, newTop, m.color[y])
<1> DEFINE M == N \ {z}
           p1 == m.parent[y]
           gp == IF p1 = z THEN y ELSE p1
           s == SideOf(m, y, p1)
<1>1. /\ \E K : Balanced(q, M, K, IF Red(m, y) THEN nil ELSE gp, s)
      /\ gp \in M /\ s \in Sides /\ q[s][gp] = x /\ q.parent[x] = gp
      /\ \A n \in M : RedPair(q, n) => n = x /\ Red(q, x)
      /\ ~Red(q, nil) /\ x \in M \cup {nil}
      /\ x # nil => Red(q, x) /\ ~Red(m, y)
      /\ q.parent[nil] \notin M => x # nil
  BY DEF PlaceTaken
<1> HIDE DEF p1, gp, s
<1>2. /\ N \subseteq Keys /\ nil \notin M
      /\ Shape(q, M, E, newTop)
      /\ \A k \in Keys \ N, t \in Sides : m[t][k] = nil
  BY KeysAssumption DEF Tree, Shape
<1>3. Tree(q, N, M, E, newTop)
  <2>1. \A k \in Keys \ N, t \in Sides : q[t][k] = nil
    BY <1>2 DEF Cells
  <2>2. Inward(q, M)
    <3> SUFFICES ASSUME NEW k \in Keys, NEW t \in Sides PROVE q[t][k] \in M \cup {nil}
      BY DEF Inward
    <3>1. CASE k \in M
      BY <3>1, <1>2 DEF Shape
    <3>2. CASE k = z
      BY <3>2
    <3>3. CASE k \notin N
      BY <3>3, <2>1
    <3> QED BY <3>1, <3>2, <3>3
  <2> QED BY <1>2, <2>1, <2>2 DEF Tree
<1>4. PICK K : Balanced(q, M, K, IF Red(m, y) THEN nil ELSE gp, s)
  BY <1>1
<1>5. CASE m.color[y] = "red"
  <2>1. Red(m, y) /\ x = nil
    BY <1>1, <1>5 DEF Red
  <2>2. \A n \in M : ~RedPair(q, n)
    BY <2>1, <1>1, <1>2
  <2>3. NoGap(q, M, K)
    <3>1. Balanced(q, M, K, nil, s)
      BY <1>4, <2>1
    <3> HIDE DEF M
    <3> QED BY <3>1, <1>2, NoGapSide
  <2>4. Settled(q, M, K)
    BY <2>2, <2>3, <1>1 DEF Settled
  <2> HIDE DEF M
  <2>5. CutState(q, N, M, x, newTop, m.color[y])
    BY <1>3, <1>5, <2>4 DEF CutState
  <2> QED BY <2>5 DEF M
<1>6. CASE m.color[y] # "red"
  <2>1. Balanced(q, M, K, gp, s)
    BY <1>4, <1>6 DEF Red
  <2> HIDE DEF M
  <2>2. Lacking(q, M, K, newTop, x)
    BY <1>1, <2>1 DEF Lacking
  <2>3. RemoveState(q, M, K, newTop, x)
    BY <2>2, <1>1 DEF RemoveState
  <2>4. CutState(q, N, M, x, newTop, m.color[y])
    BY <1>3, <1>6, <2>3 DEF CutState
  <2> QED BY <2>4 DEF M
<1> QED BY <1>5, <1>6

\* Removing a node with two children keeps the invariant.
LEMMA UnlinkInnerStep ==
  ASSUME IInv, pc = "idle", NEW z \in alive, NEW keyed, UnlinkInner(z, keyed)
  PROVE  IInv'
<1> DEFINE y == NextNode(mem, z)
           x == mem.right[y]
           r == Transplant(mem, y, x)
           m1 == Prepared(mem, z, y, x)
           q == Dress(Transplant(m1, z, y), z, y)
           root == RootAfter(m1, z, y, node)
           N == alive \ {z}
           M == alive \ {y}
<1>1. /\ Idle /\ mem.left[z] # nil /\ mem.right[z] # nil
      /\ Unlinked(z, x, q, root, mem.color[y], keyed)
  BY DEF IInv, UnlinkInner, Prepared, Dress
<1>2. PICK D, H : Tree(mem, alive, alive, D, node) /\ Settled(mem, alive, H)
  BY <1>1 DEF Idle
<1>3. /\ Shape(mem, alive, D, node) /\ alive \subseteq Keys /\ nil \notin alive
      /\ IsMemory(mem) /\ Inward(mem, alive) /\ \A t \in Sides : mem[t][z] # z
  <2>1. Shape(mem, alive, D, node) /\ Inward(mem, alive) /\ alive \subseteq Keys
    BY <1>2 DEF Tree
  <2>2. \A t \in Sides : mem[t][z] # z
    BY ONLY <2>1, z \in alive, ShapeFacts
  <2> QED BY <2>1, <2>2, KeysAssumption DEF Shape
<1>4. Successor(mem, alive, node, z, y)
  <2>1. Shape(mem, alive, D, node) /\ Inward(mem, alive) /\ z \in alive /\ mem.right[z] # nil
    BY <1>1, <1>3
  <2>2. Successor(mem, alive, node, z, NextNode(mem, z))
    BY ONLY <2>1, SuccessorIs
  <2> QED BY <2>2
<1> HIDE DEF y, r, m1, q, root
<1>5. /\ y \in alive /\ y # z /\ y # node /\ mem.left[y] = nil /\ mem.left[z] # y
      /\ x # z /\ SameOrder(M, z, y)
  BY <1>4 DEF Successor
<1>6. CutOut(mem, alive, D, H, node, y, x, r)
  <2>1. /\ Tree(mem, alive, alive, D, node) /\ Settled(mem, alive, H) /\ y \in alive
        /\ "right" \in Sides /\ mem[Opposite["right"]][y] = nil
    BY <1>2, <1>5 DEF Sides, Opposite
  <2>2. CutOut(mem, alive, D, H, node, y, mem["right"][y], Transplant(mem, y, mem["right"][y]))
    BY ONLY <2>1, CutFacts
  <2> QED BY <2>2 DEF r
<1>7. /\ Shape(r, M, UnlinkedSets(alive, D, y), node)
      /\ Replaced(mem, alive, y, x, r) /\ x \in alive \cup {nil} /\ x # y
  BY <1>5, <1>6 DEF CutOut
<1>8. HalfDressed(r, z, y, m1) /\ \A t \in Sides : m1[t][z] \in {mem[t][z], r[t][z]}
  <2>1. /\ Shape(mem, alive, D, node) /\ z \in alive /\ Successor(mem, alive, node, z, y)
        /\ x = mem.right[y] /\ r = Transplant(mem, y, x) /\ Replaced(mem, alive, y, x, r)
    BY <1>3, <1>4, <1>7 DEF r
  <2> HIDE DEF x
  <2>2. HalfDressed(r, z, y, Prepared(mem, z, y, x)) /\ \A t \in Sides : Prepared(mem, z, y, x)[t][z] \in {mem[t][z], r[t][z]}
    BY ONLY <2>1, PreparedIsHalfDressed
  <2> QED BY <2>2 DEF m1
<1> HIDE DEF x
<1>9. z \in M /\ y \in Keys \ M /\ (M \ {z}) \cup {y} = N /\ z \in Cells /\ y \in Cells /\ nil \in Cells
  BY <1>3, <1>5 DEF Cells
<1>10. r.left[z] = mem.left[z]
  <2>1. r["left"][z] = mem["left"][z]
    BY <1>5, <1>7 DEF Replaced, Sides
  <2> QED BY <2>1
<1>11. Dressed(r, M, z, y, m1, q)
  <2>1. /\ Shape(r, M, UnlinkedSets(alive, D, y), node) /\ z \in M /\ y \in Keys \ M
        /\ r.left[z] # nil /\ HalfDressed(r, z, y, m1)
    BY <1>1, <1>7, <1>8, <1>9, <1>10
  <2> HIDE DEF M
  <2>2. Dressed(r, M, z, y, m1, Dress(Transplant(m1, z, y), z, y))
    BY ONLY <2>1, TakePlace
  <2> QED BY <2>2 DEF q
<1> DEFINE E == PutSets(M, UnlinkedSets(alive, D, y), z, y)
           top == IF z = node THEN y ELSE node
<1>12. Shape(q, N, E, top)
  <2>1. /\ Shape(r, M, UnlinkedSets(alive, D, y), node) /\ z \in M /\ y \in Keys \ M
        /\ SameOrder(M, z, y) /\ Puts(r, M, z, y, q)
    BY <1>5, <1>7, <1>9, <1>11 DEF Dressed
  <2> HIDE DEF M, N
  <2>2. Shape(q, (M \ {z}) \cup {y}, E, top)
    <3>1. CASE z = node
      <4>1. Shape(q, (M \ {z}) \cup {y}, E, y)
        BY ONLY <2>1, <3>1, PutShape
      <4> QED BY <3>1, <4>1
    <3>2. CASE z # node
      <4>1. Shape(q, (M \ {z}) \cup {y}, E, node)
        BY ONLY <2>1, <3>2, PutShape
      <4> QED BY <3>2, <4>1
    <3> QED BY <3>1, <3>2
  <2> QED BY <2>2, <1>9
<1> HIDE DEF E
<1>13. \A t \in Sides : r[t][z] # z /\ r[t][z] \in M \cup {nil}
  <2>1. Shape(r, M, UnlinkedSets(alive, D, y), node) /\ z \in M
    BY <1>7, <1>9
  <2> HIDE DEF M
  <2>2. \A t \in Sides : r[t][z] # z
    BY ONLY <2>1, ShapeFacts
  <2> QED BY <2>1, <2>2 DEF Shape
<1>14. root = top
  <2>1. m1.parent = [r.parent EXCEPT ![r.right[z]] = y] /\ r.parent = [mem.parent EXCEPT ![x] = mem.parent[y]]
    BY <1>7, <1>8 DEF HalfDressed, Replaced
  <2>2. r["right"][z] # z
    BY <1>13 DEF Sides
  <2>3. m1.parent[z] = mem.parent[z]
    BY <2>1, <2>2, <1>3, <1>5, <1>9 DEF IsMemory
  <2>4. mem.parent[z] = nil <=> z = node
    <3>1. Shape(mem, alive, D, node) /\ z \in alive
      BY <1>3
    <3> QED BY ONLY <3>1, ParentFacts
  <2> QED BY <2>3, <2>4 DEF root, RootAfter
<1>15. PlaceTaken(mem, alive, H, z, y, x, q)
  <2>1. /\ Shape(mem, alive, D, node) /\ Settled(mem, alive, H) /\ z \in alive
        /\ Successor(mem, alive, node, z, y) /\ mem.right[z] # nil
        /\ x = mem.right[y] /\ CutOut(mem, alive, D, H, node, y, x, r)
        /\ Dressed(r, alive \ {y}, z, y, m1, q)
    BY <1>1, <1>2, <1>3, <1>4, <1>6, <1>11 DEF x
  <2> QED BY ONLY <2>1, TakenIsBalanced
<1>16. \A t \in Sides : q[t][z] \in N \cup {nil}
  <2>1. \A t \in Sides : q[t][z] = m1[t][z]
    BY <1>11 DEF Dressed
  <2>2. \A t \in Sides : mem[t][z] \in N \cup {nil}
    BY <1>3 DEF Shape
  <2> QED BY <2>1, <2>2, <1>8, <1>13
<1>17. \A t \in Sides, w \in Cells \ alive : q[t][w] = mem[t][w]
  <2>1. M \cup {y} = alive
    BY <1>5
  <2>2. \A t \in Sides, w \in Cells \ alive : q[t][w] = r[t][w]
    BY <2>1, <1>11 DEF Dressed
  <2> QED BY <2>2, <1>7 DEF Replaced
<1>18. CutState(q, alive, N, x, top, mem.color[y])
  <2>1. /\ Tree(mem, alive, alive, D, node) /\ z \in alive /\ y \in alive
        /\ PlaceTaken(mem, alive, H, z, y, x, q) /\ Shape(q, alive \ {z}, E, top)
        /\ \A t \in Sides : q[t][z] \in (alive \ {z}) \cup {nil}
        /\ \A t \in Sides, w \in Cells \ alive : q[t][w] = mem[t][w]
    BY <1>2, <1>5, <1>12, <1>15, <1>16, <1>17
  <2> HIDE DEF top
  <2> QED BY ONLY <2>1, TakenIsCut DEF N
<1>19. CutState(q, alive, alive \ {z}, x, root, mem.color[y])
  BY <1>14, <1>18
<1> QED
  <2>1. Idle /\ pc = "idle" /\ z \in alive /\ Unlinked(z, x, q, root, mem.color[y], keyed)
    BY <1>1 DEF x
  <2> QED BY ONLY <2>1, <1>19, UnlinkedStep

-----------------------------------------------------------------------------
(* Removal: the turns of the repair.                                       *)

\* A removal of a node of the tree keeps the invariant.
LEMMA RemoveBaseStep ==
  ASSUME IInv, NEW z \in alive, NEW keyed, RemoveBase(z, keyed)
  PROVE  IInv'
<1>1. pc = "idle" /\ "left" \in Sides /\ "right" \in Sides
  BY DEF RemoveBase, Sides
<1>2. ASSUME NEW side \in Sides, UnlinkShort(z, side, keyed) PROVE IInv'
  BY <1>1, <1>2, UnlinkShortStep
<1>3. ASSUME UnlinkInner(z, keyed) PROVE IInv'
  BY <1>1, <1>3, UnlinkInnerStep
<1> QED BY <1>1, <1>2, <1>3 DEF RemoveBase

\* A tree that lacks a black at x.
Lame(m, A, N, x) ==
  \E D, H, top : Tree(m, A, N, D, top) /\ RemoveState(m, N, H, top, x)

\* A turn of the loop that leaves such a tree keeps the invariant.
LEMMA RemovingStep ==
  ASSUME Removing, Lame(mem', alive, alive \ {victim}, cursor'),
         UNCHANGED <<alive, node, begin, tail, size, victim>>, pc' = "remove"
  PROVE  IInv'
<1>1. PICK D, H, top : /\ Tree(mem', alive, alive \ {victim}, D, top)
                       /\ RemoveState(mem', alive \ {victim}, H, top, cursor')
  BY DEF Lame
<1>2. /\ victim \in alive
      /\ IF alive \ {victim} = {} THEN node = nil ELSE node \in alive \ {victim}
      /\ Counters(alive \ {victim}, size, begin, tail)
  BY DEF Removing
<1>3. /\ Tree(mem', alive', alive' \ {victim'}, D, top)
      /\ RemoveState(mem', alive' \ {victim'}, H, top, cursor')
      /\ victim' \in alive'
      /\ IF alive' \ {victim'} = {} THEN node' = nil ELSE node' \in alive' \ {victim'}
      /\ Counters(alive' \ {victim'}, size', begin', tail')
  BY <1>1, <1>2
<1>4. Removing'
  BY <1>3 DEF Removing
<1> QED BY <1>4 DEF IInv

\* Nothing is wrong with the colours but the black that x lacks.
Calm(m, N, x) ==
  /\ x \in N \cup {nil} /\ ~Red(m, x) /\ ~Red(m, nil)
  /\ \A n \in N : ~RedPair(m, n)
  /\ N # {} => m.parent[nil] \in N

\* x hangs from p on side s, where a black is missing; w is its sibling.
GapAt(m, N, H, x, p, s, w) ==
  /\ p \in N /\ m.parent[x] \in {p} /\ p # nil
  /\ s \in Sides /\ s = SideOf(m, x, p) /\ m[s][p] \in {x}
  /\ Balanced(m, N, H, p, s)
  /\ m[Opposite[s]][p] \in {w} /\ w \in N /\ w # nil /\ w # x /\ w # p /\ x # p
  /\ m.parent[w] \in {p} /\ H[w] = H[x] + 1
  /\ Calm(m, N, x)

\* While x is black it is the root or has a sibling, higher by one.
LEMMA WhereTheGapIs ==
  ASSUME NEW m, NEW A, NEW N, NEW D, NEW H, NEW top, Tree(m, A, N, D, top),
         NEW x, RemoveState(m, N, H, top, x), ~Red(m, x)
  PROVE  \/ m.parent[x] = nil /\ x = top /\ NoGap(m, N, H) /\ Calm(m, N, x)
         \/ GapAt(m, N, H, x, m.parent[x], SideOf(m, x, m.parent[x]),
                  m[Opposite[SideOf(m, x, m.parent[x])]][m.parent[x]])
<1> DEFINE p == m.parent[x]
           s == SideOf(m, x, p)
           o == Opposite[s]
           w == m[o][p]
<1>1. /\ Shape(m, N, D, top) /\ N \subseteq Keys /\ nil \notin N
      /\ \A n \in N, t \in Sides : m[t][n] \in N \cup {nil}
      /\ \A n \in N, t \in Sides : m[t][n] # nil => m.parent[m[t][n]] = n
  BY KeysAssumption DEF Tree, Shape
<1>2. /\ x \in N \cup {nil} /\ Lacking(m, N, H, top, x)
      /\ \A n \in N : ~RedPair(m, n)
      /\ N # {} => m.parent[nil] \in N
  BY DEF RemoveState
<1> HIDE DEF p, s
<1>3. CASE ~Red(m, nil) /\ p = nil /\ x = top /\ NoGap(m, N, H)
  BY <1>2, <1>3 DEF Calm, p
<1>4. CASE /\ ~Red(m, nil) /\ p \in N
           /\ \E t \in Sides : m[t][p] = x /\ Balanced(m, N, H, p, t)
  <2>1. PICK t \in Sides : m[t][p] \in {x} /\ Balanced(m, N, H, p, t)
    BY <1>4
  <2>2. /\ H \in [N \cup {nil} -> Nat] /\ H[nil] = 0
        /\ H[p] = H[m[t][p]] + 1 + Weight(m, p)
        /\ H[p] = H[m[Opposite[t]][p]] + 0 + Weight(m, p)
        /\ Opposite[t] \in Sides /\ Opposite[t] # t
    BY <2>1, <1>4, OppositeSide DEF Balanced
  <2>3. H[m[Opposite[t]][p]] = H[x] + 1 /\ H[x] \in Nat
    <3>1. H[x] \in Nat /\ H[m[Opposite[t]][p]] \in Nat /\ Weight(m, p) \in {0, 1}
      BY <2>2, <1>1, <1>2, <1>4, WeightIs
    <3>2. H[x] + 1 + Weight(m, p) = H[m[Opposite[t]][p]] + 0 + Weight(m, p)
      BY <2>1, <2>2
    <3> QED BY <3>1, <3>2
  <2>4. m[Opposite[t]][p] # x
    <3>1. H[x] # H[x] + 1
      BY <2>3
    <3> QED BY <3>1, <2>3
  <2>5. s = t
    <3>1. t = "left" => m["left"][p] = x
      BY <2>1
    <3>2. t # "left" => t = "right" /\ Opposite[t] = "left"
      BY DEF Sides, Opposite
    <3>3. t # "left" => m["left"][p] # x
      BY <3>2, <2>4
    <3> QED BY <3>1, <3>2, <3>3 DEF s, SideOf
  <2>6. w \in N \cup {nil} /\ w # x /\ H[w] = H[x] + 1
    BY <2>2, <2>3, <2>4, <2>5, <1>1, <1>4
  <2>7. w # nil
    BY <2>6, <2>2, <2>3
  <2>8. m.parent[w] \in {p}
    BY <2>2, <2>5, <2>7, <1>1, <1>4
  <2>9. w # p /\ x # p
    <3>1. \A u \in Sides : m[u][p] # p
      BY <1>1, <1>4, ShapeFacts
    <3> QED BY <3>1, <2>1, <2>2, <2>5
  <2>10. Calm(m, N, x)
    BY <1>2, <1>4 DEF Calm
  <2>11. p # nil
    BY <1>1, <1>4
  <2> HIDE DEF w, o
  <2>12. p = m.parent[x] /\ s = SideOf(m, x, p) /\ m[Opposite[s]][p] \in {w}
    BY DEF p, s, w, o
  <2>13. GapAt(m, N, H, x, p, s, w)
    BY <2>1, <2>5, <2>6, <2>7, <2>8, <2>9, <2>10, <2>11, <2>12, <1>4 DEF GapAt
  <2> QED BY <2>13 DEF p, s, w, o
<1> QED BY <1>2, <1>3, <1>4 DEF Lacking, p

\* Balance is a matter of links and colours.
LEMMA SameBalance ==
  ASSUME NEW m, NEW N, NEW H, NEW gp, NEW gs, Balanced(m, N, H, gp, gs),
         NEW r, \A n \in N : Red(r, n) <=> Red(m, n), \A s \in Sides : r[s] = m[s]
  PROVE  Balanced(r, N, H, gp, gs)
BY DEF Balanced, Weight

\* No node is a child of a node that is below it.
LEMMA NoCycle ==
  ASSUME NEW m, NEW N, NEW D, NEW top, Shape(m, N, D, top),
         NEW p \in N, NEW w \in N, w # p, m.parent[w] = p
  PROVE  /\ m.parent[p] # w
         /\ \A t \in Sides : m[t][w] # p
<1>0. /\ nil \notin N /\ (top \in N => m.parent[top] = nil)
      /\ \A n \in N, t \in Sides : m[t][n] # nil => m.parent[m[t][n]] = n
      /\ \A n \in N \ {top} : m.parent[n] \in N /\ \E t \in Sides : m[t][m.parent[n]] = n
  BY KeysAssumption DEF Shape
<1>1. w # top
  BY <1>0
<1>2. PICK u \in Sides : m[u][p] = w
  BY <1>0, <1>1
<1>3. p \notin D[w]
  BY <1>2, ShapeFacts
<1>4. \A t \in Sides : m[t][w] # p
  <2> SUFFICES ASSUME NEW t \in Sides, m[t][w] = p PROVE FALSE
    OBVIOUS
  <2>1. p \in D[p]
    BY ShapeFacts
  <2>2. D[m[t][w]] \subseteq D[w]
    BY ShapeFacts
  <2> QED BY <2>1, <2>2, <1>3
<1>5. m.parent[p] # w
  <2> SUFFICES ASSUME m.parent[p] = w PROVE FALSE
    OBVIOUS
  <2>1. p # top
    BY <1>0
  <2> QED BY <2>1, <1>0, <1>4
<1> QED BY <1>4, <1>5

\* With no red near it the sibling is painted red, and the gap climbs.
LEMMA ClimbTurn ==
  ASSUME NEW m, NEW A, NEW N, NEW D, NEW H, NEW top, Tree(m, A, N, D, top),
         NEW x, NEW p, NEW s, NEW w, GapAt(m, N, H, x, p, s, w),
         ~Red(m, w), ~Red(m, m[s][w]), ~Red(m, m[Opposite[s]][w])
  PROVE  Lame(Paint(m, w, "red"), A, N, p)
<1> DEFINE r == Paint(m, w, "red")
           pp == m.parent[p]
           sp == SideOf(m, p, pp)
           K == [u \in N \cup {nil} |-> IF u \in {w, p} THEN H[u] - 1 ELSE H[u]]
<1>1. /\ p \in N /\ m.parent[x] \in {p} /\ p # nil
      /\ s \in Sides /\ m[s][p] \in {x}
      /\ Balanced(m, N, H, p, s)
      /\ m[Opposite[s]][p] \in {w} /\ w \in N /\ w # nil /\ w # x /\ w # p /\ x # p
      /\ m.parent[w] \in {p} /\ H[w] = H[x] + 1
      /\ x \in N \cup {nil} /\ ~Red(m, x) /\ ~Red(m, nil)
      /\ \A n \in N : ~RedPair(m, n)
      /\ N # {} => m.parent[nil] \in N
  BY DEF GapAt, Calm
<1>2. /\ Shape(m, N, D, top) /\ N \subseteq Keys /\ nil \notin N
      /\ \A n \in N, t \in Sides : m[t][n] \in N \cup {nil}
      /\ \A n \in N, t \in Sides : m[t][n] # nil => m.parent[m[t][n]] = n
      /\ \A n \in N \ {top} : \E t \in Sides : m[t][m.parent[n]] = n
      /\ top \in N => m.parent[top] = nil
  BY KeysAssumption DEF Tree, Shape
<1>3. (\A n \in N : n \in Cells) /\ nil \in Cells
  BY <1>2 DEF Cells
<1>4. /\ Tree(r, A, N, D, top) /\ r.parent = m.parent
      /\ \A t \in Sides : r[t] = m[t]
      /\ \A y \in Cells : Red(r, y) <=> y = w \/ Red(m, y)
  <2>1. Tree(m, A, N, D, top) /\ w \in Cells /\ "red" \in {"red", "black"}
    BY <1>1, <1>3
  <2>2. /\ Tree(r, A, N, D, top) /\ r.parent = m.parent
        /\ \A t \in Sides : r[t] = m[t]
        /\ \A y \in Cells : Red(r, y) <=> IF y = w THEN "red" = "red" ELSE Red(m, y)
    BY ONLY <2>1, PaintTree
  <2> HIDE DEF r
  <2> QED BY <2>2
<1>5. /\ pp \in N \cup {nil} /\ pp # p /\ (pp = nil <=> p = top)
      /\ sp \in Sides
      /\ pp # nil => pp \in N /\ m[sp][pp] = p
      /\ \A n \in N, t \in Sides : m[t][n] = p <=> n = pp /\ t = sp
  <2>1. Shape(m, N, D, top) /\ p \in N
    BY <1>1, <1>2
  <2>2. /\ pp \in N \cup {nil} /\ pp # p /\ (pp = nil <=> p = top)
        /\ sp \in Sides
        /\ pp # nil => pp \in N /\ m[sp][pp] = p /\ \A t \in Sides : m[t][pp] = p => t = sp
    BY ONLY <2>1, ParentFacts
  <2>3. \A n \in N, t \in Sides : m[t][n] = p => n = pp
    BY <1>1, <1>2
  <2> HIDE DEF pp, sp
  <2> QED BY <2>2, <2>3, <1>2
<1> HIDE DEF r
<1>6. pp # w /\ \A t \in Sides : m[t][w] # p /\ m[t][w] # w
  <2>1. Shape(m, N, D, top) /\ p \in N /\ w \in N /\ w # p /\ m.parent[w] \in {p}
    BY <1>1, <1>2
  <2>2. m.parent[p] # w /\ \A t \in Sides : m[t][w] # p
    BY ONLY <2>1, NoCycle
  <2>3. \A t \in Sides : m[t][w] # w
    BY ONLY <2>1, ShapeFacts
  <2> QED BY <2>2, <2>3
<1> HIDE DEF pp, sp
<1>7. /\ H \in [N \cup {nil} -> Nat] /\ H[nil] = 0
      /\ \A n \in N, t \in Sides :
           H[n] = H[m[t][n]] + (IF n = p /\ t = s THEN 1 ELSE 0) + Weight(m, n)
  BY <1>1 DEF Balanced
<1>8. \A n : Weight(m, n) \in {0, 1}
  BY WeightIs
<1>9. H[x] \in Nat /\ H[p] = H[x] + 1 + Weight(m, p) /\ H[p] \in Nat
  BY <1>1, <1>7
<1>10. /\ K \in [N \cup {nil} -> Nat] /\ K[nil] = 0
       /\ K[w] = H[w] - 1 /\ K[p] = H[p] - 1 /\ H[w] \in Nat /\ H[w] - 1 \in Nat /\ H[p] - 1 \in Nat
       /\ \A u \in N \cup {nil} : u \notin {w, p} => K[u] = H[u]
  <2>1. H[w] - 1 \in Nat /\ H[p] - 1 \in Nat /\ H[w] \in Nat
    BY <1>1, <1>8, <1>9
  <2>2. \A u \in N \cup {nil} : (IF u \in {w, p} THEN H[u] - 1 ELSE H[u]) \in Nat
    BY <2>1, <1>7
  <2> QED BY <2>1, <2>2, <1>1, <1>2, <1>7
<1> HIDE DEF K
<1>11. Balanced(r, N, K, pp, sp)
  <2>1. ASSUME NEW n \in N, NEW t \in Sides
        PROVE  K[n] = K[m[t][n]] + (IF n = pp /\ t = sp THEN 1 ELSE 0) + Weight(r, n)
    <3>0. m[t][n] \in N \cup {nil} /\ H[m[t][n]] \in Nat
      BY <1>2, <1>7
    <3>1. CASE n = w
      <4>1. H[w] = H[m[t][w]] + 1
        <5>1. Weight(m, w) = 1
          BY WeightIs
        <5>2. H[w] = H[m[t][w]] + (IF w = p /\ t = s THEN 1 ELSE 0) + Weight(m, w)
          BY <1>1, <1>7
        <5>3. H[m[t][w]] \in Nat
          BY <3>0, <3>1
        <5>4. w # p
          BY <1>1
        <5>5. H[w] = H[m[t][w]] + 0 + 1
          BY <5>1, <5>2, <5>4
        <5> QED BY <5>3, <5>5
      <4>2. K[m[t][w]] = H[m[t][w]]
        BY <3>0, <3>1, <1>6, <1>10
      <4>3. Weight(r, w) = 0
        BY <1>1, <1>3, <1>4 DEF Weight
      <4> QED BY <4>1, <4>2, <4>3, <3>0, <3>1, <1>6, <1>10
    <3>2. CASE n = p /\ t = s
      <4>1. Weight(r, p) = Weight(m, p)
        BY <1>1, <1>3, <1>4 DEF Weight
      <4>2. K[x] = H[x]
        BY <1>1, <1>10
      <4> QED BY <4>1, <4>2, <3>2, <1>1, <1>5, <1>8, <1>9, <1>10
    <3>3. CASE n = p /\ t # s
      <4>1. Weight(r, p) = Weight(m, p)
        BY <1>1, <1>3, <1>4 DEF Weight
      <4>2. m[t][n] \in {w}
        BY <3>3, <1>1, TwoSides
      <4>3. H[p] = H[w] + Weight(m, p)
        BY <4>2, <3>3, <1>7, <1>8, <1>10
      <4> QED BY <4>1, <4>2, <4>3, <3>3, <1>5, <1>8, <1>10
    <3>4. CASE n # w /\ n # p
      <4>1. Weight(r, n) = Weight(m, n)
        BY <3>4, <1>3, <1>4 DEF Weight
      <4>2. H[n] = H[m[t][n]] + Weight(m, n) /\ K[n] = H[n]
        BY <3>0, <3>4, <1>7, <1>8, <1>10
      <4>3. m[t][n] # w
        BY <3>4, <1>1, <1>2
      <4>4. CASE m[t][n] = p
        <5>1. n = pp /\ t = sp /\ K[m[t][n]] = H[m[t][n]] - 1
          BY <4>4, <1>5, <1>10
        <5> QED BY <5>1, <4>1, <4>2, <3>0, <1>8
      <4>5. CASE m[t][n] # p
        BY <4>1, <4>2, <4>3, <4>5, <3>0, <1>5, <1>8, <1>10
      <4> QED BY <4>4, <4>5
    <3> QED BY <3>1, <3>2, <3>3, <3>4
  <2> QED BY <2>1, <1>4, <1>10 DEF Balanced
<1>12. ~Red(r, nil)
  BY <1>1, <1>3, <1>4
<1>13. Lacking(r, N, K, top, p)
  <2>1. CASE pp = nil
    <3>1. NoGap(r, N, K)
      BY <2>1, <1>2, <1>11, NoGapSide
    <3> QED BY <2>1, <3>1, <1>4, <1>5, <1>12 DEF Lacking, pp
  <2>2. CASE pp # nil
    <3>1. r.parent[p] \in {pp} /\ r.parent[p] \in N /\ r[sp][pp] = p
      BY <2>2, <1>4, <1>5 DEF pp
    <3> QED BY <3>1, <1>5, <1>11, <1>12 DEF Lacking
  <2> QED BY <2>1, <2>2
<1>14. ASSUME NEW n \in N, RedPair(r, n) PROVE Red(r, p) /\ p \in {n, r.parent[n]}
  <2>1. r.parent[n] = m.parent[n] /\ m.parent[n] # nil /\ Red(r, n) /\ Red(r, m.parent[n])
    BY <1>4, <1>14 DEF RedPair
  <2>2. CASE n = w
    BY <2>1, <2>2, <1>1
  <2>3. CASE n # w
    <3>1. n # top
      BY <2>1, <1>2
    <3>2. PICK t \in Sides : m[t][m.parent[n]] = n
      BY <3>1, <1>2
    <3>3. Red(m, n)
      BY <2>1, <2>3, <1>3, <1>4
    <3>4. m.parent[n] # w
      <4> SUFFICES ASSUME m.parent[n] = w PROVE FALSE
        OBVIOUS
      <4>1. t = s \/ t = Opposite[s]
        BY <1>1, TwoSides
      <4> QED BY <4>1, <3>2, <3>3
    <3>5. m.parent[n] \in Cells
      BY <3>1, <1>2, <1>3 DEF Shape
    <3> QED BY <2>1, <3>3, <3>4, <3>5, <1>1, <1>4 DEF RedPair
  <2> QED BY <2>2, <2>3
<1>15. RemoveState(r, N, K, top, p)
  BY <1>1, <1>4, <1>13, <1>14 DEF RemoveState
<1>16. Lame(r, A, N, p)
  BY <1>4, <1>15 DEF Lame
<1> QED BY <1>16 DEF r

\* Above the root the gap is gone, and nil is red.
LEMMA TopTurn ==
  ASSUME NEW m, NEW A, NEW N, NEW D, NEW H, NEW top, Tree(m, A, N, D, top),
         NEW x, NoGap(m, N, H), Calm(m, N, x)
  PROVE  Lame(Paint(m, nil, "red"), A, N, nil)
<1> DEFINE r == Paint(m, nil, "red")
<1>1. nil \notin N /\ N \subseteq Keys
  BY KeysAssumption DEF Tree
<1>2. /\ Tree(r, A, N, D, top) /\ r.parent = m.parent
      /\ \A t \in Sides : r[t] = m[t]
      /\ \A y \in Cells : Red(r, y) <=> y = nil \/ Red(m, y)
  <2>1. Tree(m, A, N, D, top) /\ nil \in Cells /\ "red" \in {"red", "black"}
    BY DEF Cells
  <2>2. /\ Tree(r, A, N, D, top) /\ r.parent = m.parent
        /\ \A t \in Sides : r[t] = m[t]
        /\ \A y \in Cells : Red(r, y) <=> IF y = nil THEN "red" = "red" ELSE Red(m, y)
    BY ONLY <2>1, PaintTree
  <2> HIDE DEF r
  <2> QED BY <2>2
<1> HIDE DEF r
<1>3. \A n \in N : n \in Cells /\ n # nil
  BY <1>1 DEF Cells
<1>4. NoGap(r, N, H)
  <2>1. \A n \in N : Red(r, n) <=> Red(m, n)
    BY <1>2, <1>3
  <2> QED BY <2>1, <1>2, SameBalance DEF NoGap
<1>5. ASSUME NEW n \in N PROVE ~RedPair(r, n)
  <2>1. m.parent[n] \in Cells
    BY <1>3 DEF Tree, Shape, IsMemory
  <2> QED BY <2>1, <1>2, <1>3 DEF RedPair, Calm
<1>6. Red(r, nil)
  BY <1>2 DEF Cells
<1>7. RemoveState(r, N, H, top, nil)
  BY <1>2, <1>4, <1>5, <1>6 DEF RemoveState, Lacking, Calm
<1>8. Lame(r, A, N, nil)
  BY <1>2, <1>7 DEF Lame
<1> QED BY <1>8 DEF r

\* r is the tree m with a painted c and then b painted d.
Repainted(m, A, N, D, top, a, c, b, d, r) ==
  /\ Tree(r, A, N, D, top)
  /\ r.parent = m.parent /\ \A t \in Sides : r[t] = m[t]
  /\ \A y \in Cells :
       Red(r, y) <=> IF y = b THEN d = "red" ELSE IF y = a THEN c = "red" ELSE Red(m, y)

\* r is the tree m with a painted c.
Painted(m, A, N, D, top, a, c, r) ==
  /\ Tree(r, A, N, D, top)
  /\ r.parent = m.parent /\ \A t \in Sides : r[t] = m[t]
  /\ \A y \in Cells : Red(r, y) <=> IF y = a THEN c = "red" ELSE Red(m, y)

\* Painting a node leaves the tree as it is.
LEMMA PaintOne ==
  ASSUME NEW m, NEW A, NEW N, NEW D, NEW top, Tree(m, A, N, D, top),
         NEW a \in Cells, NEW c \in {"red", "black"}
  PROVE  Painted(m, A, N, D, top, a, c, Paint(m, a, c))
<1> DEFINE r == Paint(m, a, c)
<1>1. /\ Tree(r, A, N, D, top) /\ r.parent = m.parent
      /\ \A t \in Sides : r[t] = m[t]
      /\ \A y \in Cells : Red(r, y) <=> IF y = a THEN c = "red" ELSE Red(m, y)
  <2>0. Tree(m, A, N, D, top) /\ a \in Cells
    OBVIOUS
  <2>1. CASE c = "red"
    <3> DEFINE q == Paint(m, a, "red")
    <3>1. /\ Tree(q, A, N, D, top) /\ q.parent = m.parent
          /\ \A t \in Sides : q[t] = m[t]
          /\ \A y \in Cells : Red(q, y) <=> IF y = a THEN TRUE ELSE Red(m, y)
      BY ONLY <2>0, PaintTree
    <3>2. r = q
      BY <2>1
    <3> HIDE DEF q, r
    <3> QED BY <3>1, <3>2, <2>1
  <2>2. CASE c = "black"
    <3> DEFINE q == Paint(m, a, "black")
    <3>1. /\ Tree(q, A, N, D, top) /\ q.parent = m.parent
          /\ \A t \in Sides : q[t] = m[t]
          /\ \A y \in Cells : Red(q, y) <=> IF y = a THEN FALSE ELSE Red(m, y)
      BY ONLY <2>0, PaintTree
    <3>2. r = q
      BY <2>2
    <3> HIDE DEF q, r
    <3> QED BY <3>1, <3>2, <2>2
  <2> QED BY <2>1, <2>2
<1> HIDE DEF r
<1>2. Painted(m, A, N, D, top, a, c, r)
  BY <1>1 DEF Painted
<1> QED BY <1>2 DEF r

\* Painting two nodes leaves the tree as it is.
LEMMA PaintTwo ==
  ASSUME NEW m, NEW A, NEW N, NEW D, NEW top, Tree(m, A, N, D, top),
         NEW a \in Cells, NEW c \in {"red", "black"}, NEW b \in Cells, NEW d \in {"red", "black"}
  PROVE  Repainted(m, A, N, D, top, a, c, b, d, Paint(Paint(m, a, c), b, d))
<1> DEFINE q == Paint(m, a, c)
           r == Paint(q, b, d)
<1>1. Painted(m, A, N, D, top, a, c, q)
  BY PaintOne
<1> HIDE DEF q
<1>2. Painted(q, A, N, D, top, b, d, r)
  <2>1. Tree(q, A, N, D, top) /\ b \in Cells /\ d \in {"red", "black"}
    BY <1>1 DEF Painted
  <2> QED BY ONLY <2>1, PaintOne
<1> HIDE DEF r
<1>3. Repainted(m, A, N, D, top, a, c, b, d, r)
  BY <1>1, <1>2 DEF Repainted, Painted
<1> QED BY <1>3 DEF r, q

\* A red sibling is black when it has come up, and there is a new one.
LEMMA RedSiblingTurn ==
  ASSUME NEW m, NEW A, NEW N, NEW D, NEW H, NEW top, Tree(m, A, N, D, top),
         NEW x, NEW p, NEW s, NEW w, GapAt(m, N, H, x, p, s, w), Red(m, w)
  PROVE  Lame(Rotate(Paint(Paint(m, w, "black"), p, "red"), p, s), A, N, x)
<1> DEFINE o == Opposite[s]
           m2 == Paint(Paint(m, w, "black"), p, "red")
           r == Rotate(m2, p, s)
           near == m[s][w]
           far == m[o][w]
           K == [u \in N \cup {nil} |-> IF u = w THEN H[p] ELSE IF u = p THEN H[w] ELSE H[u]]
<1>1. /\ p \in N /\ m.parent[x] \in {p} /\ p # nil
      /\ s \in Sides /\ m[s][p] \in {x}
      /\ Balanced(m, N, H, p, s)
      /\ m[o][p] \in {w} /\ w \in N /\ w # nil /\ w # x /\ w # p /\ x # p
      /\ m.parent[w] \in {p} /\ H[w] = H[x] + 1
      /\ x \in N \cup {nil} /\ ~Red(m, x) /\ ~Red(m, nil)
      /\ \A n \in N : ~RedPair(m, n)
      /\ N # {} => m.parent[nil] \in N
  BY DEF GapAt, Calm
<1>2. /\ N \subseteq Keys /\ nil \notin N
      /\ \A n \in N, t \in Sides : m[t][n] \in N \cup {nil}
      /\ \A n \in N, t \in Sides : m[t][n] # nil => m.parent[m[t][n]] = n
      /\ \A n \in N \ {top} : \E t \in Sides : m[t][m.parent[n]] = n
      /\ top \in N => m.parent[top] = nil
      /\ \A n \in N : m.parent[n] \in N \cup {nil}
  BY KeysAssumption DEF Tree, Shape
<1>3. (\A n \in N : n \in Cells) /\ nil \in Cells /\ x \in Cells
  BY <1>1, <1>2 DEF Cells
<1>4. o \in Sides /\ o # s
  BY <1>1, OppositeSide
<1>5. ~Red(m, p)
  BY <1>1 DEF RedPair
<1>6. /\ H \in [N \cup {nil} -> Nat] /\ H[nil] = 0
      /\ \A n \in N, t \in Sides :
           H[n] = H[m[t][n]] + (IF n = p /\ t = s THEN 1 ELSE 0) + Weight(m, n)
  BY <1>1 DEF Balanced
<1>7. H[x] \in Nat /\ H[w] \in Nat /\ H[p] = H[x] + 2 /\ H[near] = H[w] /\ H[far] = H[w]
  <2>1. Weight(m, p) = 1 /\ Weight(m, w) = 0
    BY <1>5, WeightIs
  <2>2. H[p] = H[x] + 1 + 1 /\ H[x] \in Nat /\ H[w] \in Nat
    BY <2>1, <1>1, <1>6
  <2>3. near \in N \cup {nil} /\ far \in N \cup {nil}
    BY <1>1, <1>2, <1>4
  <2>4. \A t \in Sides : H[w] = H[m[t][w]] + 0 + 0
    BY <2>1, <1>1, <1>6
  <2>6. H[w] = H[near] + 0 + 0 /\ H[w] = H[far] + 0 + 0
    BY <2>4, <1>1, <1>4
  <2>5. H[near] \in Nat /\ H[far] \in Nat
    BY <2>3, <1>6
  <2> HIDE DEF near, far
  <2> QED BY <2>2, <2>5, <2>6, <1>1
<1>8. near \in N /\ near # nil /\ m.parent[near] \in {w} /\ ~Red(m, near)
  <2>1. H[near] # 0
    <3> HIDE DEF near
    <3>1. H[near] = H[x] + 1 /\ H[x] \in Nat
      BY <1>1, <1>7
    <3> QED BY ONLY <3>1
  <2>2. near \in N /\ near # nil
    <3>1. near \in N \cup {nil}
      BY <1>1, <1>2
    <3> HIDE DEF near
    <3> QED BY <2>1, <3>1, <1>6
  <2>3. m.parent[near] \in {w}
    BY <2>2, <1>1, <1>2
  <2> HIDE DEF near
  <2> QED BY <2>2, <2>3, <1>1 DEF RedPair
<1>9. Repainted(m, A, N, D, top, w, "black", p, "red", m2)
  <2>1. Tree(m, A, N, D, top) /\ w \in Cells /\ p \in Cells /\ "red" \in {"red", "black"} /\ "black" \in {"red", "black"}
    BY <1>1, <1>3
  <2> QED BY ONLY <2>1, PaintTwo
<1> HIDE DEF m2
<1>10. /\ Tree(m2, A, N, D, top) /\ m2.parent = m.parent /\ \A t \in Sides : m2[t] = m[t]
       /\ \A y \in Cells : Red(m2, y) <=> IF y = p THEN TRUE ELSE IF y = w THEN FALSE ELSE Red(m, y)
  BY <1>9 DEF Repainted
<1>11. m2[o][p] \in {w} /\ m2[s][w] \in {near} /\ m2[o][w] \in {far} /\ m2[s][p] \in {x}
  BY <1>1, <1>4, <1>10
<1>12. Turned(m2, A, N, top, p, s, w, near, r)
  <2>1. /\ Tree(m2, A, N, D, top) /\ p \in N /\ s \in Sides /\ w # nil
        /\ w \in {m2[Opposite[s]][p]} /\ near \in {m2[s][w]}
    BY <1>1, <1>10, <1>11
  <2> HIDE DEF near
  <2> QED BY ONLY <2>1, RotateTree
<1>13. Balanced(r, N, K, p, s)
  <2>1. /\ K \in [N \cup {nil} -> Nat] /\ K[nil] = 0 /\ K[w] = H[p] /\ K[p] = H[w]
        /\ \A u \in N \cup {nil} : u \notin {p, w} => K[u] = H[u]
    BY <1>1, <1>2, <1>6
  <2> HIDE DEF K, near, far
  <2>2. Weight(m2, p) = 0 /\ Weight(m2, w) = 1 /\ Gap(p, s, p, s) = 1
    BY <1>1, <1>3, <1>10 DEF Weight, Gap
  <2>3. ASSUME NEW u \in N, NEW t \in Sides, u \notin {p, w}
        PROVE  H[u] = H[m2[t][u]] + Gap(p, s, u, t) + Weight(m2, u)
    <3>1. Weight(m2, u) = Weight(m, u)
      BY <2>3, <1>3, <1>10 DEF Weight
    <3>2. H[u] = H[m[t][u]] + (IF u = p /\ t = s THEN 1 ELSE 0) + Weight(m, u)
      BY <2>3, <1>6
    <3>3. Gap(p, s, u, t) = IF u = p /\ t = s THEN 1 ELSE 0
      BY DEF Gap
    <3>4. m2[t][u] = m[t][u]
      BY <1>10
    <3> QED BY <3>1, <3>2, <3>3, <3>4
  <2>4. /\ K[p] = H[m2[s][p]] + Gap(p, s, p, s) + Weight(m2, p)
        /\ K[p] = H[m2[s][w]] + Weight(m2, p)
        /\ H[p] = K[p] + Weight(m2, w)
        /\ H[p] = H[m2[Opposite[s]][w]] + Weight(m2, w)
    <3>1. H[m2[s][p]] = H[x] /\ H[m2[s][w]] = H[w] /\ H[m2[Opposite[s]][w]] = H[w]
      BY <1>7, <1>11
    <3>2. H[w] = H[x] + 1 /\ H[p] = H[x] + 2 /\ H[x] \in Nat
      BY <1>1, <1>7
    <3>3. K[p] = H[x] + 1
      BY <2>1, <3>2
    <3> QED BY ONLY <3>1, <3>2, <3>3, <2>2
  <2>5. TurnHeights(m2, N, p, s, w, H, K, p, s)
    BY <2>1, <2>3, <2>4, <1>1, <1>6 DEF TurnHeights, Even
  <2>6. Shape(m2, N, D, top) /\ p \in N /\ s \in Sides /\ w \in {m2[Opposite[s]][p]} /\ w # nil
    BY <1>1, <1>10, <1>11 DEF Tree
  <2> QED BY ONLY <2>5, <2>6, RotateBalanced
<1> HIDE DEF r, K
<1>14. /\ \A y \in Cells : Red(r, y) <=> IF y = p THEN TRUE ELSE IF y = w THEN FALSE ELSE Red(m, y)
       /\ \A y \in Cells : r.parent[y] =
            IF y = w THEN m.parent[p] ELSE IF y = p THEN w ELSE IF y = near THEN p ELSE m.parent[y]
       /\ r[s][p] \in {x}
       /\ \E E, t : Tree(r, A, N, E, t)
  <2>1. r[s][p] = m2[s][p]
    BY <1>1, <1>3, <1>12 DEF Turned
  <2>2. \E E, t : Tree(r, A, N, E, t)
    BY <1>12 DEF Turned
  <2>3. \A y \in Cells : Red(r, y) <=> IF y = p THEN TRUE ELSE IF y = w THEN FALSE ELSE Red(m, y)
    BY <1>10, <1>12 DEF Turned
  <2>4. \A y \in Cells : r.parent[y] =
            IF y = w THEN m.parent[p] ELSE IF y = p THEN w ELSE IF y = near THEN p ELSE m.parent[y]
    BY <1>8, <1>10, <1>12 DEF Turned
  <2> QED BY <2>1, <2>2, <2>3, <2>4, <1>11
<1>15. ~Red(r, nil) /\ ~Red(r, x)
  BY <1>1, <1>3, <1>14
<1>16. x # near
  BY <1>1, <1>8
<1>17. r.parent[x] \in {p}
  BY <1>1, <1>3, <1>14, <1>16
<1>18. ASSUME NEW n \in N, RedPair(r, n) PROVE FALSE
  <2>1. r.parent[n] # nil /\ Red(r, n) /\ Red(r, r.parent[n])
    BY <1>18 DEF RedPair
  <2>2. n # w /\ ~Red(r, w)
    BY <2>1, <1>1, <1>3, <1>14
  <2>3. n # p
    BY <2>1, <2>2, <1>1, <1>3, <1>14
  <2>4. n # near
    BY <2>1, <1>1, <1>3, <1>8, <1>14
  <2>5. r.parent[n] = m.parent[n] /\ Red(m, n)
    BY <2>1, <2>2, <2>3, <2>4, <1>3, <1>14
  <2>6. m.parent[n] # p
    <3> SUFFICES ASSUME m.parent[n] = p PROVE FALSE
      OBVIOUS
    <3>1. n # top
      BY <1>1, <1>2
    <3>2. PICK t \in Sides : m[t][p] \in {n}
      BY <3>1, <1>2
    <3>3. t = s \/ t = o
      BY <1>1, TwoSides
    <3> QED BY <3>2, <3>3, <2>2, <2>5, <1>1
  <2>7. m.parent[n] \in Cells
    BY <1>2, <1>3
  <2> QED BY <2>1, <2>5, <2>6, <2>7, <1>1, <1>14 DEF RedPair
<1>19. PICK E, t : Tree(r, A, N, E, t)
  BY <1>14
<1>20. Lacking(r, N, K, t, x)
  BY <1>1, <1>13, <1>14, <1>15, <1>17 DEF Lacking
<1>21. N # {} => r.parent[nil] \in N
  BY <1>1, <1>2, <1>3, <1>8, <1>14
<1>22. RemoveState(r, N, K, t, x)
  BY <1>1, <1>18, <1>20, <1>21 DEF RemoveState
<1>23. Lame(r, A, N, x)
  BY <1>19, <1>22 DEF Lame
<1> QED BY <1>23 DEF r, m2

\* A red near nephew becomes the sibling; what was the sibling is its red child.
LEMMA NearNephewTurn ==
  ASSUME NEW m, NEW A, NEW N, NEW D, NEW H, NEW top, Tree(m, A, N, D, top),
         NEW x, NEW p, NEW s, NEW w, GapAt(m, N, H, x, p, s, w),
         ~Red(m, w), Red(m, m[s][w]), ~Red(m, m[Opposite[s]][w])
  PROVE  Lame(Rotate(Paint(Paint(m, m[s][w], "black"), w, "red"), w, Opposite[s]), A, N, x)
<1> DEFINE o == Opposite[s]
           near == m[s][w]
           far == m[o][w]
           inner == m[o][near]
           m2 == Paint(Paint(m, near, "black"), w, "red")
           r == Rotate(m2, w, o)
           K == [u \in N \cup {nil} |-> IF u = near THEN H[w] ELSE IF u = w THEN H[near] ELSE H[u]]
<1>1. /\ p \in N /\ m.parent[x] \in {p} /\ p # nil
      /\ s \in Sides /\ m[s][p] \in {x}
      /\ Balanced(m, N, H, p, s)
      /\ m[o][p] \in {w} /\ w \in N /\ w # nil /\ w # x /\ w # p /\ x # p
      /\ m.parent[w] \in {p}
      /\ x \in N \cup {nil} /\ ~Red(m, x) /\ ~Red(m, nil)
      /\ \A n \in N : ~RedPair(m, n)
      /\ N # {} => m.parent[nil] \in N
  BY DEF GapAt, Calm
<1>2. /\ N \subseteq Keys /\ nil \notin N
      /\ \A n \in N, t \in Sides : m[t][n] \in N \cup {nil}
      /\ \A n \in N, t \in Sides : m[t][n] # nil => m.parent[m[t][n]] = n
      /\ \A n \in N \ {top} : \E t \in Sides : m[t][m.parent[n]] = n
      /\ top \in N => m.parent[top] = nil
      /\ \A n \in N : m.parent[n] \in N \cup {nil}
  BY KeysAssumption DEF Tree, Shape
<1>3. (\A n \in N : n \in Cells) /\ nil \in Cells /\ x \in Cells
  BY <1>1, <1>2 DEF Cells
<1>4. o \in Sides /\ o # s /\ Opposite[o] = s
  BY <1>1, OppositeSide
<1>5. near \in N /\ near # nil /\ m.parent[near] \in {w} /\ Red(m, near) /\ near # w /\ near # p
  <2>1. m[s][w] \in N /\ m[s][w] # nil /\ m.parent[m[s][w]] = w /\ Red(m, m[s][w])
    BY <1>1, <1>2
  <2>2. \A t \in Sides : m[t][w] # p /\ m[t][w] # w
    <3>1. Shape(m, N, D, top) /\ p \in N /\ w \in N /\ w # p /\ m.parent[w] \in {p}
      BY <1>1 DEF Tree
    <3>2. \A t \in Sides : m[t][w] # p
      BY ONLY <3>1, NoCycle
    <3>3. \A t \in Sides : m[t][w] # w
      BY ONLY <3>1, ShapeFacts
    <3> QED BY <3>2, <3>3
  <2> QED BY <2>1, <2>2, <1>1
<1>6. ~Red(m, far) /\ m[o][w] \in {far} /\ m[s][w] \in {near} /\ m[o][near] \in {inner} /\ far \in N \cup {nil}
  BY <1>1, <1>2, <1>4
<1> HIDE DEF near, far
<1>7. ~Red(m, inner)
  <2>1. CASE inner = nil
    BY <2>1, <1>1
  <2>2. CASE inner # nil
    <3>1. m[o][near] \in N /\ m.parent[m[o][near]] = near
      BY <2>2, <1>2, <1>4, <1>5
    <3> QED BY <3>1, <1>1, <1>5 DEF RedPair
  <2> QED BY <2>1, <2>2
<1>8. /\ H \in [N \cup {nil} -> Nat] /\ H[nil] = 0
      /\ \A n \in N, t \in Sides :
           H[n] = H[m[t][n]] + (IF n = p /\ t = s THEN 1 ELSE 0) + Weight(m, n)
  BY <1>1 DEF Balanced
<1>9. /\ H[near] \in Nat /\ H[w] = H[near] + 1 /\ H[far] = H[near]
      /\ \A t \in Sides : H[m[t][near]] = H[near]
  <2>1. Weight(m, near) = 0 /\ Weight(m, w) = 1
    BY <1>5, WeightIs
  <2>2. \A t \in Sides : H[w] = H[m[t][w]] + 0 + 1 /\ H[near] = H[m[t][near]] + 0 + 0
    BY <2>1, <1>1, <1>5, <1>8
  <2>3. \A t \in Sides : H[m[t][w]] \in Nat /\ H[m[t][near]] \in Nat
    BY <1>1, <1>2, <1>5, <1>8
  <2>4. \A t \in Sides : H[near] = H[m[t][near]]
    BY <2>2, <2>3
  <2>5. H[w] = H[near] + 0 + 1 /\ H[w] = H[far] + 0 + 1 /\ H[near] \in Nat /\ H[far] \in Nat
    BY <2>2, <2>3, <1>1, <1>4, <1>6
  <2>6. H[w] = H[near] + 1 /\ H[far] = H[near] /\ H[near] \in Nat
    BY ONLY <2>5
  <2> QED BY <2>4, <2>6
<1>10. Repainted(m, A, N, D, top, near, "black", w, "red", m2)
  <2>1. Tree(m, A, N, D, top) /\ near \in Cells /\ w \in Cells /\ "red" \in {"red", "black"} /\ "black" \in {"red", "black"}
    BY <1>1, <1>3, <1>5
  <2> QED BY ONLY <2>1, PaintTwo
<1> HIDE DEF m2
<1>11. /\ Tree(m2, A, N, D, top) /\ m2.parent = m.parent /\ \A t \in Sides : m2[t] = m[t]
       /\ \A y \in Cells : Red(m2, y) <=> IF y = w THEN TRUE ELSE IF y = near THEN FALSE ELSE Red(m, y)
  BY <1>10 DEF Repainted
<1>12. m2[s][w] \in {near} /\ m2[o][near] \in {inner} /\ m2[o][w] \in {far}
  BY <1>1, <1>4, <1>6, <1>11
<1>13. Turned(m2, A, N, top, w, o, near, inner, r)
  <2>1. /\ Tree(m2, A, N, D, top) /\ w \in N /\ o \in Sides /\ near # nil
        /\ near \in {m2[Opposite[o]][w]} /\ inner \in {m2[o][near]}
    BY <1>1, <1>4, <1>5, <1>11, <1>12
  <2> HIDE DEF inner, o
  <2> QED BY ONLY <2>1, RotateTree
<1> HIDE DEF inner, o
<1>14. Balanced(r, N, K, p, s)
  <2>1. /\ K \in [N \cup {nil} -> Nat] /\ K[nil] = 0 /\ K[near] = H[w] /\ K[w] = H[near]
        /\ \A u \in N \cup {nil} : u \notin {w, near} => K[u] = H[u]
    BY <1>1, <1>2, <1>5, <1>8
  <2> HIDE DEF K
  <2>2. Weight(m2, w) = 0 /\ Weight(m2, near) = 1 /\ Gap(p, s, w, o) = 0
    BY <1>1, <1>3, <1>5, <1>11 DEF Weight, Gap
  <2>3. ASSUME NEW u \in N, NEW t \in Sides, u \notin {w, near}
        PROVE  H[u] = H[m2[t][u]] + Gap(p, s, u, t) + Weight(m2, u)
    <3>1. Weight(m2, u) = Weight(m, u)
      BY <2>3, <1>3, <1>11 DEF Weight
    <3>2. H[u] = H[m[t][u]] + (IF u = p /\ t = s THEN 1 ELSE 0) + Weight(m, u)
      BY <2>3, <1>8
    <3>3. Gap(p, s, u, t) = IF u = p /\ t = s THEN 1 ELSE 0
      BY DEF Gap
    <3>4. m2[t][u] = m[t][u]
      BY <1>11
    <3> QED BY <3>1, <3>2, <3>3, <3>4
  <2>4. /\ K[w] = H[m2[o][w]] + Gap(p, s, w, o) + Weight(m2, w)
        /\ K[w] = H[m2[o][near]] + Weight(m2, w)
        /\ H[w] = K[w] + Weight(m2, near)
        /\ H[w] = H[m2[Opposite[o]][near]] + Weight(m2, near)
    <3>1. /\ H[m2[o][w]] = H[near] /\ H[m2[o][near]] = H[near]
          /\ H[m2[Opposite[o]][near]] = H[near]
      BY <1>1, <1>4, <1>9, <1>11, <1>12
    <3>2. H[near] \in Nat /\ H[w] = H[near] + 1 /\ K[w] = H[near]
      BY <2>1, <1>9
    <3> QED BY ONLY <3>1, <3>2, <2>2
  <2>5. TurnHeights(m2, N, w, o, near, H, K, p, s)
    BY <2>1, <2>3, <2>4, <1>1, <1>5, <1>8 DEF TurnHeights, Even
  <2>6. Shape(m2, N, D, top) /\ w \in N /\ o \in Sides /\ near \in {m2[Opposite[o]][w]} /\ near # nil
    BY <1>1, <1>4, <1>5, <1>11, <1>12 DEF Tree
  <2> QED BY ONLY <2>5, <2>6, RotateBalanced
<1> HIDE DEF r, K
<1>15. /\ \A y \in Cells : Red(r, y) <=> IF y = w THEN TRUE ELSE IF y = near THEN FALSE ELSE Red(m, y)
       /\ \A y \in Cells : r.parent[y] =
            IF y = near THEN p ELSE IF y = w THEN near
            ELSE IF y = inner /\ inner # nil THEN w ELSE m.parent[y]
       /\ r[s][p] \in {x}
       /\ inner \in N \cup {nil}
       /\ \E E, t : Tree(r, A, N, E, t)
  <2>0. /\ \A y \in Cells : r.parent[y] =
            IF y = near THEN m2.parent[w] ELSE IF y = w THEN near
            ELSE IF y = inner /\ inner # nil THEN w ELSE m2.parent[y]
        /\ \A t \in Sides : \A y \in Cells : r[t][y] =
            IF y = w THEN IF t = o THEN m2[o][w] ELSE inner
            ELSE IF y = near THEN IF t = o THEN w ELSE m2[t][near]
            ELSE IF y = m2.parent[w] /\ m2[t][m2.parent[w]] = w THEN near ELSE m2[t][y]
    BY <1>13 DEF Turned
  <2>5. m2.parent[w] \in {p} /\ m2[s][p] \in {x} /\ p \in Cells
    BY <1>1, <1>3, <1>11
  <2>1. r[s][p] = m2[s][p] /\ m2[s][p] \in {x}
    BY <2>0, <2>5, <1>1, <1>5
  <2>2. inner \in N \cup {nil} /\ \E E, t : Tree(r, A, N, E, t)
    BY <1>13 DEF Turned
  <2>3. \A y \in Cells : Red(r, y) <=> IF y = w THEN TRUE ELSE IF y = near THEN FALSE ELSE Red(m, y)
    BY <1>11, <1>13 DEF Turned
  <2>4. \A y \in Cells : r.parent[y] =
            IF y = near THEN p ELSE IF y = w THEN near
            ELSE IF y = inner /\ inner # nil THEN w ELSE m.parent[y]
    BY <2>0, <2>5, <1>11
  <2> QED BY <2>1, <2>2, <2>3, <2>4
<1>16. ~Red(r, nil) /\ ~Red(r, x)
  BY <1>1, <1>3, <1>5, <1>15
<1>17. x # near /\ (inner # nil => x # inner)
  <2>1. inner # nil => m.parent[inner] = near
    BY <1>2, <1>4, <1>5, <1>6
  <2> QED BY <2>1, <1>1, <1>5
<1>18. r.parent[x] \in {p}
  BY <1>1, <1>3, <1>15, <1>17
<1>19. ASSUME NEW n \in N, RedPair(r, n) PROVE FALSE
  <2>1. r.parent[n] # nil /\ Red(r, n) /\ Red(r, r.parent[n])
    BY <1>19 DEF RedPair
  <2>2. n # near /\ ~Red(r, near)
    BY <2>1, <1>3, <1>5, <1>15
  <2>3. n # w
    BY <2>1, <2>2, <1>1, <1>3, <1>5, <1>15
  <2>4. n # inner
    BY <2>1, <2>2, <2>3, <1>2, <1>3, <1>7, <1>15
  <2>5. r.parent[n] = m.parent[n] /\ Red(m, n)
    BY <2>1, <2>2, <2>3, <2>4, <1>3, <1>15
  <2>6. m.parent[n] # w
    <3> SUFFICES ASSUME m.parent[n] = w PROVE FALSE
      OBVIOUS
    <3>1. n # top
      BY <1>1, <1>2
    <3>2. PICK t \in Sides : m[t][w] \in {n}
      BY <3>1, <1>2
    <3>3. t = s \/ t = o
      BY <1>1, TwoSides DEF o
    <3> QED BY <3>2, <3>3, <2>2, <2>5, <1>6
  <2>7. m.parent[n] \in Cells
    BY <1>2, <1>3
  <2> QED BY <2>1, <2>2, <2>5, <2>6, <2>7, <1>1, <1>15 DEF RedPair
<1>20. PICK E, t : Tree(r, A, N, E, t)
  BY <1>15
<1>21. Lacking(r, N, K, t, x)
  BY <1>1, <1>14, <1>15, <1>16, <1>18 DEF Lacking
<1>22. N # {} => r.parent[nil] \in N
  BY <1>1, <1>2, <1>3, <1>5, <1>15
<1>23. RemoveState(r, N, K, t, x)
  BY <1>1, <1>19, <1>21, <1>22 DEF RemoveState
<1>24. Lame(r, A, N, x)
  BY <1>20, <1>23 DEF Lame
<1> QED BY <1>24 DEF r, m2, near, o

\* A red-black tree, whose root the walk up from x ends at.
Whole(m, A, N, x) ==
  \E D, H, top : Tree(m, A, N, D, top) /\ Settled(m, N, H) /\ (N # {} => Root(m, x) = top)

\* r is the tree m with the three nodes of the last rotation painted.
LastPaint(m, A, N, D, top, p, w, far, r) ==
  /\ Tree(r, A, N, D, top)
  /\ r.parent = m.parent /\ \A t \in Sides : r[t] = m[t]
  /\ \A y \in Cells :
       Red(r, y) <=> y # far /\ y # p /\ IF y = w THEN Red(m, p) ELSE Red(m, y)

\* The sibling gets the parent's colour, the parent and the far nephew are black.
LEMMA PaintThree ==
  ASSUME NEW m, NEW A, NEW N, NEW D, NEW top, Tree(m, A, N, D, top),
         NEW p \in Cells, NEW w \in Cells, NEW far \in Cells
  PROVE  LastPaint(m, A, N, D, top, p, w, far,
                   Paint(Paint(Paint(m, w, m.color[p]), p, "black"), far, "black"))
<1> DEFINE c == m.color[p]
           q == Paint(m, w, c)
           r == Paint(Paint(q, p, "black"), far, "black")
<1>1. c \in {"red", "black"}
  BY DEF Tree, Shape, IsMemory
<1>2. Red(m, p) <=> c = "red"
  BY DEF Red
<1> HIDE DEF c
<1>3. Painted(m, A, N, D, top, w, c, q)
  <2>1. Tree(m, A, N, D, top) /\ w \in Cells /\ c \in {"red", "black"}
    BY <1>1
  <2> QED BY ONLY <2>1, PaintOne
<1> HIDE DEF q
<1>4. Repainted(q, A, N, D, top, p, "black", far, "black", r)
  <2>1. Tree(q, A, N, D, top) /\ p \in Cells /\ far \in Cells /\ "black" \in {"red", "black"}
    BY <1>3 DEF Painted
  <2> QED BY ONLY <2>1, PaintTwo
<1> HIDE DEF r
<1>5. Tree(r, A, N, D, top) /\ r.parent = m.parent /\ \A t \in Sides : r[t] = m[t]
  BY <1>3, <1>4 DEF Painted, Repainted
<1>6. \A y \in Cells : Red(r, y) <=> y # far /\ y # p /\ Red(q, y)
  BY <1>4 DEF Repainted
<1>7. \A y \in Cells : Red(q, y) <=> IF y = w THEN Red(m, p) ELSE Red(m, y)
  BY <1>2, <1>3 DEF Painted
<1>8. LastPaint(m, A, N, D, top, p, w, far, r)
  BY <1>5, <1>6, <1>7 DEF LastPaint
<1> QED BY <1>8 DEF r, q, c

\* With a red far nephew one rotation puts the missing black in place.
LEMMA LastTurn ==
  ASSUME NEW m, NEW A, NEW N, NEW D, NEW H, NEW top, Tree(m, A, N, D, top),
         NEW x, NEW p, NEW s, NEW w, GapAt(m, N, H, x, p, s, w),
         NEW far, far = m[Opposite[s]][w], ~Red(m, w), Red(m, far)
  PROVE  Whole(Paint(Rotate(Paint(Paint(Paint(m, w, m.color[p]), p, "black"), far, "black"), p, s),
                     x, "black"), A, N, x)
<1> DEFINE o == Opposite[s]
           near == m[s][w]
           m3 == Paint(Paint(Paint(m, w, m.color[p]), p, "black"), far, "black")
           r == Rotate(m3, p, s)
           b == Paint(r, x, "black")
           G == [u \in N \cup {nil} |-> IF u = far THEN H[u] + 1 ELSE H[u]]
           K == [u \in N \cup {nil} |-> IF u = w THEN H[p] ELSE IF u = p THEN H[w] ELSE G[u]]
<1>1. /\ p \in N /\ m.parent[x] \in {p} /\ p # nil
      /\ s \in Sides /\ m[s][p] \in {x}
      /\ Balanced(m, N, H, p, s)
      /\ m[o][p] \in {w} /\ w \in N /\ w # nil /\ w # x /\ w # p /\ x # p
      /\ m.parent[w] \in {p} /\ H[w] = H[x] + 1
      /\ x \in N \cup {nil} /\ ~Red(m, x) /\ ~Red(m, nil)
      /\ \A n \in N : ~RedPair(m, n)
  BY DEF GapAt, Calm
<1>2. /\ N \subseteq Keys /\ nil \notin N
      /\ \A n \in N, t \in Sides : m[t][n] \in N \cup {nil}
      /\ \A n \in N, t \in Sides : m[t][n] # nil => m.parent[m[t][n]] = n
      /\ \A n \in N \ {top} : \E t \in Sides : m[t][m.parent[n]] = n
      /\ top \in N => m.parent[top] = nil
      /\ \A n \in N : m.parent[n] \in N \cup {nil}
  BY KeysAssumption DEF Tree, Shape
<1>3. (\A n \in N : n \in Cells) /\ nil \in Cells /\ x \in Cells
  BY <1>1, <1>2 DEF Cells
<1>4. o \in Sides /\ o # s /\ Opposite[o] = s
  BY <1>1, OppositeSide
<1>5. /\ far \in N /\ far # nil /\ m.parent[far] \in {w} /\ far # x
      /\ \A t \in Sides : m[t][w] # p /\ m[t][w] # w /\ m[t][far] # far
      /\ near # far /\ far # p /\ near # p /\ near # w
  <2>1. far \in N /\ far # nil /\ m.parent[far] \in {w}
    BY <1>1, <1>2, <1>4
  <2>2. Shape(m, N, D, top) /\ p \in N /\ w \in N /\ far \in N /\ w # p /\ m.parent[w] \in {p}
    BY <1>1, <2>1 DEF Tree
  <2>3. \A t \in Sides : m[t][w] # p
    BY ONLY <2>2, NoCycle
  <2>4. \A t \in Sides : m[t][w] # w /\ m[t][far] # far
    BY ONLY <2>2, ShapeFacts
  <2>5. \A t \in Sides : m[t][w] # nil => m[t][w] # m[Opposite[t]][w]
    BY ONLY <2>2, ShapeFacts
  <2>6. m[s][w] # m[o][w]
    BY <2>1, <2>5, <1>4
  <2>7. far # p /\ near # p /\ near # w
    BY <2>3, <2>4, <1>1, <1>4
  <2> QED BY <2>1, <2>3, <2>4, <2>6, <2>7, <1>1
<1>6. far = m[o][w] /\ m[s][w] \in {near} /\ near \in N \cup {nil}
  BY <1>1, <1>2
<1> HIDE DEF near
<1>7. /\ H \in [N \cup {nil} -> Nat] /\ H[nil] = 0
      /\ \A n \in N, t \in Sides :
           H[n] = H[m[t][n]] + (IF n = p /\ t = s THEN 1 ELSE 0) + Weight(m, n)
  BY <1>1 DEF Balanced
<1>8. /\ H[x] \in Nat /\ H[w] = H[x] + 1 /\ H[near] = H[x] /\ H[far] = H[x]
      /\ H[p] = H[x] + 1 + Weight(m, p) /\ Weight(m, p) \in {0, 1}
      /\ \A t \in Sides : H[m[t][far]] = H[far]
  <2>1. Weight(m, w) = 1 /\ Weight(m, far) = 0 /\ Weight(m, p) \in {0, 1}
    BY WeightIs
  <2>2. \A t \in Sides : H[w] = H[m[t][w]] + 0 + 1 /\ H[far] = H[m[t][far]] + 0 + 0
    <3> TAKE t \in Sides
    <3>1. H[w] = H[m[t][w]] + 0 + Weight(m, w)
      BY <1>1, <1>7
    <3>2. H[far] = H[m[t][far]] + 0 + Weight(m, far)
      BY <1>5, <1>7
    <3> QED BY <3>1, <3>2, <2>1
  <2>3. \A t \in Sides : H[m[t][w]] \in Nat /\ H[m[t][far]] \in Nat
    BY <1>1, <1>2, <1>5, <1>7
  <2>4. \A t \in Sides : H[m[t][far]] = H[far]
    BY <2>2, <2>3
  <2>5. H[w] = H[near] + 0 + 1 /\ H[w] = H[far] + 0 + 1 /\ H[near] \in Nat /\ H[far] \in Nat
    BY <2>2, <2>3, <1>1, <1>4, <1>6
  <2>6. H[w] = H[x] + 1 /\ H[x] \in Nat
    BY <1>1, <1>7
  <2>7. H[near] = H[x] /\ H[far] = H[x]
    BY ONLY <2>5, <2>6
  <2>8. H[p] = H[x] + 1 + Weight(m, p)
    BY <1>1, <1>7
  <2> QED BY <2>1, <2>4, <2>6, <2>7, <2>8
<1>9. LastPaint(m, A, N, D, top, p, w, far, m3)
  <2>1. Tree(m, A, N, D, top) /\ p \in Cells /\ w \in Cells /\ far \in Cells
    BY <1>1, <1>3, <1>5
  <2> QED BY ONLY <2>1, PaintThree
<1> HIDE DEF m3
<1>10. /\ Tree(m3, A, N, D, top) /\ m3.parent = m.parent /\ \A t \in Sides : m3[t] = m[t]
       /\ \A y \in Cells :
            Red(m3, y) <=> y # far /\ y # p /\ IF y = w THEN Red(m, p) ELSE Red(m, y)
  BY <1>9 DEF LastPaint
<1>11. m3[o][p] \in {w} /\ m3[s][w] \in {near} /\ m3[o][w] \in {far} /\ m3[s][p] \in {x}
  BY <1>1, <1>4, <1>6, <1>10
<1>12. Turned(m3, A, N, top, p, s, w, near, r)
  <2>1. /\ Tree(m3, A, N, D, top) /\ p \in N /\ s \in Sides /\ w # nil
        /\ w \in {m3[Opposite[s]][p]} /\ near \in {m3[s][w]}
    BY <1>1, <1>10, <1>11
  <2> HIDE DEF near
  <2> QED BY ONLY <2>1, RotateTree
<1>13. Balanced(r, N, K, nil, s)
  <2>1. G \in [N \cup {nil} -> Nat] /\ G[far] = H[x] + 1 /\ \A u \in N \cup {nil} : u # far => G[u] = H[u]
    BY <1>5, <1>7, <1>8
  <2> HIDE DEF G
  <2>2. H[p] \in Nat /\ H[w] \in Nat
    BY <1>1, <1>7
  <2>3. /\ K \in [N \cup {nil} -> Nat] /\ K[nil] = 0 /\ K[w] = H[p] /\ K[p] = H[w]
        /\ \A u \in N \cup {nil} : u \notin {p, w} => K[u] = G[u]
    BY <2>1, <2>2, <1>1, <1>2, <1>5, <1>7
  <2> HIDE DEF K
  <2>4. Weight(m3, p) = 1 /\ Weight(m3, w) = Weight(m, p) /\ Weight(m3, far) = 1
    BY <1>1, <1>3, <1>5, <1>6, <1>10 DEF Weight
  <2>5. \A u, t : u \in N => Gap(nil, s, u, t) = 0
    BY <1>2 DEF Gap
  <2>6. ASSUME NEW u \in N, NEW t \in Sides, u \notin {p, w}
        PROVE  G[u] = G[m3[t][u]] + Gap(nil, s, u, t) + Weight(m3, u)
    <3>1. H[u] = H[m[t][u]] + 0 + Weight(m, u) /\ H[m[t][u]] \in Nat /\ Weight(m, u) \in {0, 1}
      BY <2>6, <1>2, <1>7, WeightIs
    <3>2. m3[t][u] = m[t][u] /\ m[t][u] # far /\ G[m[t][u]] = H[m[t][u]]
      BY <2>1, <2>6, <1>2, <1>5, <1>10
    <3>3. CASE u = far
      <4>1. H[m[t][u]] = H[x] /\ H[x] \in Nat /\ G[u] = H[x] + 1 /\ Weight(m3, u) = 1
        BY <3>3, <2>1, <2>4, <1>8
      <4>2. G[m3[t][u]] = H[x]
        BY <3>2, <4>1
      <4>3. Gap(nil, s, u, t) = 0
        BY <2>5
      <4> QED BY ONLY <4>1, <4>2, <4>3
    <3>4. CASE u # far
      <4>1. Weight(m3, u) = Weight(m, u) /\ G[u] = H[u]
        BY <3>4, <2>1, <2>6, <1>3, <1>10 DEF Weight
      <4>2. Gap(nil, s, u, t) = 0
        BY <2>5
      <4>3. G[m3[t][u]] = H[m[t][u]]
        BY <3>2
      <4> QED BY ONLY <3>1, <4>1, <4>2, <4>3
    <3> QED BY <3>3, <3>4
  <2>7. /\ G[p] = H[p] /\ G[x] = H[x] /\ G[near] = H[x]
    <3>1. p # far
      BY <1>4, <1>5, <1>6
    <3> QED BY <3>1, <2>1, <1>1, <1>5, <1>6, <1>8
  <2>8. /\ K[p] = G[m3[s][p]] + Gap(nil, s, p, s) + Weight(m3, p)
        /\ K[p] = G[m3[s][w]] + Weight(m3, p)
        /\ G[p] = K[p] + Weight(m3, w)
        /\ G[p] = G[m3[Opposite[s]][w]] + Weight(m3, w)
    <3>1. G[m3[s][p]] = H[x] /\ G[m3[s][w]] = H[x] /\ G[m3[Opposite[s]][w]] = H[x] + 1
      BY <2>1, <2>7, <1>11
    <3>2. K[p] = H[x] + 1 /\ H[x] \in Nat /\ G[p] = H[x] + 1 + Weight(m, p) /\ Weight(m, p) \in {0, 1}
      BY <2>3, <2>7, <1>8
    <3>3. Gap(nil, s, p, s) = 0
      BY <2>5, <1>1
    <3> QED BY ONLY <3>1, <3>2, <3>3, <2>4
  <2>9. TurnHeights(m3, N, p, s, w, G, K, nil, s)
    BY <2>1, <2>3, <2>6, <2>7, <2>8, <1>1 DEF TurnHeights, Even
  <2>10. Shape(m3, N, D, top) /\ p \in N /\ s \in Sides /\ w \in {m3[Opposite[s]][p]} /\ w # nil
    BY <1>1, <1>10, <1>11 DEF Tree
  <2> QED BY ONLY <2>9, <2>10, RotateBalanced
<1> HIDE DEF r, G, K
<1>14. /\ \A y \in Cells :
            Red(r, y) <=> y # far /\ y # p /\ IF y = w THEN Red(m, p) ELSE Red(m, y)
       /\ \A y \in Cells : r.parent[y] =
            IF y = w THEN m.parent[p] ELSE IF y = p THEN w
            ELSE IF y = near /\ near # nil THEN p ELSE m.parent[y]
       /\ m.parent[p] # w
       /\ \E E, t : Tree(r, A, N, E, t)
  <2>1. /\ \A y \in Cells : r.parent[y] =
             IF y = w THEN m3.parent[p] ELSE IF y = p THEN w
             ELSE IF y = near /\ near # nil THEN p ELSE m3.parent[y]
        /\ m3.parent[p] # w
        /\ \E E, t : Tree(r, A, N, E, t)
    BY <1>12 DEF Turned
  <2>2. \A y : Red(r, y) <=> Red(m3, y)
    BY <1>12 DEF Turned
  <2> QED BY <2>1, <2>2, <1>10
<1>15. ~Red(r, nil) /\ ~Red(r, x)
  BY <1>1, <1>3, <1>14
<1>16. PICK E, t : Tree(r, A, N, E, t)
  BY <1>14
<1>17. /\ Tree(b, A, N, E, t) /\ b.parent = r.parent
       /\ \A u \in Sides : b[u] = r[u]
       /\ \A y \in Cells : Red(b, y) <=> Red(r, y)
  <2>1. Painted(r, A, N, E, t, x, "black", b)
    <3>1. Tree(r, A, N, E, t) /\ x \in Cells /\ "black" \in {"red", "black"}
      BY <1>3, <1>16
    <3> QED BY ONLY <3>1, PaintOne
  <2> HIDE DEF b
  <2> QED BY <2>1, <1>15 DEF Painted
<1> HIDE DEF b
<1>18. ASSUME NEW n \in N, RedPair(b, n) PROVE FALSE
  <2>1. r.parent[n] # nil /\ Red(r, n) /\ Red(r, r.parent[n])
    <3>1. r.parent[n] \in Cells
      BY <1>3, <1>16 DEF Tree, Shape, IsMemory
    <3> QED BY <3>1, <1>3, <1>17, <1>18 DEF RedPair
  <2>2. n # far /\ n # p /\ ~Red(r, far) /\ ~Red(r, p)
    BY <2>1, <1>1, <1>3, <1>5, <1>14
  <2>3. n # near
    <3> SUFFICES ASSUME n = near PROVE FALSE
      OBVIOUS
    <3>1. r.parent[n] \in {p}
      BY <1>2, <1>3, <1>5, <1>14
    <3> QED BY <3>1, <2>1, <2>2
  <2>4. CASE n = w
    <3>1. r.parent[n] = m.parent[p] /\ Red(m, p)
      BY <2>1, <2>4, <1>1, <1>3, <1>14
    <3>2. m.parent[p] \in Cells /\ m.parent[p] # w
      BY <1>1, <1>2, <1>3, <1>14
    <3>3. Red(m, m.parent[p])
      BY <3>1, <3>2, <2>1, <1>14
    <3> QED BY <3>1, <3>3, <2>1, <1>1 DEF RedPair
  <2>5. CASE n # w
    <3>1. r.parent[n] = m.parent[n] /\ Red(m, n)
      BY <2>1, <2>2, <2>3, <2>5, <1>3, <1>14
    <3>2. m.parent[n] # w
      <4> SUFFICES ASSUME m.parent[n] = w PROVE FALSE
        OBVIOUS
      <4>1. n # top
        BY <1>1, <1>2
      <4>2. PICK u \in Sides : m[u][w] \in {n}
        BY <4>1, <1>2
      <4>3. u = s \/ u = o
        BY <1>1, TwoSides
      <4> QED BY <4>2, <4>3, <2>2, <2>3, <1>6
    <3>3. m.parent[n] \in Cells
      BY <1>2, <1>3
    <3> QED BY <3>1, <3>2, <3>3, <2>1, <1>1, <1>14 DEF RedPair
  <2> QED BY <2>4, <2>5
<1>19. Settled(b, N, K)
  <2>1. Balanced(b, N, K, nil, s)
    BY <1>3, <1>13, <1>17, SameBalance
  <2>2. NoGap(b, N, K)
    BY <2>1, <1>2, NoGapSide
  <2>3. ~Red(b, nil)
    BY <1>3, <1>15, <1>17
  <2> QED BY <2>2, <2>3, <1>18 DEF Settled
<1>20. Root(b, x) = t
  <2>1. Shape(b, N, E, t)
    BY <1>17 DEF Tree
  <2>2. x = nil => b.parent[nil] \in N
    <3>1. r.parent[nil] = m.parent[nil]
      BY <1>1, <1>3, <1>14
    <3> QED BY <3>1, <1>1, <1>17
  <2> QED BY <2>1, <2>2, <1>1, RootIsTop
<1>21. Whole(b, A, N, x)
  BY <1>17, <1>19, <1>20 DEF Whole
<1> QED BY <1>21 DEF b, r, m3

\* Painting a red x black puts the missing black in place, or nil is black again.
LEMMA StopTurn ==
  ASSUME NEW m, NEW A, NEW N, NEW D, NEW H, NEW top, Tree(m, A, N, D, top),
         NEW x, RemoveState(m, N, H, top, x), Red(m, x)
  PROVE  Whole(Paint(m, x, "black"), A, N, x)
<1> DEFINE b == Paint(m, x, "black")
           K == [u \in N \cup {nil} |-> IF u = x /\ x # nil THEN H[u] + 1 ELSE H[u]]
<1>1. /\ N \subseteq Keys /\ nil \notin N
      /\ \A n \in N, t \in Sides : m[t][n] \in N \cup {nil}
      /\ \A n \in N, t \in Sides : m[t][n] # nil => m.parent[m[t][n]] = n
      /\ \A n \in N : m.parent[n] \in N \cup {nil}
      /\ \A n \in N, t \in Sides : m[t][n] # n
  <2>1. Shape(m, N, D, top)
    BY DEF Tree
  <2>2. \A n \in N, t \in Sides : m[t][n] # n
    BY ONLY <2>1, ShapeFacts
  <2>3. \A n \in N : m.parent[n] \in N \cup {nil}
    BY <2>1 DEF Shape
  <2>4. /\ N \subseteq Keys /\ nil \notin N
        /\ \A n \in N, t \in Sides : m[t][n] \in N \cup {nil}
        /\ \A n \in N, t \in Sides : m[t][n] # nil => m.parent[m[t][n]] = n
    BY <2>1, KeysAssumption DEF Shape
  <2> QED BY <2>2, <2>3, <2>4
<1>2. /\ x \in N \cup {nil} /\ Lacking(m, N, H, top, x)
      /\ \A n \in N : RedPair(m, n) => x \in {n, m.parent[n]}
      /\ N # {} /\ m.parent[nil] \notin N => x # nil
  BY DEF RemoveState
<1>3. (\A n \in N : n \in Cells) /\ nil \in Cells /\ x \in Cells
  BY <1>1, <1>2 DEF Cells
<1>4. /\ Tree(b, A, N, D, top) /\ b.parent = m.parent /\ \A t \in Sides : b[t] = m[t]
      /\ \A y \in Cells : Red(b, y) <=> y # x /\ Red(m, y)
  <2>1. Painted(m, A, N, D, top, x, "black", b)
    <3>1. Tree(m, A, N, D, top) /\ x \in Cells /\ "black" \in {"red", "black"}
      BY <1>3
    <3> QED BY ONLY <3>1, PaintOne
  <2> HIDE DEF b
  <2> QED BY <2>1 DEF Painted
<1> HIDE DEF b
<1>5. ASSUME NEW n \in N, RedPair(b, n) PROVE FALSE
  <2>1. m.parent[n] \in Cells
    BY <1>1, <1>3
  <2>2. RedPair(m, n) /\ x \notin {n, m.parent[n]}
    BY <2>1, <1>3, <1>4, <1>5 DEF RedPair
  <2> QED BY <2>2, <1>2
<1>6. ~Red(b, nil)
  <2>1. Red(m, nil) => x = nil
    BY <1>2 DEF Lacking
  <2> QED BY <2>1, <1>3, <1>4
<1>7. /\ H \in [N \cup {nil} -> Nat] /\ H[nil] = 0
      /\ \A n \in N, t \in Sides : H[n] =
           H[m[t][n]] + (IF m[t][n] = x /\ x # nil THEN 1 ELSE 0) + Weight(m, n)
  <2>1. CASE x = nil
    <3>1. ASSUME NEW gp \in N, NEW s \in Sides, m[s][gp] = x, Balanced(m, N, H, gp, s), ~Red(m, nil)
          PROVE FALSE
      BY <2>1, <3>1
    <3>2. NoGap(m, N, H)
      BY <3>1, <1>2 DEF Lacking
    <3>3. H \in [N \cup {nil} -> Nat] /\ H[nil] = 0
      BY <3>2 DEF NoGap, Balanced
    <3>4. \A n \in N, t \in Sides : H[n] = H[m[t][n]] + 0 + Weight(m, n)
      BY <3>2, <1>1 DEF NoGap, Balanced
    <3> QED BY <2>1, <3>3, <3>4
  <2>2. CASE x # nil /\ m.parent[x] = nil /\ NoGap(m, N, H)
    <3>1. H \in [N \cup {nil} -> Nat] /\ H[nil] = 0
      BY <2>2 DEF NoGap, Balanced
    <3>2. \A n \in N, t \in Sides : H[n] = H[m[t][n]] + 0 + Weight(m, n)
      BY <2>2, <1>1 DEF NoGap, Balanced
    <3>3. \A n \in N, t \in Sides : m[t][n] # x
      BY <2>2, <1>1
    <3> QED BY <3>1, <3>2, <3>3
  <2>3. CASE x # nil /\ \E s \in Sides : m[s][m.parent[x]] = x /\ Balanced(m, N, H, m.parent[x], s)
    <3>1. PICK s \in Sides : m[s][m.parent[x]] = x /\ Balanced(m, N, H, m.parent[x], s)
      BY <2>3
    <3>2. H \in [N \cup {nil} -> Nat] /\ H[nil] = 0
      BY <3>1 DEF Balanced
    <3>3. \A n \in N, t \in Sides :
            H[n] = H[m[t][n]] + (IF n = m.parent[x] /\ t = s THEN 1 ELSE 0) + Weight(m, n)
      BY <3>1 DEF Balanced
    <3>4. ASSUME NEW n \in N, NEW t \in Sides
          PROVE  m[t][n] = x <=> n = m.parent[x] /\ t = s
      <4>1. m[t][n] = x => n = m.parent[x]
        BY <2>3, <1>1
      <4>2. ASSUME n = m.parent[x], m[t][n] = x, t # s PROVE FALSE
        <5>1. t = Opposite[s]
          BY <4>2, TwoSides
        <5>2. Shape(m, N, D, top) /\ n \in N /\ s \in Sides
          BY DEF Tree
        <5>3. m[s][n] # nil => m[s][n] # m[Opposite[s]][n]
          BY ONLY <5>2, ShapeFacts
        <5> QED BY <5>1, <5>3, <4>2, <3>1, <2>3
      <4> QED BY <4>1, <4>2, <3>1
    <3> QED BY <2>3, <3>2, <3>3, <3>4
  <2> QED BY <1>2, <2>1, <2>2, <2>3 DEF Lacking
<1>8. Heights(b, N, K)
  <2>1. /\ K \in [N \cup {nil} -> Nat] /\ K[nil] = 0
        /\ \A u \in N \cup {nil} : K[u] = H[u] + (IF u = x /\ x # nil THEN 1 ELSE 0)
    BY <1>7
  <2> HIDE DEF K
  <2>2. ASSUME NEW n \in N, NEW t \in Sides
        PROVE  K[n] = K[b[t][n]] + Weight(b, n)
    <3>1. /\ H[n] = H[m[t][n]] + (IF m[t][n] = x /\ x # nil THEN 1 ELSE 0) + Weight(m, n)
          /\ H[m[t][n]] \in Nat /\ H[n] \in Nat /\ Weight(m, n) \in {0, 1}
      BY <1>1, <1>7, WeightIs
    <3>2. b[t][n] = m[t][n] /\ m[t][n] \in N \cup {nil}
      BY <1>1, <1>4
    <3>3. K[m[t][n]] = H[m[t][n]] + (IF m[t][n] = x /\ x # nil THEN 1 ELSE 0)
      BY <2>1, <3>2
    <3>4. K[n] = H[n] + (IF n = x /\ x # nil THEN 1 ELSE 0)
      BY <2>1
    <3>5. CASE n = x
      <4>1. n # nil /\ Weight(m, n) = 0 /\ Weight(b, n) = 1
        BY <3>5, <1>1, <1>3, <1>4 DEF Weight
      <4>2. K[n] = H[n] + 1
        BY <3>4, <3>5, <4>1
      <4> QED BY <3>1, <3>2, <3>3, <4>1, <4>2
    <3>6. CASE n # x
      <4>1. Weight(b, n) = Weight(m, n)
        BY <3>6, <1>3, <1>4 DEF Weight
      <4>2. K[n] = H[n] + 0
        BY <3>4, <3>6
      <4> QED BY <3>1, <3>2, <3>3, <4>1, <4>2
    <3> QED BY <3>5, <3>6
  <2> QED BY <2>1, <2>2 DEF Heights
<1> HIDE DEF K
<1>9. Settled(b, N, K)
  <2>1. NoGap(b, N, K)
    <3>1. Tree(b, A, N, D, top) /\ Heights(b, N, K)
      BY <1>4, <1>8
    <3> QED BY ONLY <3>1, NoGapIs
  <2> QED BY <2>1, <1>5, <1>6 DEF Settled
<1>10. N # {} => Root(b, x) = top
  <2>1. Shape(b, N, D, top)
    BY <1>4 DEF Tree
  <2>2. N # {} /\ x = nil => b.parent[nil] \in N
    BY <1>2, <1>4
  <2> QED BY <2>1, <2>2, <1>2, RootIsTop
<1>11. Whole(b, A, N, x)
  BY <1>4, <1>9, <1>10 DEF Whole
<1> QED BY <1>11 DEF b

\* The state of a turn: the cursor is the root, or it has a higher sibling.
Turning(N, D, H, top) ==
  /\ Tree(mem, alive, N, D, top)
  /\ \/ /\ mem.parent[cursor] = nil /\ NoGap(mem, N, H) /\ Calm(mem, N, cursor)
        /\ Sibling = nil /\ Near = nil /\ FarNephew = nil
     \/ GapAt(mem, N, H, cursor, mem.parent[cursor], Side, Sibling)

\* While the cursor is black the loop is in such a state.
LEMMA RepairState ==
  ASSUME Removing, ~Red(mem, cursor)
  PROVE  \E D, H, top : Turning(alive \ {victim}, D, H, top)
<1> DEFINE N == alive \ {victim}
           p == mem.parent[cursor]
<1>1. PICK D, H, top : Tree(mem, alive, N, D, top) /\ RemoveState(mem, N, H, top, cursor)
  BY DEF Removing
<1>2. CASE p = nil /\ cursor = top /\ NoGap(mem, N, H) /\ Calm(mem, N, cursor)
  <2>1. \A t \in Sides : mem[t][nil] = nil
    <3>1. mem["left"][nil] = nil /\ mem["right"][nil] = nil
      BY <1>1 DEF Tree, Shape
    <3> QED BY <3>1 DEF Sides
  <2>2. Side \in Sides
    BY DEF Side, SideOf, Sides
  <2>3. Opposite[Side] \in Sides
    BY <2>2, OppositeSide
  <2>4. Sibling = nil /\ Near = nil /\ FarNephew = nil
    BY <1>2, <2>1, <2>2, <2>3 DEF Sibling, Near, FarNephew
  <2> QED BY <1>1, <1>2, <2>4 DEF Turning
<1>3. CASE GapAt(mem, N, H, cursor, p, SideOf(mem, cursor, p),
                 mem[Opposite[SideOf(mem, cursor, p)]][p])
  BY <1>1, <1>3 DEF Turning, Side, Sibling
<1>4. \/ p = nil /\ cursor = top /\ NoGap(mem, N, H) /\ Calm(mem, N, cursor)
      \/ GapAt(mem, N, H, cursor, p, SideOf(mem, cursor, p),
                 mem[Opposite[SideOf(mem, cursor, p)]][p])
  <2>1. Tree(mem, alive, N, D, top) /\ RemoveState(mem, N, H, top, cursor) /\ ~Red(mem, cursor)
    BY <1>1
  <2> HIDE DEF N
  <2> QED BY ONLY <2>1, WhereTheGapIs
<1> QED BY <1>2, <1>3, <1>4

\* In a turn there is always a sibling to look at if a red node is near.
LEMMA GapIsThere ==
  ASSUME NEW N, NEW D, NEW H, NEW top, Turning(N, D, H, top),
         Red(mem, Sibling) \/ Red(mem, Near) \/ Red(mem, FarNephew)
  PROVE  GapAt(mem, N, H, cursor, mem.parent[cursor], Side, Sibling)
BY DEF Turning, Calm

\* A turn with a red sibling keeps the invariant.
LEMMA RemoveRedSiblingStep ==
  ASSUME IInv, RemoveRedSibling PROVE IInv'
<1> DEFINE N == alive \ {victim}
           p == mem.parent[cursor]
<1>1. /\ Removing /\ pc = "remove" /\ ~Red(mem, cursor) /\ Red(mem, Sibling)
      /\ mem' = Rotate(Paint(Paint(mem, Sibling, "black"), p, "red"), p, Side)
      /\ UNCHANGED <<alive, node, begin, tail, size, pc, cursor, victim>>
  BY DEF IInv, RemoveRedSibling, Repairing, treeVars, callVars
<1>2. PICK D, H, top : Turning(N, D, H, top)
  BY <1>1, RepairState
<1>3. Tree(mem, alive, N, D, top) /\ GapAt(mem, N, H, cursor, p, Side, Sibling) /\ Red(mem, Sibling)
  BY <1>1, <1>2, GapIsThere DEF Turning
<1> HIDE DEF N, p
<1>4. Lame(Rotate(Paint(Paint(mem, Sibling, "black"), p, "red"), p, Side), alive, N, cursor)
  BY ONLY <1>3, RedSiblingTurn
<1>5. Lame(mem', alive, alive \ {victim}, cursor')
  BY <1>1, <1>4 DEF N
<1> QED BY <1>1, <1>5, RemovingStep

\* A turn that climbs keeps the invariant, above the root too.
LEMMA RemoveClimbStep ==
  ASSUME IInv, RemoveClimb PROVE IInv'
<1> DEFINE N == alive \ {victim}
           p == mem.parent[cursor]
<1>1. /\ Removing /\ pc = "remove" /\ ~Red(mem, cursor)
      /\ ~Red(mem, Sibling) /\ ~Red(mem, Near) /\ ~Red(mem, FarNephew)
      /\ mem' = Paint(mem, Sibling, "red") /\ cursor' = p
      /\ UNCHANGED <<alive, node, begin, tail, size, pc, victim>>
  BY DEF IInv, RemoveClimb, Repairing, treeVars
<1>2. PICK D, H, top : Turning(N, D, H, top)
  BY <1>1, RepairState
<1>3. Lame(mem', alive, N, p)
  <2>1. CASE p = nil /\ NoGap(mem, N, H) /\ Calm(mem, N, cursor) /\ Sibling = nil
    <3>1. Tree(mem, alive, N, D, top) /\ NoGap(mem, N, H) /\ Calm(mem, N, cursor)
      BY <1>2, <2>1 DEF Turning
    <3> HIDE DEF N
    <3>2. Lame(Paint(mem, nil, "red"), alive, N, nil)
      BY ONLY <3>1, TopTurn
    <3> QED BY <3>2, <2>1, <1>1
  <2>2. CASE GapAt(mem, N, H, cursor, p, Side, Sibling)
    <3>1. /\ Tree(mem, alive, N, D, top) /\ GapAt(mem, N, H, cursor, p, Side, Sibling)
          /\ ~Red(mem, Sibling) /\ ~Red(mem, mem[Side][Sibling])
          /\ ~Red(mem, mem[Opposite[Side]][Sibling])
      BY <1>1, <1>2, <2>2 DEF Turning, Near, FarNephew
    <3> HIDE DEF N, p
    <3>2. Lame(Paint(mem, Sibling, "red"), alive, N, p)
      BY ONLY <3>1, ClimbTurn
    <3> QED BY <3>2, <1>1
  <2> QED BY <1>2, <2>1, <2>2 DEF Turning
<1>4. Lame(mem', alive, alive \ {victim}, cursor')
  BY <1>1, <1>3
<1> QED BY <1>1, <1>4, RemovingStep

\* A turn with a red near nephew keeps the invariant.
LEMMA RemoveNearNephewStep ==
  ASSUME IInv, RemoveNearNephew PROVE IInv'
<1> DEFINE N == alive \ {victim}
           p == mem.parent[cursor]
<1>1. /\ Removing /\ pc = "remove" /\ ~Red(mem, cursor)
      /\ ~Red(mem, Sibling) /\ Red(mem, Near) /\ ~Red(mem, FarNephew)
      /\ mem' = Rotate(Paint(Paint(mem, Near, "black"), Sibling, "red"), Sibling, Opposite[Side])
      /\ UNCHANGED <<alive, node, begin, tail, size, pc, cursor, victim>>
  BY DEF IInv, RemoveNearNephew, Repairing, treeVars, callVars
<1>2. PICK D, H, top : Turning(N, D, H, top)
  BY <1>1, RepairState
<1>3. /\ Tree(mem, alive, N, D, top) /\ GapAt(mem, N, H, cursor, p, Side, Sibling)
      /\ ~Red(mem, Sibling) /\ Red(mem, mem[Side][Sibling])
      /\ ~Red(mem, mem[Opposite[Side]][Sibling])
  <2>1. Tree(mem, alive, N, D, top) /\ GapAt(mem, N, H, cursor, p, Side, Sibling)
    BY <1>1, <1>2, GapIsThere DEF Turning
  <2> QED BY <2>1, <1>1 DEF Near, FarNephew
<1> HIDE DEF N, p
<1>4. Lame(Rotate(Paint(Paint(mem, mem[Side][Sibling], "black"), Sibling, "red"), Sibling,
                  Opposite[Side]), alive, N, cursor)
  BY ONLY <1>3, NearNephewTurn
<1>5. Lame(mem', alive, alive \ {victim}, cursor')
  BY <1>1, <1>4 DEF N, Near
<1> QED BY <1>1, <1>5, RemovingStep

\* The end of the loop leaves a red-black tree without the victim.
LEMMA RemoveDoneStep ==
  ASSUME NEW m, Removing, RemoveDone(m),
         Whole(Paint(m, cursor, "black"), alive, alive \ {victim}, cursor)
  PROVE  IInv'
<1> DEFINE b == Paint(m, cursor, "black")
<1>1. PICK D, H, top : /\ Tree(b, alive, alive \ {victim}, D, top)
                       /\ Settled(b, alive \ {victim}, H)
                       /\ alive \ {victim} # {} => Root(b, cursor) = top
  BY DEF Whole
<1>2. /\ FinishRemoval(b, Root(b, cursor), victim, by_key)
      /\ begin' = begin /\ tail' = tail /\ size' = size
  BY DEF RemoveDone
<1>3. victim \in alive /\ Counters(alive \ {victim}, size', begin', tail')
  BY <1>2 DEF Removing
<1> HIDE DEF b
<1>4. /\ Tree(b, alive, alive \ {victim}, D, top) /\ Settled(b, alive \ {victim}, H)
      /\ Counters(alive \ {victim}, size', begin', tail') /\ victim \in alive
      /\ alive \ {victim} # {} => Root(b, cursor) = top
      /\ FinishRemoval(b, Root(b, cursor), victim, by_key)
  BY <1>1, <1>2, <1>3
<1> QED BY ONLY <1>4, FinishStep

\* The last rotation keeps the invariant.
LEMMA RemoveRotateStep ==
  ASSUME IInv, RemoveRotate PROVE IInv'
<1> DEFINE N == alive \ {victim}
           p == mem.parent[cursor]
           m == Paint(Paint(Paint(mem, Sibling, mem.color[p]), p, "black"), FarNephew, "black")
<1>1. /\ Removing /\ pc = "remove" /\ ~Red(mem, cursor)
      /\ ~Red(mem, Sibling) /\ Red(mem, FarNephew)
      /\ RemoveDone(Rotate(m, p, Side))
  BY DEF IInv, RemoveRotate, Repairing
<1>2. PICK D, H, top : Turning(N, D, H, top)
  BY <1>1, RepairState
<1>3. /\ Tree(mem, alive, N, D, top) /\ GapAt(mem, N, H, cursor, p, Side, Sibling)
      /\ FarNephew = mem[Opposite[Side]][Sibling] /\ ~Red(mem, Sibling) /\ Red(mem, FarNephew)
  <2>1. Tree(mem, alive, N, D, top) /\ GapAt(mem, N, H, cursor, p, Side, Sibling)
    BY <1>1, <1>2, GapIsThere DEF Turning
  <2> QED BY <2>1, <1>1 DEF FarNephew
<1> HIDE DEF N, p
<1>4. Whole(Paint(Rotate(m, p, Side), cursor, "black"), alive, N, cursor)
  BY ONLY <1>3, LastTurn
<1> HIDE DEF m
<1>5. Whole(Paint(Rotate(m, p, Side), cursor, "black"), alive, alive \ {victim}, cursor)
  BY <1>4 DEF N
<1> QED BY <1>1, <1>5, RemoveDoneStep

\* The end of the loop at a red cursor keeps the invariant.
LEMMA RemoveStopStep ==
  ASSUME IInv, RemoveStop PROVE IInv'
<1> DEFINE N == alive \ {victim}
<1>1. Removing /\ Red(mem, cursor) /\ RemoveDone(mem)
  BY DEF IInv, RemoveStop
<1>2. PICK D, H, top : Tree(mem, alive, N, D, top) /\ RemoveState(mem, N, H, top, cursor)
  BY <1>1 DEF Removing
<1>3. Tree(mem, alive, N, D, top) /\ RemoveState(mem, N, H, top, cursor) /\ Red(mem, cursor)
  BY <1>1, <1>2
<1> HIDE DEF N
<1>4. Whole(Paint(mem, cursor, "black"), alive, N, cursor)
  BY ONLY <1>3, StopTurn
<1>5. Whole(Paint(mem, cursor, "black"), alive, alive \ {victim}, cursor)
  BY <1>4 DEF N
<1> QED BY <1>1, <1>5, RemoveDoneStep

-----------------------------------------------------------------------------
(* The theorems.                                                           *)

\* A removal by key goes for a node of the tree or changes nothing.
LEMMA RemoveStepByKey ==
  ASSUME IInv, NEW k \in Keys, Remove(k) PROVE IInv'
<1>1. CASE pc = "idle" /\ Get(k) = nil /\ UNCHANGED vars
  BY <1>1, StutterStep
<1>2. CASE pc = "idle" /\ Get(k) = k /\ RemoveBase(k, TRUE)
  <2>1. Idle
    BY <1>2 DEF IInv
  <2>2. PICK D : Tree(mem, alive, alive, D, node)
    BY <2>1 DEF Idle
  <2>3. Descend(k) = k /\ k # nil
    BY <1>2, KeysAssumption DEF Get
  <2>4. node # nil /\ Search(mem, k, node) = k
    BY <2>3, DescendSearches
  <2>5. Search(mem, k, node) \in alive
    <3>1. Shape(mem, alive, D, node) /\ Inward(mem, alive) /\ k \in Keys /\ node # nil
      BY <2>2, <2>4 DEF Tree
    <3> QED BY ONLY <3>1, SearchFinds
  <2>6. k \in alive
    BY <2>4, <2>5
  <2> QED BY <1>2, <2>6, RemoveBaseStep
<1> QED BY <1>1, <1>2 DEF Remove

\* Every step of the model keeps the inductive invariant.
LEMMA NextIInv ==
  ASSUME IInv, [Next]_vars PROVE IInv'
<1>1. CASE UNCHANGED vars
  BY <1>1, StutterStep
<1>2. ASSUME NEW k \in Keys, Access(k) PROVE IInv'
  <2>1. CASE UNCHANGED vars
    BY <2>1, StutterStep
  <2>2. CASE InsertFirst(k)
    BY <2>2, InsertFirstStep
  <2>3. CASE InsertBelow(k)
    BY <2>3, InsertBelowStep
  <2> QED BY <1>2, <2>1, <2>2, <2>3 DEF Access
<1>3. ASSUME NEW k \in Keys, RBREMOVE(k) PROVE IInv'
  BY <1>3, RemoveBaseStep DEF RBREMOVE
<1>4. ASSUME NEW k \in Keys, Remove(k) PROVE IInv'
  BY <1>4, RemoveStepByKey
<1>5. CASE InsertStep
  BY <1>5, InsertRecolorStep, InsertRotateStep, InsertDoneStep DEF InsertStep
<1>6. CASE RemoveStep
  BY <1>6, RemoveRedSiblingStep, RemoveClimbStep, RemoveNearNephewStep, RemoveRotateStep,
     RemoveStopStep DEF RemoveStep
<1>7. CASE Destroy
  BY <1>7, DestroyStep
<1>8. CASE Create
  BY <1>8, CreateStep
<1> QED BY <1>1, <1>2, <1>3, <1>4, <1>5, <1>6, <1>7, <1>8 DEF Next

\* The inductive invariant holds in every state, for all keys: what links and
\* colours are at each turn of the loops of cnrbtree.h.
THEOREM TreeInvariant == Spec => []IInv
<1>1. Init => IInv
  BY InitIInv
<1>2. IInv /\ [Next]_vars => IInv'
  BY NextIInv
<1> QED BY <1>1, <1>2, PTL DEF Spec

\* The root that the code climbs to is the root of the tree that hangs there.
LEMMA TopIs ==
  ASSUME NEW N, NEW D, NEW top, Tree(mem, alive, N, D, top),
         IF N = {} THEN node = nil ELSE node \in N
  PROVE  Top = top
<1>1. Shape(mem, N, D, top) /\ nil \notin N /\ top \in N \cup {nil}
  BY KeysAssumption DEF Tree, Shape
<1>2. CASE N = {}
  BY <1>1, <1>2 DEF Top
<1>3. CASE N # {}
  <2>1. node \in N /\ node # nil
    BY <1>1, <1>3
  <2>2. Root(mem, node) = top
    BY <1>1, <2>1, RootIsTop
  <2> QED BY <2>1, <2>2 DEF Top
<1> QED BY <1>2, <1>3

\* While there is a tree, what hangs from the root is every node but the victim.
LEMMA TheTree ==
  ASSUME IInv, pc \in {"idle", "insert", "remove"}
  PROVE  /\ \E D : Tree(mem, alive, alive \ {victim}, D, Top)
         /\ pc = "idle" => node = Top /\ ~Red(mem, nil)
<1>2. CASE pc = "idle"
  <2>1. Idle
    BY <1>2 DEF IInv
  <2>2. PICK D, H : Tree(mem, alive, alive, D, node) /\ Settled(mem, alive, H) /\ victim = nil
    BY <2>1 DEF Idle
  <2>3. alive \subseteq Keys /\ nil \notin alive /\ node \in alive \cup {nil} /\ D[node] = alive /\ D[nil] = {}
    BY <2>2, KeysAssumption DEF Tree, Shape
  <2>4. alive \ {victim} = alive
    BY <2>2, <2>3
  <2>5. IF alive = {} THEN node = nil ELSE node \in alive
    BY <2>3
  <2>6. Top = node
    BY <2>2, <2>5, TopIs
  <2> QED BY <2>2, <2>4, <2>6 DEF Settled
<1>3. CASE pc = "insert"
  <2>1. Inserting
    BY <1>3 DEF IInv
  <2>2. PICK D, H, top : Tree(mem, alive, alive, D, top) /\ node \in alive /\ victim = nil
    BY <2>1 DEF Inserting
  <2>3. alive \ {victim} = alive
    BY <2>2, KeysAssumption DEF Tree
  <2>4. Top = top
    BY <2>2, TopIs
  <2> QED BY <2>2, <2>3, <2>4, <1>3
<1>4. CASE pc = "remove"
  <2>1. Removing
    BY <1>4 DEF IInv
  <2> DEFINE N == alive \ {victim}
  <2>2. PICK D, H, top : Tree(mem, alive, N, D, top) /\ IF N = {} THEN node = nil ELSE node \in N
    BY <2>1 DEF Removing
  <2>3. Top = top
    BY <2>2, TopIs
  <2> QED BY <2>2, <2>3, <1>4
<1> QED BY <1>2, <1>3, <1>4

\* The invariant gives the first property: the links are those of the tree.
LEMMA LinkedHolds == IInv => Linked
<1> SUFFICES ASSUME IInv, pc \in {"idle", "insert", "remove"}
             PROVE  /\ Below(Top) = alive \ {victim}
                    /\ \A n \in Below(Top), s \in Sides :
                         /\ mem[s][n] # nil => mem.parent[mem[s][n]] = n
                         /\ \A b \in Below(mem[s][n]) : IF s = "left" THEN b < n ELSE b > n
                    /\ mem.left[nil] = nil /\ mem.right[nil] = nil
                    /\ pc = "idle" => node = Top /\ ~Red(mem, nil)
  BY DEF Linked
<1> DEFINE N == alive \ {victim}
<1>1. PICK D : Tree(mem, alive, N, D, Top)
  BY TheTree
<1>2. /\ Shape(mem, N, D, Top) /\ Inward(mem, N)
      /\ Top \in N \cup {nil} /\ D[Top] = N
      /\ mem.left[nil] = nil /\ mem.right[nil] = nil
      /\ \A n \in N, s \in Sides :
           /\ mem[s][n] \in N \cup {nil}
           /\ mem[s][n] # nil => mem.parent[mem[s][n]] = n
           /\ \A b \in D[mem[s][n]] : Before(s, b, n)
  BY <1>1 DEF Tree, Shape
<1> HIDE DEF N
<1>3. \A n \in N \cup {nil} : Below(n) = D[n]
  BY <1>2, BelowIsD
<1>4. Below(Top) = N
  BY <1>2, <1>3
<1>5. \A n \in N, s \in Sides : \A b \in Below(mem[s][n]) : IF s = "left" THEN b < n ELSE b > n
  BY <1>2, <1>3 DEF Before
<1> QED BY <1>2, <1>4, <1>5, TheTree DEF N

\* The properties' statement that the links of the tree are right holds always.
THEOREM TreeLinked == Spec => []Linked
<1>1. IInv => Linked
  BY LinkedHolds
<1> QED BY <1>1, TreeInvariant, PTL

\* What the second property needs of a tree whose root is Top: heights that are
\* even but for the black that the cursor stands for, and the reds that are
\* together.
Coloured(N, D, H, gp, gs) ==
  /\ Tree(mem, alive, N, D, Top)
  /\ Balanced(mem, N, H, gp, gs)
  /\ \A x \in N, s \in Sides : Extra(mem[s][x], x) = IF x = gp /\ s = gs THEN 1 ELSE 0
  /\ \A n \in N : RedPair(mem, n) => pc # "idle" /\ cursor \in {n, mem.parent[n]}

\* A tree that no removal repairs has even heights.
LEMMA ColouredInPeace ==
  ASSUME NEW D, NEW H, Tree(mem, alive, alive, D, Top), NoGap(mem, alive, H),
         victim = nil, pc # "remove",
         \A n \in alive : RedPair(mem, n) => pc # "idle" /\ cursor = n
  PROVE  Coloured(alive \ {victim}, D, H, nil, "left")
<1>1. alive \subseteq Keys /\ nil \notin alive
  BY KeysAssumption DEF Tree
<1>2. alive \ {victim} = alive
  BY <1>1
<1>3. \A x \in alive, s \in Sides :
        Extra(mem[s][x], x) = IF x = nil /\ s = "left" THEN 1 ELSE 0
  BY <1>1 DEF Extra
<1> QED BY <1>2, <1>3 DEF Coloured, NoGap

\* While a removal is repaired they are uneven where its cursor hangs.
LEMMA ColouredInRepair ==
  ASSUME NEW N, NEW D, NEW H, Tree(mem, alive, N, D, Top), pc = "remove",
         RemoveState(mem, N, H, Top, cursor)
  PROVE  \E gp, gs : Coloured(N, D, H, gp, gs)
<1>1. /\ N \subseteq Keys /\ nil \notin N
      /\ \A n \in N, t \in Sides : mem[t][n] \in N \cup {nil}
  BY KeysAssumption DEF Tree, Shape
<1>2. /\ \A n \in N : RedPair(mem, n) => pc # "idle" /\ cursor \in {n, mem.parent[n]}
      /\ Lacking(mem, N, H, Top, cursor) /\ cursor \in N \cup {nil}
  BY DEF RemoveState
<1>3. CASE NoGap(mem, N, H) /\ (Red(mem, nil) \/ mem.parent[cursor] = nil)
  <2>1. \A x \in N, s \in Sides :
          Extra(mem[s][x], x) = IF x = nil /\ s = "left" THEN 1 ELSE 0
    BY <1>1, <1>3 DEF Extra
  <2>2. Coloured(N, D, H, nil, "left")
    BY <1>2, <1>3, <2>1 DEF Coloured, NoGap
  <2> QED BY <2>2
<1>4. CASE /\ ~Red(mem, nil) /\ mem.parent[cursor] \in N
           /\ \E s \in Sides : /\ mem[s][mem.parent[cursor]] = cursor
                               /\ Balanced(mem, N, H, mem.parent[cursor], s)
  <2> DEFINE p == mem.parent[cursor]
  <2>1. PICK s \in Sides : mem[s][p] = cursor /\ Balanced(mem, N, H, p, s)
    BY <1>4
  <2>2. p \in N
    BY <1>4
  <2>3. ASSUME NEW t \in Sides, mem[t][p] = cursor PROVE t = s
    <3> SUFFICES ASSUME t # s PROVE FALSE
      OBVIOUS
    <3> HIDE DEF p
    <3>1. /\ H \in [N \cup {nil} -> Nat]
          /\ H[p] = H[mem[s][p]] + 1 + Weight(mem, p)
          /\ H[p] = H[mem[t][p]] + 0 + Weight(mem, p)
      BY <2>1, <2>2, <2>3 DEF Balanced
    <3>2. H[cursor] \in Nat /\ Weight(mem, p) \in {0, 1}
      BY <3>1, <1>2, WeightIs
    <3>3. H[cursor] + 1 + Weight(mem, p) = H[cursor] + 0 + Weight(mem, p)
      BY <3>1, <2>1, <2>3
    <3> QED BY ONLY <3>2, <3>3
  <2>4. \A x \in N, t \in Sides :
          Extra(mem[t][x], x) = IF x = p /\ t = s THEN 1 ELSE 0
    <3> TAKE x \in N, t \in Sides
    <3>1. CASE x = p /\ t = s
      <4>1. mem[t][x] = cursor /\ mem.parent[mem[t][x]] = x
        BY <3>1, <2>1
      <4> QED BY <3>1, <4>1, <1>4 DEF Extra
    <3>2. CASE ~(x = p /\ t = s)
      <4>1. ~(mem[t][x] = cursor /\ mem.parent[mem[t][x]] = x)
        BY <3>2, <2>3
      <4> QED BY <3>2, <4>1 DEF Extra
    <3> QED BY <3>1, <3>2
  <2>5. Coloured(N, D, H, p, s)
    BY <1>2, <2>1, <2>4 DEF Coloured
  <2> QED BY <2>5
<1> QED BY <1>2, <1>3, <1>4 DEF Lacking

\* In every state with a tree its colours are as the property wants them.
LEMMA ColoursAre ==
  ASSUME IInv, pc \in {"idle", "insert", "remove"}
  PROVE  \E D, H, gp, gs : Coloured(alive \ {victim}, D, H, gp, gs)
<1>1. CASE pc = "idle"
  <2>1. Idle
    BY <1>1 DEF IInv
  <2>2. PICK D, H : /\ Tree(mem, alive, alive, D, node) /\ Settled(mem, alive, H)
                    /\ victim = nil
    BY <2>1 DEF Idle
  <2>3. IF alive = {} THEN node = nil ELSE node \in alive
    BY <2>2, KeysAssumption DEF Tree, Shape
  <2>4. Top = node
    BY <2>2, <2>3, TopIs
  <2>5. /\ Tree(mem, alive, alive, D, Top) /\ NoGap(mem, alive, H) /\ victim = nil
        /\ pc # "remove" /\ \A n \in alive : RedPair(mem, n) => pc # "idle" /\ cursor = n
    BY <2>2, <2>4, <1>1 DEF Settled
  <2>6. Coloured(alive \ {victim}, D, H, nil, "left")
    BY ONLY <2>5, ColouredInPeace
  <2> QED BY <2>6
<1>2. CASE pc = "insert"
  <2>1. Inserting
    BY <1>2 DEF IInv
  <2>2. PICK D, H, top : /\ Tree(mem, alive, alive, D, top) /\ NoGap(mem, alive, H)
                         /\ \A n \in alive : RedPair(mem, n) => n = cursor
                         /\ node \in alive /\ victim = nil
    BY <2>1 DEF Inserting
  <2>3. Top = top
    BY <2>2, TopIs
  <2>4. /\ Tree(mem, alive, alive, D, Top) /\ NoGap(mem, alive, H) /\ victim = nil
        /\ pc # "remove" /\ \A n \in alive : RedPair(mem, n) => pc # "idle" /\ cursor = n
    BY <2>2, <2>3, <1>2
  <2>5. Coloured(alive \ {victim}, D, H, nil, "left")
    BY ONLY <2>4, ColouredInPeace
  <2> QED BY <2>5
<1>3. CASE pc = "remove"
  <2>1. Removing
    BY <1>3 DEF IInv
  <2> DEFINE N == alive \ {victim}
  <2>2. PICK D, H, top : /\ Tree(mem, alive, N, D, top)
                         /\ RemoveState(mem, N, H, top, cursor)
                         /\ IF N = {} THEN node = nil ELSE node \in N
    BY <2>1 DEF Removing
  <2> HIDE DEF N
  <2>3. Top = top
    BY <2>2, TopIs
  <2>4. Tree(mem, alive, N, D, Top) /\ RemoveState(mem, N, H, Top, cursor) /\ pc = "remove"
    BY <2>2, <2>3, <1>3
  <2>5. \E gp, gs : Coloured(N, D, H, gp, gs)
    BY ONLY <2>4, ColouredInRepair
  <2> QED BY <2>5 DEF N
<1> QED BY <1>1, <1>2, <1>3

\* The invariant gives the second property: the tree is a red-black tree.
LEMMA RedBlackHolds == IInv => RedBlack
<1> SUFFICES ASSUME IInv, pc \in {"idle", "insert", "remove"}
             PROVE  /\ Cardinality(BlackHeights(Top)) = 1
                    /\ \A n \in Below(Top) :
                         RedPair(mem, n) => pc # "idle" /\ cursor \in {n, mem.parent[n]}
  BY DEF RedBlack, RedPair
<1> DEFINE N == alive \ {victim}
<1>1. PICK D, H, gp, gs : Coloured(N, D, H, gp, gs)
  BY ColoursAre
<1> HIDE DEF N
<1>2. /\ Shape(mem, N, D, Top) /\ Inward(mem, N) /\ Top \in N \cup {nil} /\ D[Top] = N
      /\ Balanced(mem, N, H, gp, gs)
      /\ \A x \in N, s \in Sides : Extra(mem[s][x], x) = IF x = gp /\ s = gs THEN 1 ELSE 0
  BY <1>1 DEF Coloured, Tree, Shape
<1>3. BlackHeights(Top) = {H[Top]}
  <2>1. \A n \in N \cup {nil} : BlackHeights(n) = {H[n]}
    BY ONLY <1>2, BlackHeightIsH
  <2> QED BY <1>2, <2>1
<1>4. Cardinality(BlackHeights(Top)) = 1
  BY <1>3, FS_Singleton
<1>5. Below(Top) = N
  <2>1. \A n \in N \cup {nil} : Below(n) = D[n]
    BY ONLY <1>2, BelowIsD
  <2> QED BY <1>2, <2>1
<1> QED BY <1>1, <1>4, <1>5 DEF Coloured

\* Every way down from the root has the same number of black nodes, and two
\* reds meet only where a fix-up works.
THEOREM TreeRedBlack == Spec => []RedBlack
<1>1. IInv => RedBlack
  BY RedBlackHolds
<1> QED BY <1>1, TreeInvariant, PTL

\* The node next to n on one side is the last on the other of those beyond n.
LEMMA NextIsEnd ==
  ASSUME NEW N \in SUBSET Keys, NEW n \in N, NEW v
  PROVE  /\ IsNext(N, "right", n, v) => Least({o \in N : o > n}) = v
         /\ IsNext(N, "left", n, v) => Greatest({o \in N : o < n}) = v
<1> DEFINE R == {o \in N : o > n}
           L == {o \in N : o < n}
<1>1. ASSUME IsNext(N, "right", n, v) PROVE IsEnd("left", R, v)
  <2>1. \/ v = nil /\ \A u \in N : ~(u > n)
        \/ v \in N /\ v > n /\ \A u \in N : u > n => u = v \/ u > v
    BY <1>1 DEF IsNext, Before
  <2>2. \A u \in N : u \in Int
    BY KeysAssumption
  <2> QED BY <2>1, <2>2 DEF IsEnd, Before
<1>2. ASSUME IsNext(N, "left", n, v) PROVE IsEnd("right", L, v)
  <2>1. \/ v = nil /\ \A u \in N : ~(u < n)
        \/ v \in N /\ v < n /\ \A u \in N : u < n => u = v \/ u < v
    BY <1>2 DEF IsNext, Before
  <2>2. \A u \in N : u \in Int
    BY KeysAssumption
  <2> QED BY <2>1, <2>2 DEF IsEnd, Before
<1>3. R \in SUBSET Keys /\ L \in SUBSET Keys
  OBVIOUS
<1> HIDE DEF R, L
<1>4. ASSUME IsEnd("left", R, v) PROVE Least(R) = v
  BY <1>3, <1>4, EndIsLeast
<1>5. ASSUME IsEnd("right", L, v) PROVE Greatest(L) = v
  BY <1>3, <1>5, EndIsLeast
<1> QED BY <1>1, <1>2, <1>4, <1>5 DEF R, L

\* The invariant gives the third property: iteration goes in order.
LEMMA IterationHolds == IInv => IterationInOrder
<1> SUFFICES ASSUME IInv, pc = "idle"
             PROVE  /\ size = Cardinality(alive)
                    /\ begin = Least(alive) /\ tail = Greatest(alive)
                    /\ \A n \in alive :
                         /\ NextNode(mem, n) = Least({o \in alive : o > n})
                         /\ PrevNode(mem, n) = Greatest({o \in alive : o < n})
  BY DEF IterationInOrder
<1>1. PICK D : Tree(mem, alive, alive, D, node) /\ Counters(alive, size, begin, tail)
  BY DEF IInv, Idle
<1>2. Shape(mem, alive, D, node) /\ Inward(mem, alive) /\ alive \in SUBSET Keys
  BY <1>1 DEF Tree
<1>3. size = Cardinality(alive) /\ begin = Least(alive) /\ tail = Greatest(alive)
  <2>1. /\ size = Cardinality(alive)
        /\ IsEnd("left", alive, begin) /\ IsEnd("right", alive, tail)
    BY <1>1 DEF Counters
  <2>2. Least(alive) = begin
    BY <1>2, <2>1, EndIsLeast
  <2>3. Greatest(alive) = tail
    BY <1>2, <2>1, EndIsLeast
  <2> QED BY <2>1, <2>2, <2>3
<1>4. ASSUME NEW n \in alive
      PROVE  /\ NextNode(mem, n) = Least({o \in alive : o > n})
             /\ PrevNode(mem, n) = Greatest({o \in alive : o < n})
  <2>1. \A s \in Sides : IsNext(alive, s, n, Neighbour(mem, s, n))
    BY ONLY <1>2, <1>4, NeighbourIsNext
  <2>2. /\ IsNext(alive, "right", n, NextNode(mem, n))
        /\ IsNext(alive, "left", n, PrevNode(mem, n))
    BY <2>1 DEF NextNode, PrevNode, Sides
  <2>3. NextNode(mem, n) = Least({o \in alive : o > n})
    BY <1>2, <2>2, NextIsEnd
  <2>4. PrevNode(mem, n) = Greatest({o \in alive : o < n})
    BY <1>2, <2>2, NextIsEnd
  <2> QED BY <2>3, <2>4
<1> QED BY <1>3, <1>4

\* Between calls, iteration visits every key once and in order, begin and tail
\* are its ends and size counts the keys.
THEOREM TreeIterates == Spec => []IterationInOrder
<1>1. IInv => IterationInOrder
  BY IterationHolds
<1> QED BY <1>1, TreeInvariant, PTL

\* A node from which k would hang, with all others on the same side of both,
\* is the first after k or the last before it.
LEMMA SameSidesIsEnd ==
  ASSUME NEW N \in SUBSET Keys, NEW k \in Keys \ N, NEW x \in N, SameSides(N, k, x)
  PROVE  x \in {Least({o \in N : o > k}), Greatest({o \in N : o < k})}
<1> DEFINE R == {o \in N : o > k}
           L == {o \in N : o < k}
<1>1. R \in SUBSET Keys /\ L \in SUBSET Keys /\ x # k
  OBVIOUS
<1>2. \A u \in N : u \in Int
  BY KeysAssumption
<1>3. k \in Int
  BY KeysAssumption
<1>4. \A u \in N \ {x} : (k < u <=> x < u) /\ (k > u <=> x > u)
  BY DEF SameSides, Before, Sides
<1>5. CASE x > k
  <2>1. \A u \in N : u > k /\ u # x => x < u
    BY <1>4
  <2>2. IsEnd("left", R, x)
    BY <1>5, <2>1 DEF IsEnd, Before
  <2> HIDE DEF R
  <2>3. Least(R) = x
    BY <1>1, <2>2, EndIsLeast
  <2> QED BY <2>3 DEF R
<1>6. CASE x < k
  <2>1. \A u \in N : u < k /\ u # x => x > u
    BY <1>2, <1>3, <1>4
  <2>2. IsEnd("right", L, x)
    BY <1>6, <2>1 DEF IsEnd, Before
  <2> HIDE DEF L
  <2>3. Greatest(L) = x
    BY <1>1, <2>2, EndIsLeast
  <2> QED BY <2>3 DEF L
<1>7. x < k \/ x > k
  BY <1>1, <1>2, <1>3
<1> QED BY <1>5, <1>6, <1>7

\* The invariant gives the fourth property: a search ends where it should.
LEMMA LookupsHold == IInv => LookupsFind
<1> SUFFICES ASSUME IInv, pc = "idle", NEW k \in Keys
             PROVE  /\ Get(k) = IF k \in alive THEN k ELSE nil
                    /\ GetApprox(k) \in IF k \in alive THEN {k}
                                        ELSE {Least({o \in alive : o > k}),
                                              Greatest({o \in alive : o < k})}
                    /\ GetApprox(k) = nil => alive = {}
  BY DEF LookupsFind
<1>1. PICK D : Tree(mem, alive, alive, D, node)
  BY DEF IInv, Idle
<1>2. /\ Shape(mem, alive, D, node) /\ Inward(mem, alive) /\ alive \in SUBSET Keys
      /\ nil \notin Keys /\ (node = nil => alive = {})
  <2>1. D[node] = alive /\ D[nil] = {} /\ Shape(mem, alive, D, node) /\ Inward(mem, alive)
        /\ alive \in SUBSET Keys
    BY <1>1 DEF Tree, Shape
  <2> QED BY <2>1, KeysAssumption
<1>3. CASE node = nil
  <2>1. Descend(k) = nil /\ k # nil
    BY <1>2, <1>3, DescendSearches
  <2>2. Least({o \in alive : o > k}) = nil
    BY <1>2, <1>3 DEF Least
  <2> QED BY <1>2, <1>3, <2>1, <2>2 DEF Get, GetApprox
<1>4. CASE node # nil
  <2> DEFINE x == Search(mem, k, node)
  <2>1. /\ x \in alive
        /\ k \in alive => x = k
        /\ k \notin alive => SameSides(alive, k, x)
    <3>1. Shape(mem, alive, D, node) /\ Inward(mem, alive) /\ k \in Keys /\ node # nil
      BY <1>2, <1>4
    <3> QED BY ONLY <3>1, SearchFinds
  <2> HIDE DEF x
  <2>2. Descend(k) = x
    BY <1>4, DescendSearches DEF x
  <2>3. x # nil
    BY <1>2, <2>1
  <2>4. CASE k \in alive
    BY <2>1, <2>2, <2>3, <2>4 DEF Get, GetApprox
  <2>5. CASE k \notin alive
    <3>1. x \in {Least({o \in alive : o > k}), Greatest({o \in alive : o < k})}
      BY <1>2, <2>1, <2>5, SameSidesIsEnd
    <3>2. x # k
      BY <2>1, <2>5
    <3> QED BY <2>2, <2>3, <2>5, <3>1, <3>2 DEF Get, GetApprox
  <2> QED BY <2>4, <2>5
<1> QED BY <1>3, <1>4

\* Between calls a lookup finds exactly the keys of the tree, and an approximate
\* one ends at a key with no other between.
THEOREM TreeLookups == Spec => []LookupsFind
<1>1. IInv => LookupsFind
  BY LookupsHold
<1> QED BY <1>1, TreeInvariant, PTL
=============================================================================
