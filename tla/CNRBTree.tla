------------------------------ MODULE CNRBTree ------------------------------
(***************************************************************************)
(* The red-black tree of cnrbtree/cnrbtree.h, as nodes in memory: parent,  *)
(* left and right pointers, a colour, and one nil node that stands for     *)
(* every missing one and is written to like the others.                    *)
(*                                                                         *)
(* A step is one turn of the loop of a fix-up or a part of one; what comes *)
(* before and after the loop belongs to the first and the last step.  A    *)
(* node is named by its key.  What the code writes twice, once for each    *)
(* side, has the side as a parameter here.                                 *)
(***************************************************************************)
EXTENDS Integers, FiniteSets

CONSTANTS Keys,  \* a finite set of integers
          nil    \* cnrbtree_nil

ASSUME KeysAssumption == Keys \subseteq Int /\ IsFiniteSet(Keys) /\ nil \notin Keys

VARIABLES
  mem,               \* the fields of every node
  alive,             \* the nodes that are allocated
  node, begin, tail, size,  \* the fields of the tree
  pc,                \* "none", "idle", the loop that is running, "undefined"
  cursor,            \* z of the insertion, x of the removal
  victim,            \* the node that the removal in progress will free
  by_key             \* that removal was called with a key

treeVars == <<node, begin, tail, size>>
callVars == <<pc, cursor, victim, by_key>>
vars == <<mem, alive, treeVars, callVars>>

Cells == Keys \cup {nil}
Sides == {"left", "right"}
Opposite == [left |-> "right", right |-> "left"]

Red(m, n) == m.color[n] = "red"
Paint(m, n, c) == [m EXCEPT !.color[n] = c]

\* The side on which n hangs from p; "right" if it does not hang on the left.
SideOf(m, n, p) == IF m.left[p] = n THEN "left" ELSE "right"

\* From n as far as it goes: down on one side, or up.
Far(m, side, n) ==
  LET far[x \in Keys] == IF m[side][x] = nil THEN x ELSE far[m[side][x]] IN far[n]

\* Mutant: the root pointer is not moved up to the root.
Root_Here(m, n) == n

Root(m, n) ==
  LET up[x \in Cells] == IF m.parent[x] = nil THEN x ELSE up[m.parent[x]] IN up[n]

\* The node after n, for side "right", or before it, for side "left".
Neighbour(m, side, n) ==
  LET climb[x \in Keys] == LET p == m.parent[x] IN
        IF p # nil /\ m[side][p] = x THEN climb[p] ELSE p
  IN IF m[side][n] # nil THEN Far(m, Opposite[side], m[side][n]) ELSE climb[n]

NextNode(m, n) == Neighbour(m, "right", n)
PrevNode(m, n) == Neighbour(m, "left", n)

\* The link from p to n leads to nnew; p may be nil.
Rehang(m, p, n, nnew) ==
  LET up == SideOf(m, n, p)
  IN IF p # nil /\ m[up][p] = n THEN [m EXCEPT ![up][p] = nnew] ELSE m

\* n becomes the parent of its new child, if there is one.
Adopt(m, n, child) ==
  IF child = nil THEN m ELSE [m EXCEPT !.parent[child] = n]

\* Mutant: the child that changes sides keeps its parent pointer.
Rotate_OneWay(m, n, side) ==
  LET other  == Opposite[side]
      nnew   == m[other][n]
      p      == m.parent[n]
      turned == [m EXCEPT ![other][n] = m[side][nnew], ![side][nnew] = n,
                          !.parent[n] = nnew]
  IN [Rehang(turned, p, n, nnew) EXCEPT !.parent[nnew] = p]

\* n goes down on that side, its child on the other side takes its place.
Rotate(m, n, side) ==
  LET other  == Opposite[side]
      nnew   == m[other][n]
      p      == m.parent[n]
      inner  == m[side][nnew]
      turned == [m EXCEPT ![other][n] = inner, ![side][nnew] = n,
                          !.parent[n] = nnew]
  IN [Rehang(Adopt(turned, n, inner), p, n, nnew) EXCEPT !.parent[nnew] = p]

\* v takes the place of u; v may be nil, whose parent is written too.
Transplant(m, u, v) ==
  LET up == m.parent[u]
      linked == IF up = nil THEN m ELSE [m EXCEPT ![SideOf(m, u, up)][up] = v]
  IN [linked EXCEPT !.parent[v] = up]

\* T->node after that.
RootAfter(m, u, v, root) == IF m.parent[u] = nil THEN v ELSE root

\* Where the search for k ends: at k or at the node that k would hang from.
Descend(k) ==
  LET down[x \in Keys] ==
        LET c == IF k < x THEN mem.left[x] ELSE mem.right[x] IN
        IF k = x \/ c = nil THEN x ELSE down[c]
  IN IF node = nil THEN nil ELSE down[node]

\* cnrbtree_..._get2, for approx = 0 and approx = 1.
Get(k) == IF Descend(k) = k THEN k ELSE nil
GetApprox(k) == Descend(k)

\* The nodes of the subtree of n.
Below(n) ==
  LET sub[x \in Cells] ==
        IF x = nil THEN {} ELSE {x} \cup sub[mem.left[x]] \cup sub[mem.right[x]]
  IN sub[n]

Fresh == [parent |-> nil, left |-> nil, right |-> nil, color |-> "black"]

\* n gets the fields of f.
SetFields(m, n, f) ==
  [m EXCEPT !.parent[n] = f.parent, !.left[n] = f.left,
            !.right[n] = f.right, !.color[n] = f.color]

Init ==
  /\ mem = [parent |-> [n \in Cells |-> nil], left |-> [n \in Cells |-> nil],
            right |-> [n \in Cells |-> nil], color |-> [n \in Cells |-> "black"]]
  /\ alive = {}
  /\ node = nil /\ begin = nil /\ tail = nil /\ size = 0
  /\ pc = "idle" /\ cursor = nil /\ victim = nil /\ by_key = FALSE

-----------------------------------------------------------------------------
(* cnrbtree_..._access and the insertion.                                  *)

InsertFirst(k) ==
  /\ pc = "idle" /\ node = nil
  /\ mem' = SetFields(mem, k, Fresh)
  /\ node' = k /\ begin' = k /\ tail' = k /\ size' = size + 1
  /\ alive' = alive \cup {k}
  /\ UNCHANGED callVars

\* A red node is hung from where the search ended.
InsertBelow(k) ==
  LET tmp  == Descend(k)
      side == IF k < tmp THEN "left" ELSE "right"
      m    == SetFields(mem, k, [Fresh EXCEPT !.parent = tmp, !.color = "red"])
  IN
  /\ pc = "idle" /\ node # nil /\ tmp # k
  /\ mem' = [m EXCEPT ![side][tmp] = k]
  /\ begin' = IF side = "left" /\ tmp = begin THEN k ELSE begin
  /\ tail' = IF side = "right" /\ tmp = tail THEN k ELSE tail
  /\ size' = size + 1
  /\ alive' = alive \cup {k}
  /\ \/ Red(mem, tmp) /\ pc' = "insert" /\ cursor' = k
     \/ ~Red(mem, tmp) /\ UNCHANGED <<pc, cursor>>
  /\ UNCHANGED <<node, victim, by_key>>

\* A key that is there is found, and nothing changes.
Access(k) ==
  \/ pc = "idle" /\ Get(k) = k /\ UNCHANGED vars
  \/ InsertFirst(k) \/ InsertBelow(k)

TwoReds(z) == mem.parent[z] # nil /\ Red(mem, mem.parent[z])
Uncle(z) == LET zp == mem.parent[z] zpp == mem.parent[zp]
            IN mem[Opposite[SideOf(mem, zp, zpp)]][zpp]

\* Mutant: the uncle keeps its colour.
InsertRecolor_KeepsUncle ==
  LET zp == mem.parent[cursor]  zpp == mem.parent[zp] IN
  /\ pc = "insert" /\ TwoReds(cursor) /\ Red(mem, Uncle(cursor))
  /\ mem' = Paint(Paint(mem, zp, "black"), zpp, "red")
  /\ cursor' = zpp
  /\ UNCHANGED <<alive, treeVars, pc, victim, by_key>>

\* Case 1.  The root may end up red.
InsertRecolor ==
  LET z == cursor  zp == mem.parent[z]  zpp == mem.parent[zp] IN
  /\ pc = "insert" /\ TwoReds(z) /\ Red(mem, Uncle(z))
  /\ mem' = Paint(Paint(Paint(mem, zp, "black"), Uncle(z), "black"), zpp, "red")
  /\ cursor' = zpp
  /\ UNCHANGED <<alive, treeVars, pc, victim, by_key>>

\* Cases 2 and 3.  Without a grandparent the red root is painted black.
InsertRotate ==
  LET zp   == mem.parent[cursor]
      zpp  == mem.parent[zp]
      side == SideOf(mem, zp, zpp)
      bent == mem[side][zpp] = zp /\ mem[Opposite[side]][zp] = cursor
      m1   == IF bent THEN Rotate(mem, zp, side) ELSE mem
      z    == IF bent THEN zp ELSE cursor
      p    == m1.parent[z]
      pp   == m1.parent[p]
      m2   == Paint(m1, p, "black")
  IN
  /\ pc = "insert" /\ TwoReds(cursor) /\ ~Red(mem, Uncle(cursor))
  /\ mem' = IF pp = nil THEN m2
            ELSE Rotate(Paint(m2, pp, "red"), pp, Opposite[SideOf(m2, p, pp)])
  /\ cursor' = z
  /\ UNCHANGED <<alive, treeVars, pc, victim, by_key>>

InsertDone ==
  /\ pc = "insert" /\ ~TwoReds(cursor)
  /\ node' = Root(mem, cursor)
  /\ pc' = "idle" /\ cursor' = nil
  /\ UNCHANGED <<mem, alive, begin, tail, size, victim, by_key>>

-----------------------------------------------------------------------------
(* cnrbtree_generic_removebase, called by RBREMOVE with a node and by      *)
(* cnrbtree_..._remove with a key.                                         *)

\* The end of a removal, with memory m and root r.  The node is freed; its
\* fields are reset here because nobody may read them.  The call by key then
\* reads the key in the freed node and frees the node again.
FinishRemoval(m, r, z, keyed) ==
  /\ mem' = SetFields(m, z, Fresh)
  /\ node' = IF size' = 0 THEN nil ELSE r
  /\ alive' = alive \ {z}
  /\ pc' = IF keyed THEN "undefined" ELSE "idle"
  /\ cursor' = nil /\ victim' = nil /\ by_key' = FALSE

\* Mutant: begin stays at the node that is freed.
Unlinked_KeepsBegin(z, x, m, r, color, keyed) ==
  /\ size' = size - 1
  /\ tail' = IF z = tail THEN PrevNode(mem, z) ELSE tail
  /\ UNCHANGED begin
  /\ \/ /\ color = "black"
        /\ mem' = m /\ node' = r
        /\ pc' = "remove" /\ cursor' = x /\ victim' = z /\ by_key' = keyed
        /\ UNCHANGED alive
     \/ color = "red" /\ FinishRemoval(m, r, z, keyed)

\* y takes the place of z, x that of y; color is that of y before.
Unlinked(z, x, m, r, color, keyed) ==
  /\ size' = size - 1
  /\ begin' = IF z = begin THEN NextNode(mem, z) ELSE begin
  /\ tail' = IF z = tail THEN PrevNode(mem, z) ELSE tail
  /\ \/ /\ color = "black"
        /\ mem' = m /\ node' = r
        /\ pc' = "remove" /\ cursor' = x /\ victim' = z /\ by_key' = keyed
        /\ UNCHANGED alive
     \/ color = "red" /\ FinishRemoval(m, r, z, keyed)

\* z has at most one child, on that side.
UnlinkShort(z, side, keyed) ==
  LET x == mem[side][z] IN
  /\ mem[Opposite[side]][z] = nil
  /\ side = "left" => mem.left[z] # nil
  /\ Unlinked(z, x, Transplant(mem, z, x), RootAfter(mem, z, x, node),
              mem.color[z], keyed)

\* z has two children: its successor y takes its place.
UnlinkInner(z, keyed) ==
  LET y  == NextNode(mem, z)
      x  == mem.right[y]
      m1 == IF mem.parent[y] = z
            THEN [mem EXCEPT !.parent[x] = y]
            ELSE LET t == Transplant(mem, y, x)
                 IN [t EXCEPT !.right[y] = t.right[z], !.parent[t.right[z]] = y]
      m2 == Transplant(m1, z, y)
      m3 == [m2 EXCEPT !.left[y] = m2.left[z], !.parent[m2.left[z]] = y,
                       !.color[y] = m2.color[z]]
  IN
  /\ mem.left[z] # nil /\ mem.right[z] # nil
  /\ Unlinked(z, x, m3, RootAfter(m1, z, y, node), mem.color[y], keyed)

RemoveBase(z, keyed) ==
  /\ pc = "idle"
  /\ UnlinkShort(z, "left", keyed) \/ UnlinkShort(z, "right", keyed) \/ UnlinkInner(z, keyed)

\* RBREMOVE, for a node of the tree.
RBREMOVE(z) == z \in alive /\ RemoveBase(z, FALSE)

\* cnrbtree_..._remove, for any key.
Remove(k) ==
  \/ pc = "idle" /\ Get(k) = k /\ RemoveBase(k, TRUE)
  \/ pc = "idle" /\ Get(k) = nil /\ UNCHANGED vars

\* x is black and lacks one more black above it.  There is no test for the
\* root: above it x becomes nil, which is painted red here and black at last.
Side == SideOf(mem, cursor, mem.parent[cursor])
Sibling == mem[Opposite[Side]][mem.parent[cursor]]
Near == mem[Side][Sibling]
FarNephew == mem[Opposite[Side]][Sibling]

Repairing == pc = "remove" /\ ~Red(mem, cursor)

\* A red sibling is rotated away, and the turn goes on with the new one.
RemoveRedSibling ==
  LET xp == mem.parent[cursor] IN
  /\ Repairing /\ Red(mem, Sibling)
  /\ mem' = Rotate(Paint(Paint(mem, Sibling, "black"), xp, "red"), xp, Side)
  /\ UNCHANGED <<alive, treeVars, callVars>>

\* Mutant: nil is protected from being painted.
RemoveClimb_ProtectsNil ==
  /\ Repairing /\ ~Red(mem, Sibling) /\ ~Red(mem, Near) /\ ~Red(mem, FarNephew)
  /\ mem' = IF Sibling = nil THEN mem ELSE Paint(mem, Sibling, "red")
  /\ cursor' = mem.parent[cursor]
  /\ UNCHANGED <<alive, treeVars, pc, victim, by_key>>

RemoveClimb ==
  /\ Repairing /\ ~Red(mem, Sibling) /\ ~Red(mem, Near) /\ ~Red(mem, FarNephew)
  /\ mem' = Paint(mem, Sibling, "red")
  /\ cursor' = mem.parent[cursor]
  /\ UNCHANGED <<alive, treeVars, pc, victim, by_key>>

\* The near nephew is rotated into the place of the sibling, and the turn goes
\* on with RemoveRotate.
RemoveNearNephew ==
  /\ Repairing /\ ~Red(mem, Sibling) /\ Red(mem, Near) /\ ~Red(mem, FarNephew)
  /\ mem' = Rotate(Paint(Paint(mem, Near, "black"), Sibling, "red"),
                   Sibling, Opposite[Side])
  /\ UNCHANGED <<alive, treeVars, callVars>>

\* The end of the loop and what follows it.
RemoveDone(m) ==
  LET black == Paint(m, cursor, "black") IN
  /\ UNCHANGED <<begin, tail, size>>
  /\ FinishRemoval(black, Root(black, cursor), victim, by_key)

RemoveRotate ==
  LET xp == mem.parent[cursor]
      m  == Paint(Paint(Paint(mem, Sibling, mem.color[xp]), xp, "black"),
                  FarNephew, "black")
  IN
  /\ Repairing /\ ~Red(mem, Sibling) /\ Red(mem, FarNephew)
  /\ RemoveDone(Rotate(m, xp, Side))

RemoveStop == pc = "remove" /\ Red(mem, cursor) /\ RemoveDone(mem)

-----------------------------------------------------------------------------

\* cnrbtree_..._destroy: every node that is linked is freed.  nil is global
\* and keeps what the last removal wrote to it.
Destroy ==
  /\ pc = "idle"
  /\ alive' = alive \ Below(node)
  /\ mem' = [f \in DOMAIN mem |->
              [n \in Cells |-> IF n \in Below(node) THEN Fresh[f] ELSE mem[f][n]]]
  /\ pc' = "none"
  /\ UNCHANGED <<treeVars, cursor, victim, by_key>>

Create ==
  /\ pc = "none"
  /\ node' = nil /\ begin' = nil /\ tail' = nil /\ size' = 0
  /\ pc' = "idle"
  /\ UNCHANGED <<mem, alive, cursor, victim, by_key>>

InsertStep == InsertRecolor \/ InsertRotate \/ InsertDone
RemoveStep == \/ RemoveRedSibling \/ RemoveClimb \/ RemoveNearNephew
              \/ RemoveRotate \/ RemoveStop

Next ==
  \/ \E k \in Keys : Access(k) \/ RBREMOVE(k) \/ Remove(k)
  \/ InsertStep \/ RemoveStep
  \/ Destroy \/ Create

Spec == Init /\ [][Next]_vars

\* A call that has begun is carried on.
FairSpec == Spec /\ WF_vars(InsertStep \/ RemoveStep)

-----------------------------------------------------------------------------
(* Properties.                                                             *)

\* The root, which a fix-up may have moved away from the tree's pointer.
Top == IF node = nil THEN nil ELSE Root(mem, node)

\* The links go both ways, reach every node and no freed one, and have the
\* keys in order, while a fix-up runs too; nil stays a leaf.
Linked ==
  pc \in {"idle", "insert", "remove"} =>
    /\ Below(Top) = alive \ {victim}
    /\ \A n \in Below(Top), s \in Sides :
         /\ mem[s][n] # nil => mem.parent[mem[s][n]] = n
         /\ \A b \in Below(mem[s][n]) : IF s = "left" THEN b < n ELSE b > n
    /\ mem.left[nil] = nil /\ mem.right[nil] = nil
    /\ pc = "idle" => node = Top /\ ~Red(mem, nil)

\* How many black nodes the ways down from n to a leaf have.  While a removal
\* is repaired its cursor, which may be nil, counts as one black more.
BlackHeights(n) ==
  LET extra(x, p) == IF /\ pc = "remove" /\ x = cursor /\ mem.parent[x] = p
                        /\ ~Red(mem, nil)
                     THEN 1 ELSE 0
      below[x \in Keys] ==
        UNION {LET c == mem[s][x]
                   b == IF c = nil THEN {0} ELSE below[c]
               IN {h + extra(c, x) + (IF Red(mem, x) THEN 0 ELSE 1) : h \in b} :
               s \in Sides}
  IN IF n = nil THEN {0} ELSE below[n]

\* Every way down has the same number of black nodes, and a red node has no
\* red child except where the fix-up is working.  The root may be red.
RedBlack ==
  pc \in {"idle", "insert", "remove"} =>
    /\ Cardinality(BlackHeights(Top)) = 1
    /\ \A n \in Below(Top) :
         Red(mem, n) /\ mem.parent[n] # nil /\ Red(mem, mem.parent[n]) =>
           pc # "idle" /\ cursor \in {n, mem.parent[n]}

Least(S) == IF S = {} THEN nil ELSE CHOOSE n \in S : \A o \in S : n <= o
Greatest(S) == IF S = {} THEN nil ELSE CHOOSE n \in S : \A o \in S : n >= o

\* Iterating from begin forwards and from tail backwards visits every key once
\* and in order, and size counts them.
IterationInOrder ==
  pc = "idle" =>
    /\ size = Cardinality(alive)
    /\ begin = Least(alive) /\ tail = Greatest(alive)
    /\ \A n \in alive : /\ NextNode(mem, n) = Least({o \in alive : o > n})
                        /\ PrevNode(mem, n) = Greatest({o \in alive : o < n})

\* A key is found if and only if it is in the tree; an approximate search ends
\* at a key with no other one between it and the key that was looked for.
LookupsFind ==
  pc = "idle" =>
    \A k \in Keys :
      /\ Get(k) = IF k \in alive THEN k ELSE nil
      /\ GetApprox(k) \in IF k \in alive THEN {k}
                          ELSE {Least({o \in alive : o > k}),
                                Greatest({o \in alive : o < k})}
      /\ GetApprox(k) = nil => alive = {}

\* The loops of the fix-ups end, although none of them tests for the root.
OperationsEnd == []<>(pc \notin {"insert", "remove"})

\* testtree.c:122 removes keys and goes on: removing a key that is there
\* returns.
RemoveReturns == pc # "undefined"
=============================================================================
