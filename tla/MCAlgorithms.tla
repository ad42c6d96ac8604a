---------------------------- MODULE MCAlgorithms ----------------------------
(* The two algorithms, one problem per behaviour: every line of a small    *)
(* window and around it, and tables of counts for the code generator.      *)
EXTENDS Bresenham, HuffTree

SmallLines == {[x0 |-> a, y0 |-> b, x1 |-> c, y1 |-> d] : a, c \in -6 .. 9, b, d \in -5 .. 8}
SmallCounts ==
  UNION {[1 .. n -> 0 .. 15] : n \in 0 .. 2} \cup [1 .. 3 -> {0, 1, 2, 3, 5, 7, 8, 15}]
  \cup [1 .. 4 -> 0 .. 6] \cup [1 .. 5 -> {1, 2, 4}]

NoLine == [x0 |-> 0, y0 |-> 0, x1 |-> 0, y1 |-> 0]

Init ==
  \/ /\ LineInit
     /\ phase = "idle" /\ counts = <<>> /\ appended = 0 /\ tab = <<>> /\ minheap = <<>>
     /\ idx = 0 /\ e = 0
  \/ /\ HuffInit
     /\ block = "idle" /\ line = NoLine /\ at = <<0, 0>> /\ num = <<0, 0>> /\ err = 0 /\ pixels = {}

Next ==
  \/ LineStart /\ UNCHANGED huffVars
  \/ ClipX /\ UNCHANGED huffVars
  \/ ClipY /\ UNCHANGED huffVars
  \/ CheckEnds /\ UNCHANGED huffVars
  \/ Steep /\ UNCHANGED huffVars
  \/ Flat /\ UNCHANGED huffVars
  \/ Count /\ UNCHANGED lineVars
  \/ Generate /\ UNCHANGED lineVars
  \/ Insert /\ UNCHANGED lineVars
  \/ Merge /\ UNCHANGED lineVars

Spec == Init /\ [][Next]_<<lineVars, huffVars>>
=============================================================================
