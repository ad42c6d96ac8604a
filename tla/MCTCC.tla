------------------------------ MODULE MCTCC ------------------------------
(* Values for model checking TCCEngine: two threads with an engine each,   *)
(* of which one includes the other's file, and a third engine with more    *)
(* attached files than there is room for.                                  *)
EXTENDS TCCEngine

CONSTANTS t1, t2, e1, e2, e3

OwnerOf == [e \in Engines |-> IF e = e2 THEN t2 ELSE t1]
AttachedTo == [e \in Engines |-> CASE e = e1 -> {}
                                   [] e = e2 -> {e1}
                                   [] e = e3 -> {e1, e2}]
HeldBy == [f \in Files |-> CASE f = e1 -> Kinds
                             [] f = e2 -> {"good"}
                             [] f = e3 -> {"good"}]
==========================================================================
