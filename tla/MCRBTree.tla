------------------------------ MODULE MCRBTree ------------------------------
(* Values for model checking CNRBTree.                                     *)
EXTENDS CNRBTree

SevenKeys == 1 .. 7
ThreeKeys == 1 .. 3
=============================================================================
