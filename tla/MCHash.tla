------------------------------- MODULE MCHash -------------------------------
(* Values for model checking CNHash: three keys whose hashes collide.      *)
EXTENDS CNHash

KeySet == {"a", "b", "c"}
Null == "null"
DataSet == {Null, "x"}

\* Three arrays, each more than twice the one before, as cnhashtablesizes.
ThreeSizes == <<3, 7, 15>>

\* "a" and "b" have one hash, "c" another one that starts at the same place of
\* the largest array, which is its last one: runs wrap around.
Colliding == [a |-> 44, b |-> 44, c |-> 29]

\* Hashes at the end of the 32-bit range.
Highest == [a |-> 63, b |-> 62, c |-> 127]
=============================================================================
