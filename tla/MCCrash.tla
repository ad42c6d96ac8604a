------------------------------- MODULE MCCrash -------------------------------
(* Two threads, a program with two names for one address, and a script      *)
(* whose symbol lies between those of the program: near it, far above it    *)
(* (where the program's is found, though farther) and at "lib" itself (where *)
(* the script's is found instead).                                          *)
EXTENDS TCCCrash

CONSTANTS t1, t2

Sym(n, a, s) == [name |-> n, address |-> a, size |-> s]
Program == <<Sym("main", 4, 4), Sym("_start", 4, 4), Sym("lib", 40, 4)>>
Script == {<<Sym("update", 10, 1)>>}
=============================================================================
