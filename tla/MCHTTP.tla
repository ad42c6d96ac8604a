------------------------------- MODULE MCHTTP -------------------------------
(* Values for model checking HTTPBSD.                                      *)
EXTENDS HTTPBSD, TLC

Handles == Permutations(Sockets) \cup Permutations(Streams)

FilePaths == {"file", "/d/issue?", "/d/huge", "/d/ws/echo"}
AllPaths  == {"file", "missing", "/d/echo?", "/d/other", "/d/exit", "/d/ws/issue"}
=============================================================================
