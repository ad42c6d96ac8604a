------------------------------- MODULE HTTPWire -------------------------------
(***************************************************************************)
(* What the server promises the client of each connection slot, as the     *)
(* client sees it on the wire.  A request for a file is answered by one    *)
(* header and then the whole file, sector by sector, unless the file is no *)
(* longer what it was when opened; a missing file is answered by one 404,  *)
(* a websocket by one 101 and only then by frames.  The server hangs       *)
(* up on its own account only when it has nothing left to say, when the    *)
(* request never came, or when the client broke the protocol.  The network *)
(* may cut a connection at any time.                                       *)
(***************************************************************************)
EXTENDS Integers

CONSTANTS Conns,      \* connection slots
          MaxFile     \* longest file, in sectors

VARIABLES phase,      \* Conns -> phase of the conversation
          left,       \* Conns -> sectors of the file not sent yet, or Spoilt
          serving     \* the server acts; otherwise the network does

vars == <<phase, left, serving>>

Phases == {"closed", "request", "header", "body", "sent", "404", "app",
           "upgrade", "accepted", "socket", "closing", "again"}

\* The file changed, or is being read on behalf of another connection too.
Spoilt == -1

Init == /\ phase = [c \in Conns |-> "closed"]
        /\ left = [c \in Conns |-> 0]
        /\ serving = TRUE

\* Connection c moves from one of the phases "from" to "to".
Move(c, from, to) == phase[c] \in from /\ phase' = [phase EXCEPT ![c] = to]

\* The file of an answer may be spoilt at any time.
KeptOrSpoilt(C) ==
  \A c \in C : left'[c] = left[c] \/ (phase[c] \in {"header", "body"} /\ left'[c] = Spoilt)
Same == KeptOrSpoilt(Conns)
Left(c, n) == left'[c] = n /\ KeptOrSpoilt(Conns \ {c})

Connect(c) == ~serving /\ Move(c, {"closed"}, "request") /\ Same
\* The network, or the end of the whole server, cuts connections.
Cut(S) == /\ ~serving
          /\ phase' = [c \in Conns |-> IF c \in S THEN "closed" ELSE phase[c]]
          /\ \A c \in S : left'[c] = 0
          /\ KeptOrSpoilt(Conns \ S)

AskFile(c)  == \E n \in {Spoilt} \cup 0 .. MaxFile : Move(c, {"request"}, "header") /\ Left(c, n)
AskOther(c) == \E p \in {"404", "app", "upgrade"} : Move(c, {"request"}, p) /\ Same

SendHeader(c)  == Move(c, {"header"}, "body") /\ Same
SendSectors(c) == left[c] > 2 /\ Move(c, {"body"}, "body") /\ Left(c, left[c] - 2)
SendLast(c)    == left[c] \in 0 .. 2 /\ Move(c, {"body"}, "sent") /\ Left(c, 0)
\* Nothing is known of what is sent, nor whether it ends.
SendSpoilt(c)  == /\ left[c] = Spoilt
                  /\ \/ Move(c, {"body"}, "body") /\ Left(c, Spoilt)
                     \/ Move(c, {"body"}, "sent") /\ Left(c, 0)
Send404(c)     == Move(c, {"404"}, "sent") /\ Same
Answer(c)      == Move(c, {"app"}, "closing") /\ Same

\* A failed upgrade may leave the connection open for another request; one
\* that succeeded is only ever closed, after a protocol error or by the
\* application.
HeaderEnds(c)  == Move(c, {"upgrade"}, "accepted") /\ Same
Send101(c)     == Move(c, {"accepted"}, "socket") /\ Same
FailUpgrade(c) == (\E p \in {"closing", "again"} : Move(c, {"upgrade"}, p)) /\ Same
FailSocket(c)  == Move(c, {"socket"}, "closing") /\ Same
Reopen(c)      == Move(c, {"again"}, "request") /\ Same

HangUp(c) == Move(c, {"sent", "closing"}, "closed") /\ Same
\* Silent requests are given up, several at once when they share a socket.
GiveUp(S) == /\ \A c \in S : phase[c] = "request"
             /\ phase' = [c \in Conns |-> IF c \in S THEN "closed" ELSE phase[c]]
             /\ Same

Serve(c) ==
  \/ AskFile(c) \/ AskOther(c)
  \/ SendHeader(c) \/ SendSectors(c) \/ SendLast(c) \/ SendSpoilt(c) \/ Send404(c) \/ Answer(c)
  \/ HeaderEnds(c) \/ Send101(c) \/ FailUpgrade(c) \/ FailSocket(c)
  \/ Reopen(c) \/ HangUp(c)

Next ==
  /\ \/ UNCHANGED <<phase, left>>
     \/ serving /\ \E c \in Conns : Serve(c)
     \/ serving /\ \E S \in SUBSET Conns : GiveUp(S)
     \/ \E c \in Conns : Connect(c)
     \/ \E S \in SUBSET Conns : Cut(S)
  /\ left' \in [Conns -> Int]
  /\ serving' \in BOOLEAN

Spec == Init /\ [][Next]_vars
=============================================================================
