----------------------------- MODULE ClientProofs -----------------------------
(***************************************************************************)
(* Proofs about CNHTTPClient for every request, every answer of the server *)
(* and every buffer size: what becomes of the connection, where it goes,   *)
(* which requests fit their buffers, what the server of this repository    *)
(* makes of the frames the client sends, and that the response is the one  *)
(* that was sent, however it was split.                                    *)
(***************************************************************************)
EXTENDS CNHTTPClient, FiniteSetTheorems, WellFoundedInduction, TLAPS

-----------------------------------------------------------------------------
(* The owner of the connection.                                            *)

Steps == {"call", "connect", "read", "decode", "returned", "sent", "recv", "ended", "wild"}

\* ws keeps its fields.
WsFields ==
  \E S : ws \in [sent : S, piece : S, calls : S, frame : S, got : S, result : S]

\* The connection of a program that has returned, or ended
Closed == ~is_websocket \/ ws.result = -1
Held ==
  /\ pc \in {"returned", "ended"} => (conn = "none" <=> server = None)
  /\ pc = "returned" /\ server # None =>
       IF Closed THEN conn = "freed" /\ socks = 0 ELSE conn = "live" /\ socks = 1
  /\ pc = "ended" /\ server # None =>
       /\ socks = (IF Closed THEN 0 ELSE 1)
       /\ conn = (IF is_websocket /\ ws.result = -1 THEN "twice" ELSE "freed")

\* Where the program is says what became of the connection: it is open from
\* Connect on, and what a WebSocket keeps after the answer is closed by WSRecv,
\* which then answers -1, or by Cleanup.  The program sends only after code
\* 101, which no request without a connection returns, and not after -1.
OwnerInv ==
  /\ pc \in Steps /\ conn \in {"none", "live", "freed", "twice"} /\ socks \in 0 .. 1
  /\ pos \in Nat /\ WsFields
  /\ pc \in {"call", "connect"} => conn = "none" /\ socks = 0 /\ server = None
  /\ pc \in {"read", "decode", "sent", "recv"} => conn = "live" /\ socks = 1 /\ server # None
  /\ pc \in {"sent", "recv"} => is_websocket
  /\ pc \in {"call", "connect", "read", "decode", "sent", "recv"} => ws.result # -1
  /\ pc = "recv" => ws.frame \in Frames
  /\ server = None => ret.code # 101
  /\ Held

LEMMA OwnerInit == Init => OwnerInv
<1> SUFFICES ASSUME Init PROVE OwnerInv
  OBVIOUS
<1>1. WsFields
  <2> DEFINE S == {<<>>, 0, <<0, 0>>}
  <2>1. NoRecv \in [sent : S, piece : S, calls : S, frame : S, got : S, result : S]
    BY DEF NoRecv
  <2>2. ws = NoRecv
    BY DEF Init
  <2> HIDE DEF S
  <2> QED
    BY <2>1, <2>2, Zenon DEF WsFields
<1>2. ws.result = 0
  BY DEF Init, NoRecv
<1> QED
  BY <1>1, <1>2 DEF Init, OwnerInv, Steps, NoRet, Held

\* Bytes that arrive are counted up.
LEMMA PosGrows ==
  ASSUME pos \in Nat, NEW m, NEW n \in 1 .. m
  PROVE  pos + n \in Nat
  OBVIOUS

LEMMA MinOfTwo ==
  ASSUME NEW a \in Int, NEW b \in Int
  PROVE  Min({a, b}) \in {a, b} /\ Min({a, b}) <= a /\ Min({a, b}) <= b
<1>1. \E x \in {a, b} : \A y \in {a, b} : x <= y
  OBVIOUS
<1>2. Min({a, b}) \in {a, b} /\ \A y \in {a, b} : Min({a, b}) <= y
  BY <1>1 DEF Min
<1> QED
  BY <1>2

\* ws keeps its fields, and the steps that write some of them leave the others.
LEMMA WsWritten ==
  ASSUME WsFields
  PROVE  /\ \A s, k : ws' = [ws EXCEPT !.sent = s, !.piece = k] =>
              WsFields' /\ ws'.result = ws.result /\ ws'.sent = s /\ ws'.piece = k
         /\ \A g : ws' = [ws EXCEPT !.got = g] =>
              WsFields' /\ ws'.result = ws.result /\ ws'.frame = ws.frame
         /\ \A c, f : ws' = [NoRecv EXCEPT !.calls = c, !.frame = f] =>
              WsFields' /\ ws'.result = 0 /\ ws'.frame = f
         /\ \A c, r : ws' = [NoRecv EXCEPT !.calls = c, !.result = r] =>
              WsFields' /\ ws'.result = r
         /\ ws' = ws => WsFields'
<1> DEFINE Fields(S) == [sent : S, piece : S, calls : S, frame : S, got : S, result : S]
<1>1. PICK S : ws \in Fields(S)
  BY DEF WsFields
<1>2. ASSUME NEW T, ws' \in Fields(T) PROVE WsFields'
  BY <1>2 DEF WsFields
<1>3. ASSUME NEW s, NEW k, ws' = [ws EXCEPT !.sent = s, !.piece = k]
      PROVE  WsFields' /\ ws'.result = ws.result /\ ws'.sent = s /\ ws'.piece = k
  <2>1. /\ ws' \in Fields(S \cup {s, k}) /\ ws'.result = ws.result
        /\ ws'.sent = s /\ ws'.piece = k
    BY <1>1, <1>3
  <2> QED
    BY <1>2, <2>1
<1>4. ASSUME NEW g, ws' = [ws EXCEPT !.got = g]
      PROVE  WsFields' /\ ws'.result = ws.result /\ ws'.frame = ws.frame
  <2>1. ws' \in Fields(S \cup {g}) /\ ws'.result = ws.result /\ ws'.frame = ws.frame
    BY <1>1, <1>4
  <2> QED
    BY <1>2, <2>1
<1>5. ASSUME NEW c, NEW f, ws' = [NoRecv EXCEPT !.calls = c, !.frame = f]
      PROVE  WsFields' /\ ws'.result = 0 /\ ws'.frame = f
  <2>1. ws' = [sent |-> <<>>, piece |-> 0, calls |-> c, frame |-> f, got |-> 0, result |-> 0]
    BY <1>5 DEF NoRecv
  <2>2. ws' \in Fields({<<>>, 0, c, f}) /\ ws'.result = 0 /\ ws'.frame = f
    BY <2>1
  <2> QED
    BY <1>2, <2>2
<1>6. ASSUME NEW c, NEW r, ws' = [NoRecv EXCEPT !.calls = c, !.result = r]
      PROVE  WsFields' /\ ws'.result = r
  <2>1. ws' = [sent |-> <<>>, piece |-> 0, calls |-> c, frame |-> <<0, 0>>, got |-> 0,
               result |-> r]
    BY <1>6 DEF NoRecv
  <2>2. ws' \in Fields({<<>>, 0, <<0, 0>>, c, r}) /\ ws'.result = r
    BY <2>1
  <2> QED
    BY <1>2, <2>2
<1>7. ws' = ws => WsFields'
  BY <1>1, <1>2
<1> QED
  BY <1>3, <1>4, <1>5, <1>6, <1>7

\* A length that a call of WSRecv returns is no error.
LEMMA LengthReturned ==
  ASSUME ws.frame \in Frames, NEW g, ~Overruns(g)
  PROVE  Min({ws.frame[2], RECV_LENGTH}) # -1
<1> DEFINE len == ws.frame[2]
<1>1. ws.frame \in {2, 4, 6, 8, 10, 14} \X Int /\ RECV_LENGTH \in Nat
  BY ClientAssumption
<1>2. len \in Int /\ RECV_LENGTH \in Int
  BY <1>1
<1>3. ~(len < 0)
  BY DEF Overruns
<1> HIDE DEF len
<1>4. Min({len, RECV_LENGTH}) \in {len, RECV_LENGTH}
  BY <1>2, MinOfTwo
<1>5. Min({len, RECV_LENGTH}) # -1
  BY <1>1, <1>2, <1>3, <1>4
<1> QED
  BY <1>5 DEF len

\* Every step of the program hands the connection on as it should.
LEMMA OwnerStep ==
  ASSUME OwnerInv, [Next]_vars
  PROVE  OwnerInv'
<1> USE DEF OwnerInv, Steps
<1>1. CASE UNCHANGED ws /\ (Transact \/ ConnectFails \/ AttachFails \/ RequestWild \/ Connect
                             \/ Read \/ ReadEnds \/ Decode \/ RecvWild \/ Cleanup)
  <2>1. WsFields' /\ ws' = ws
    BY <1>1, WsWritten
  <2> HIDE DEF WsFields
  <2>2. CASE Transact
    BY <1>1, <2>1, <2>2 DEF Transact, NoRet, Held
  <2>3. CASE ConnectFails
    BY <1>1, <2>1, <2>3 DEF ConnectFails, Held
  <2>4. CASE AttachFails
    BY <1>1, <2>1, <2>4 DEF AttachFails, Held
  <2>5. CASE RequestWild
    BY <1>1, <2>1, <2>5 DEF RequestWild, Held
  <2>6. CASE Connect
    <3>1. server' # None
      <4>1. PICK m \in Messages, then \in {"close", "reset", "silence"} :
              \E cut \in 0 .. Len(Wire(m)) : server' = [msg |-> m, cut |-> cut, then |-> then]
        BY <2>6 DEF Connect
      <4>2. PICK cut \in 0 .. Len(Wire(m)) : server' = [msg |-> m, cut |-> cut, then |-> then]
        BY <4>1
      <4>3. cut \in Nat
        OBVIOUS
      <4>4. server' \in [msg : Messages, cut : Nat, then : {"close", "reset", "silence"}]
        BY <4>2, <4>3
      <4> QED
        BY <4>4, MessageAssumption
    <3> QED
      BY <1>1, <2>1, <2>6, <3>1 DEF Connect, Held
  <2>7. CASE Read
    BY <1>1, <2>1, <2>7, PosGrows DEF Read, Held
  <2>8. CASE ReadEnds
    BY <1>1, <2>1, <2>8 DEF ReadEnds, Held
  <2>9. CASE Decode
    BY <1>1, <2>1, <2>9 DEF Decode, Held, Closed
  <2>10. CASE RecvWild
    BY <1>1, <2>1, <2>10 DEF RecvWild, Held
  <2>11. CASE Cleanup
    BY <1>1, <2>1, <2>11 DEF Cleanup, Held, Closed
  <2> QED
    BY <1>1, <2>2, <2>3, <2>4, <2>5, <2>6, <2>7, <2>8, <2>9, <2>10, <2>11
<1>2. CASE WSSend
  <2>1. WsFields' /\ ws'.result = ws.result
    BY <1>2, WsWritten DEF WSSend
  <2>2. ws.result # -1
    BY <1>2 DEF WSSend
  <2> HIDE DEF WsFields
  <2> QED
    BY <1>2, <2>1, <2>2 DEF WSSend, Held, Closed
<1>3. CASE WSRecv
  <2>1. PICK frame \in Frames : ws' = [NoRecv EXCEPT !.calls = ws.calls + 1, !.frame = frame]
    BY <1>3 DEF WSRecv
  <2>2. WsFields' /\ ws'.result = 0 /\ ws'.frame = frame
    BY <2>1, WsWritten
  <2> HIDE DEF WsFields
  <2> QED
    BY <1>3, <2>1, <2>2 DEF WSRecv, Held
<1>4. CASE RecvReads
  <2>1. PICK n \in 1 .. Min({BLOCK, server.cut - pos}) :
          /\ pos' = pos + n
          /\ IF Returns(ws.got + n)
             THEN ~Overruns(ws.got + n) /\ pc' = "returned"
                  /\ ws' = [NoRecv EXCEPT !.calls = ws.calls,
                                          !.result = Min({ws.frame[2], RECV_LENGTH})]
             ELSE pc' = "recv" /\ ws' = [ws EXCEPT !.got = ws.got + n]
    BY <1>4 DEF RecvReads
  <2>2. pos' \in Nat
    BY <2>1, PosGrows
  <2>3. pc = "recv" /\ UNCHANGED <<is_websocket, server, ret, conn, socks>>
    BY <1>4 DEF RecvReads
  <2>4. CASE Returns(ws.got + n)
    <3> DEFINE r == Min({ws.frame[2], RECV_LENGTH})
    <3>1. pc' = "returned" /\ WsFields' /\ ws'.result = r
      <4>1. /\ pc' = "returned"
            /\ ws' = [NoRecv EXCEPT !.calls = ws.calls, !.result = r]
        BY <2>1, <2>4
      <4> HIDE DEF r
      <4> QED
        BY <4>1, WsWritten
    <3>2. ws'.result # -1
      BY <2>1, <2>3, <2>4, <3>1, LengthReturned
    <3> HIDE DEF WsFields
    <3> QED
      BY <2>2, <2>3, <3>1, <3>2 DEF Held, Closed
  <2>5. CASE ~Returns(ws.got + n)
    <3>1. pc' = "recv" /\ WsFields' /\ ws'.result = ws.result /\ ws'.frame = ws.frame
      BY <2>1, <2>5, WsWritten
    <3> HIDE DEF WsFields
    <3> QED
      BY <2>2, <2>3, <3>1 DEF Held
  <2> QED
    BY <2>4, <2>5
<1>5. CASE RecvCloses
  <2>1. WsFields' /\ ws'.result = -1
    BY <1>5, WsWritten DEF RecvCloses
  <2>2. pos' \in Nat
    BY <1>5, PosGrows DEF RecvCloses
  <2> HIDE DEF WsFields
  <2> QED
    BY <1>5, <2>1, <2>2 DEF RecvCloses, Held, Closed
<1>6. CASE UNCHANGED vars
  <2>1. WsFields'
    BY <1>6, WsWritten DEF vars
  <2> HIDE DEF WsFields
  <2> QED
    BY <1>6, <2>1 DEF vars, Held, Closed
<1> QED
  BY <1>1, <1>2, <1>3, <1>4, <1>5, <1>6
  DEF Next, Transact, ConnectFails, AttachFails, RequestWild, Connect, Read, ReadEnds, Decode,
      RecvWild, Cleanup

\* The connection is open as long as it is used, and given back as ConnectionHeld
\* says: once, but twice exactly if WSRecv has closed it, for whatever reason.
THEOREM ConnectionAlwaysHeld == Spec => []ConnectionHeld
<1>1. OwnerInv => ConnectionHeld
  BY DEF OwnerInv, ConnectionHeld, Steps, Held, Closed
<1>2. OwnerInv /\ [Next]_vars => OwnerInv'
  BY OwnerStep
<1> QED
  BY <1>1, <1>2, OwnerInit, PTL DEF Spec

-----------------------------------------------------------------------------
(* What is defined step by step.                                           *)

\* A set of natural numbers that is not empty has a least one.
LEMMA LeastNumber ==
  ASSUME NEW S \in SUBSET Nat, S # {}
  PROVE  \E n \in S : \A m \in S : n <= m
<1>1. PICK n \in S : \A m \in S : <<m, n>> \notin OpToRel(<, Nat)
  BY WFMin, NatLessThanWellFounded, Zenon
<1>2. \A m \in S : ~(m < n)
  BY <1>1, Zenon DEF OpToRel
<1> QED
  BY <1>2

\* What starts in A and stays there with each step never leaves it.
LEMMA StepsStay ==
  ASSUME NEW A, NEW m \in Nat, NEW n \in Nat, NEW f,
         f[m] \in A, \A k \in m + 1 .. n : f[k - 1] \in A => f[k] \in A
  PROVE  \A k \in m .. n : f[k] \in A
<1> DEFINE Bad == {k \in m .. n : f[k] \notin A}
<1> SUFFICES ASSUME Bad # {} PROVE FALSE
  OBVIOUS
<1>1. Bad \in SUBSET Nat
  OBVIOUS
<1>2. PICK k \in Bad : \A i \in Bad : k <= i
  <2> HIDE DEF Bad
  <2> QED
    BY <1>1, LeastNumber
<1>3. k \in m + 1 .. n /\ k - 1 \in m .. n /\ ~(k <= k - 1)
  OBVIOUS
<1>4. f[k - 1] \in A
  BY <1>2, <1>3
<1> QED
  BY <1>3, <1>4

\* A function whose first value is given, and each other by the one before.
Stepped(f, m, n, base, h) == f = [k \in m .. n |-> IF k = m THEN base ELSE h[k][f[k - 1]]]

\* There is such a function.
LEMMA StepsExist ==
  ASSUME NEW A, NEW m \in Nat, NEW n \in Nat, m <= n, NEW base \in A,
         NEW h \in [m + 1 .. n -> [A -> A]]
  PROVE  \E f : Stepped(f, m, n, base, h)
<1> DEFINE Is(f, l) == f = [k \in m .. l |-> IF k = m THEN base ELSE h[k][f[k - 1]]]
           Bad == {l \in m .. n : ~\E f : Is(f, l)}
<1>1. CASE Bad # {}
  <2>1. Bad \in SUBSET Nat
    OBVIOUS
  <2>2. PICK l \in Bad : \A i \in Bad : l <= i
    <3> HIDE DEF Bad
    <3> QED
      BY <1>1, <2>1, LeastNumber
  <2>3. CASE l = m
    <3> DEFINE f == [k \in m .. m |-> base]
    <3>1. \A k \in m .. m : k = m
      OBVIOUS
    <3>2. Is(f, m)
      BY <3>1
    <3> QED
      BY <2>3, <3>2
  <2>4. CASE l # m
    <3>1. l - 1 \in m .. n /\ ~(l <= l - 1) /\ l \in m .. n
      BY <2>4
    <3>2. PICK f : Is(f, l - 1)
      BY <2>2, <3>1
    <3> DEFINE g == [k \in m .. l |-> IF k = m THEN base ELSE h[k][f[k - 1]]]
    <3>3. \A k \in m .. l - 1 : g[k] = f[k]
      <4>1. \A k \in m .. l - 1 : k \in m .. l
        BY <3>1
      <4> QED
        BY <3>2, <4>1
    <3>4. \A k \in m .. l : k # m => k - 1 \in m .. l - 1
      BY <3>1
    <3>5. Is(g, l)
      BY <3>3, <3>4, Zenon
    <3> QED
      BY <3>5
  <2> QED
    BY <2>3, <2>4
<1>2. CASE Bad = {}
  <2>1. n \in m .. n
    OBVIOUS
  <2> QED
    BY <1>2, <2>1 DEF Stepped
<1> QED
  BY <1>1, <1>2

-----------------------------------------------------------------------------
(* Where the connection goes, and the request that is sent on it.          *)

LEMMA Least ==
  ASSUME NEW S \in SUBSET Int, NEW x \in S, \A y \in S : x <= y
  PROVE  Min(S) = x
<1>1. Min(S) \in S /\ \A y \in S : Min(S) <= y
  BY DEF Min
<1>2. Min(S) <= x /\ x <= Min(S) /\ x \in Int /\ Min(S) \in Int
  BY <1>1
<1> QED
  BY <1>2

LEMMA Greatest ==
  ASSUME NEW S \in SUBSET Int, NEW x \in S, \A y \in S : y <= x
  PROVE  Max(S) = x
<1>1. Max(S) \in S /\ \A y \in S : Max(S) >= y
  BY DEF Max
<1>2. Max(S) >= x /\ Max(S) <= x /\ x \in Int /\ Max(S) \in Int
  BY <1>1
<1> QED
  BY <1>2

\* No number takes more than ten digits, as the code assumes of an int.
LEMMA FewDigits ==
  ASSUME NEW n
  PROVE  Digits(n) \in 1 .. 10
<1> DEFINE D == {d \in 1 .. 9 : 10 ^ d <= n}
<1>1. IsFiniteSet(1 .. 9) /\ Cardinality(1 .. 9) = 9
  <2>1. 1 \in Int /\ 9 \in Int /\ ~(1 > 9) /\ 9 - 1 + 1 = 9
    OBVIOUS
  <2> QED
    BY <2>1, FS_Interval
<1>2. D \subseteq 1 .. 9
  OBVIOUS
<1> HIDE DEF D
<1>3. Cardinality(D) \in Nat /\ Cardinality(D) <= 9
  BY <1>1, <1>2, FS_Subset, FS_CardinalityType
<1> QED
  BY <1>3 DEF Digits, D

\* What is put together, and the end of it
LEMMA WhatFollows ==
  ASSUME NEW s \in Seq(Parts), NEW t \in Seq(Parts)
  PROVE  /\ s \o t \in Seq(Parts) /\ Len(s \o t) = Len(s) + Len(t)
         /\ \A i \in 1 .. Len(s) : (s \o t)[i] = s[i]
         /\ \A i \in 1 .. Len(t) : (s \o t)[Len(s) + i] = t[i]
         /\ SubSeq(s \o t, Len(s) + 1, Len(s \o t)) = t
<1>1. Len(s) \in Nat /\ Len(t) \in Nat
  OBVIOUS
<1>2. s \o t \in Seq(Parts) /\ Len(s \o t) = Len(s) + Len(t)
  OBVIOUS
<1>3. \A i \in 1 .. Len(s) : (s \o t)[i] = s[i]
  OBVIOUS
<1>4. \A i \in 1 .. Len(t) : (s \o t)[Len(s) + i] = t[i]
  OBVIOUS
<1>5. SubSeq(s \o t, Len(s) + 1, Len(s \o t)) = t
  <2> DEFINE w == SubSeq(s \o t, Len(s) + 1, Len(s \o t))
  <2>1. w \in Seq(Parts) /\ Len(w) = Len(t)
    BY <1>1, <1>2
  <2>2. \A i \in 1 .. Len(t) : w[i] = (s \o t)[Len(s) + i]
    BY <1>1, <1>2
  <2> HIDE DEF w
  <2>3. \A i \in 1 .. Len(t) : w[i] = t[i]
    BY <1>4, <2>2
  <2> QED
    BY <2>1, <2>3
<1> QED
  BY <1>2, <1>3, <1>4, <1>5

\* A host without and with a port: which part is of which kind.
HostPortParts(u, host, port) ==
  /\ u \in Seq(Parts) /\ Len(u) \in {1, 3} /\ (Len(u) = 1 <=> port = None)
  /\ u[1] = host /\ u[1][1] = "text"
  /\ Len(u) = 3 => u[2][1] = "colon" /\ u[3][1] = "number" /\ u[3][2] = port

LEMMA HostThenPort ==
  ASSUME NEW host \in Texts, NEW port \in Nat \cup {None}, None \notin Nat
  PROVE  HostPortParts(HostPort(host, port), host, port)
<1>1. host \in Parts /\ host[1] = "text" /\ Colon \in Parts
  BY DEF Texts, Parts, Colon
<1>2. CASE port = None
  <2>1. HostPort(host, port) = <<host>>
    BY <1>2 DEF HostPort
  <2> QED
    BY <1>1, <1>2, <2>1 DEF HostPortParts
<1>3. CASE port # None
  <2> DEFINE N == <<"number", port, Digits(port)>>
  <2>1. N \in Parts /\ N[1] = "number" /\ N[2] = port
    <3>1. Digits(port) \in Nat \ {0}
      BY FewDigits
    <3> QED
      BY <1>3, <3>1 DEF Parts
  <2>2. HostPort(host, port) = <<host>> \o <<Colon, N>>
    BY <1>3 DEF HostPort
  <2>3. Colon[1] = "colon"
    BY DEF Colon
  <2> HIDE DEF N
  <2> DEFINE s == <<host>>
             t == <<Colon, N>>
             u == HostPort(host, port)
  <2>4. /\ s \in Seq(Parts) /\ Len(s) = 1 /\ s[1] = host
        /\ t \in Seq(Parts) /\ Len(t) = 2 /\ t[1] = Colon /\ t[2] = N
    BY <1>1, <2>1
  <2>5. u = s \o t
    BY <2>2
  <2> HIDE DEF s, t, u
  <2>6. /\ u \in Seq(Parts) /\ Len(u) = 3 /\ u[1] = s[1]
        /\ u[1 + 1] = t[1] /\ u[1 + 2] = t[2]
    <3>1. 1 \in 1 .. 1 /\ 1 \in 1 .. 2 /\ 2 \in 1 .. 2 /\ 1 + 2 = 3
      OBVIOUS
    <3>2. /\ s \o t \in Seq(Parts) /\ Len(s \o t) = Len(s) + Len(t)
          /\ \A i \in 1 .. Len(s) : (s \o t)[i] = s[i]
          /\ \A i \in 1 .. Len(t) : (s \o t)[Len(s) + i] = t[i]
      BY <2>4, WhatFollows, Zenon
    <3>3. Len(u) = 1 + 2 /\ u[1] = s[1] /\ u[1 + 1] = t[1] /\ u[1 + 2] = t[2]
      BY <2>4, <2>5, <3>1, <3>2, Zenon
    <3> QED
      BY <2>5, <3>1, <3>2, <3>3
  <2>7. u[2] = Colon /\ u[3] = N
    BY <2>4, <2>6
  <2>8. HostPortParts(u, host, port)
    BY <1>1, <1>3, <2>1, <2>3, <2>4, <2>6, <2>7 DEF HostPortParts
  <2> QED
    BY <2>8 DEF u
<1> QED
  BY <1>2, <1>3

\* What follows is the path: how a URL without its scheme is taken apart.
UrlRead(u, host, port, path) ==
  /\ u \in Seq(Parts)
  /\ SubSeq(u, PathAt(u), Len(u)) = path
  /\ Marks(u) # {} => /\ Before(u, Min(Marks(u))) = <<host>>
                      /\ Before(u, Max(Marks(u))) \in Seq(Parts)
  /\ Marks(u) = {} <=> port = None /\ path = <<>>
  /\ Colons(u) = {} <=> port = None
  /\ port # None => Number(u, Max(Colons(u)) + 1) = port

LEMMA UrlTakenApart ==
  ASSUME NEW host \in Texts, NEW port \in Nat \cup {None}, None \notin Nat,
         NEW path \in Seq(Parts), path = <<>> \/ Head(path) = Slash
  PROVE  UrlRead(HostPort(host, port) \o path, host, port, path)
<1> DEFINE s == HostPort(host, port)
           u == s \o path
           k == Len(s)
<1>1. HostPortParts(s, host, port)
  BY HostThenPort
<1> HIDE DEF s
<1>2. /\ s \in Seq(Parts) /\ k \in {1, 3} /\ (k = 1 <=> port = None)
      /\ s[1] = host /\ s[1][1] = "text"
      /\ k = 3 => s[2][1] = "colon" /\ s[3][1] = "number" /\ s[3][2] = port
  BY <1>1 DEF HostPortParts
<1>3. /\ u \in Seq(Parts) /\ Len(u) = k + Len(path) /\ Len(path) \in Nat
      /\ \A i \in 1 .. k : u[i] = s[i]
      /\ \A i \in 1 .. Len(path) : u[k + i] = path[i]
      /\ SubSeq(u, k + 1, Len(u)) = path
  <2>1. /\ s \o path \in Seq(Parts) /\ Len(s \o path) = Len(s) + Len(path)
        /\ \A i \in 1 .. Len(s) : (s \o path)[i] = s[i]
        /\ \A i \in 1 .. Len(path) : (s \o path)[Len(s) + i] = path[i]
        /\ SubSeq(s \o path, Len(s) + 1, Len(s \o path)) = path
    BY <1>2, WhatFollows, Zenon
  <2>2. Len(path) \in Nat
    OBVIOUS
  <2> QED
    BY <2>1, <2>2, Zenon
<1>4. /\ u[1] = host /\ u[1][1] = "text"
      /\ k = 3 => u[2][1] = "colon" /\ u[3][1] = "number" /\ u[3][2] = port
  <2>1. 1 \in 1 .. k /\ (k = 3 => 2 \in 1 .. k /\ 3 \in 1 .. k)
    BY <1>2
  <2> QED
    BY <1>2, <1>3, <2>1
<1>5. path # <<>> => k + 1 \in 1 .. Len(u) /\ u[k + 1][1] = "slash"
  <2> SUFFICES ASSUME path # <<>> PROVE k + 1 \in 1 .. Len(u) /\ u[k + 1][1] = "slash"
    OBVIOUS
  <2>1. Len(path) >= 1 /\ Head(path) = path[1] /\ Head(path) = Slash
    OBVIOUS
  <2>2. u[k + 1] = path[1]
    BY <1>3, <2>1
  <2>3. Slash[1] = "slash"
    BY DEF Slash
  <2> QED
    BY <1>2, <1>3, <2>1, <2>2, <2>3
<1>6. path = <<>> => Len(u) = k
  BY <1>2, <1>3
<1> HIDE DEF u
<1>7. PathAt(u) = k + 1
  <2> DEFINE S == Places({"slash"}, u) \cup {Len(u) + 1}
  <2>1. S \subseteq Int
    BY <1>2, <1>3 DEF Places
  <2>2. k + 1 \in S
    BY <1>3, <1>5, <1>6 DEF Places
  <2>3. ASSUME NEW y \in S PROVE k + 1 <= y
    <3>1. CASE y = Len(u) + 1
      BY <1>2, <1>3, <3>1
    <3>2. CASE y # Len(u) + 1
      <4>1. y \in 1 .. Len(u) /\ u[y][1] = "slash"
        BY <1>3, <3>2 DEF Places
      <4>2. y # 1 /\ (k = 3 => y # 2 /\ y # 3)
        BY <1>4, <4>1
      <4> QED
        <5>1. k \in {1, 3} /\ y \in Int /\ y >= 1
          BY <1>2, <1>3, <4>1
        <5> HIDE DEF k
        <5> QED
          BY <4>2, <5>1
    <3> QED
      BY <3>1, <3>2
  <2> HIDE DEF S
  <2>4. Min(S) = k + 1
    BY <2>1, <2>2, <2>3, Least
  <2> QED
    BY <2>4 DEF PathAt, S
<1>8. \A i : i \in Marks(u) <=> /\ i \in 1 .. Len(u) /\ i <= k + 1
                                /\ u[i][1] \in {"colon", "slash"}
  BY <1>3, <1>7 DEF Marks, Places
<1>9. Marks(u) \subseteq 2 .. k + 1
  BY <1>2, <1>4, <1>8
<1>10. k = 3 => 2 \in Marks(u)
  BY <1>3, <1>4, <1>8
<1>11. path # <<>> => k + 1 \in Marks(u)
  <2> SUFFICES ASSUME path # <<>> PROVE k + 1 \in Marks(u)
    OBVIOUS
  <2>1. k + 1 \in 1 .. Len(u) /\ u[k + 1][1] = "slash" /\ k + 1 <= k + 1
    BY <1>2, <1>5
  <2> QED
    BY <1>8, <2>1
<1>12. Marks(u) = {} <=> port = None /\ path = <<>>
  <2>1. ASSUME port = None, path = <<>> PROVE Marks(u) = {}
    <3>1. k = 1 /\ Len(u) = 1
      BY <1>2, <1>6, <2>1
    <3> QED
      BY <1>4, <1>8, <3>1
  <2> QED
    BY <1>2, <1>10, <1>11, <2>1
<1>13. ASSUME Marks(u) # {}
       PROVE  Before(u, Min(Marks(u))) = <<host>> /\ Before(u, Max(Marks(u))) \in Seq(Parts)
  <2>1. 2 \in Marks(u)
    <3>1. k = 1 => 2 \in Marks(u)
      <4>1. ASSUME k = 1 PROVE Marks(u) \subseteq {2}
        BY <1>9, <4>1
      <4> QED
        BY <1>13, <4>1
    <3> QED
      BY <1>2, <1>10, <3>1
  <2>2. Marks(u) \subseteq Int
    BY <1>2, <1>9
  <2>3. \A y \in Marks(u) : 2 <= y
    BY <1>2, <1>9
  <2>4. Min(Marks(u)) = 2
    BY <2>1, <2>2, <2>3, Least
  <2>5. SubSeq(u, 1, 2 - 1) = <<host>>
    <3>1. 1 <= Len(u) /\ u[1] = host /\ Len(u) \in Nat /\ u \in Seq(Parts)
      BY <1>2, <1>3, <1>4
    <3> DEFINE b == SubSeq(u, 1, 2 - 1)
    <3>2. b \in Seq(Parts) /\ Len(b) = 1 /\ b[1] = u[1]
      BY <3>1
    <3> HIDE DEF b
    <3>3. b = <<b[1]>>
      BY <3>2
    <3> QED
      BY <3>1, <3>2, <3>3 DEF b
  <2>6. PICK x \in Marks(u) : \A y \in Marks(u) : y <= x
    <3>1. CASE k + 1 \in Marks(u)
      BY <1>2, <1>9, <3>1
    <3>2. CASE k + 1 \notin Marks(u)
      <4>1. path = <<>> /\ Len(u) = k
        BY <1>6, <1>11, <3>2
      <4>2. k = 3
        BY <1>2, <1>12, <1>13, <4>1
      <4>3. 3 \notin Marks(u)
        BY <1>4, <1>8, <4>2
      <4>4. \A y \in Marks(u) : y <= 2
        BY <1>9, <3>2, <4>2, <4>3
      <4> QED
        BY <2>1, <4>4
    <3> QED
      BY <3>1, <3>2
  <2>7. Max(Marks(u)) = x
    BY <2>2, <2>6, Greatest
  <2>8. x \in 1 .. Len(u)
    BY <1>8
  <2>9. SubSeq(u, 1, x - 1) \in Seq(Parts)
    BY <1>3, <2>8
  <2> QED
    BY <2>4, <2>5, <2>7, <2>9 DEF Before
<1>14. \A i : i \in Colons(u) <=> i \in 1 .. Len(u) /\ u[i][1] = "colon" /\ 1 < i /\ i < k + 1
  BY <1>3, <1>7 DEF Colons, Places
<1>15. port = None => Colons(u) = {}
  <2> SUFFICES ASSUME port = None, NEW i \in Colons(u) PROVE FALSE
    OBVIOUS
  <2>1. k = 1
    BY <1>2
  <2>2. i \in 1 .. Len(u) /\ 1 < i /\ i < 1 + 1
    BY <1>14, <2>1
  <2>3. i \in Int
    BY <1>3, <2>2
  <2> QED
    BY <2>2, <2>3
<1>16. ASSUME port # None
       PROVE  Colons(u) # {} /\ Number(u, Max(Colons(u)) + 1) = port
  <2>1. k = 3
    BY <1>2, <1>16
  <2>2. 2 \in Colons(u) /\ 3 \in DOMAIN u
    BY <1>3, <1>4, <1>14, <2>1
  <2>3. Colons(u) \subseteq {2}
    BY <1>4, <1>14, <2>1
  <2>4. Max(Colons(u)) = 2
    BY <2>2, <2>3, Greatest
  <2>5. Number(u, 3) = port
    BY <1>4, <2>1, <2>2 DEF Number, Places
  <2> QED
    BY <2>2, <2>4, <2>5
<1> QED
  BY <1>3, <1>7, <1>12, <1>13, <1>15, <1>16 DEF UrlRead, u, s

\* What is printed of a text: a number, and not 0 unless there is no text.
LEMMA BytesOfText ==
  ASSUME NEW X, \A e \in X : e[3] \in Nat \ {0}, NEW u \in Seq(X)
  PROVE  Bytes(u) \in Nat /\ (Bytes(u) = 0 <=> u = <<>>)
<1> DEFINE n == Len(u)
           h == [k \in 0 + 1 .. n |-> [v \in Nat |-> v + u[k][3]]]
           Is(f) == f = [k \in 0 .. n |-> IF k = 0 THEN 0 ELSE f[k - 1] + u[k][3]]
           bytes == CHOOSE f : Is(f)
<1>1. n \in Nat /\ \A k \in 1 .. n : u[k][3] \in Nat \ {0}
  <2>1. ASSUME NEW k \in 1 .. n PROVE u[k] \in X
    OBVIOUS
  <2> QED
    BY <2>1
<1>2. \A k \in 0 + 1 .. n : \A v \in Nat : v + u[k][3] \in Nat
  BY <1>1
<1>3. h \in [0 + 1 .. n -> [Nat -> Nat]]
  BY <1>2
<1>4. PICK f : Stepped(f, 0, n, 0, h)
  <2>1. 0 <= n /\ 0 \in Nat
    BY <1>1
  <2> HIDE DEF h, n
  <2> QED
    BY <1>1, <1>3, <2>1, StepsExist
<1>5. \A k \in 0 .. n : f[k] \in Nat
  <2>1. f[0] \in Nat
    BY <1>1, <1>4 DEF Stepped
  <2>2. ASSUME NEW k \in 0 + 1 .. n, f[k - 1] \in Nat PROVE f[k] \in Nat
    <3>1. k \in 0 .. n /\ k # 0
      OBVIOUS
    <3>2. f[k] = h[k][f[k - 1]]
      BY <1>4, <3>1 DEF Stepped
    <3>3. h[k] \in [Nat -> Nat]
      BY <1>3
    <3> QED
      BY <2>2, <3>2, <3>3
  <2> HIDE DEF h, n
  <2> QED
    BY <1>1, <2>1, <2>2, StepsStay
<1>6. Is(f)
  <2>1. ASSUME NEW k \in 0 .. n, k # 0
        PROVE  h[k][f[k - 1]] = f[k - 1] + u[k][3]
    <3>1. k \in 0 + 1 .. n /\ k - 1 \in 0 .. n
      BY <1>1, <2>1
    <3>2. f[k - 1] \in Nat
      BY <1>5, <3>1
    <3> QED
      BY <3>1, <3>2
  <2> HIDE DEF h
  <2> QED
    BY <1>4, <2>1, Zenon DEF Stepped
<1>7. Is(bytes)
  BY <1>6, Zenon
<1>8. Bytes(u) = bytes[n]
  BY Zenon DEF Bytes
<1> HIDE DEF bytes
<1>9. bytes[0] = 0 /\ \A k \in 1 .. n : bytes[k] = bytes[k - 1] + u[k][3]
  BY <1>1, <1>7
<1>10. CASE n = 0
  BY <1>8, <1>9, <1>10
<1>11. CASE n # 0
  <2>1. bytes[1] \in Nat \ {0}
    BY <1>1, <1>9, <1>11
  <2>2. ASSUME NEW k \in 1 + 1 .. n, bytes[k - 1] \in Nat \ {0} PROVE bytes[k] \in Nat \ {0}
    <3>1. k \in 1 .. n
      OBVIOUS
    <3>2. u[k][3] \in Nat \ {0} /\ bytes[k] = bytes[k - 1] + u[k][3]
      BY <1>1, <1>9, <3>1
    <3> QED
      BY <2>2, <3>2
  <2>3. \A k \in 1 .. n : bytes[k] \in Nat \ {0}
    <3> HIDE DEF n
    <3> QED
      BY <1>1, <2>1, <2>2, StepsStay
  <2>4. n \in 1 .. n
    BY <1>1, <1>11
  <2>5. bytes[n] \in Nat \ {0}
    BY <2>3, <2>4
  <2>6. u # <<>>
    BY <1>11
  <2> QED
    BY <1>8, <2>5, <2>6
<1> QED
  BY <1>10, <1>11

\* The parts a URL may have, its scheme among them
UrlParts == Parts \cup {<<"scheme", c, SchemeBytes[c]>> : c \in Schemes}

LEMMA PartsHaveBytes == \A e \in UrlParts : e[3] \in Nat \ {0}
<1>1. \A c \in Schemes : SchemeBytes[c] \in Nat \ {0}
  BY DEF Schemes, SchemeBytes
<1> QED
  BY <1>1 DEF UrlParts, Parts

\* The scheme is what the URL starts with, and the rest what follows it.
LEMMA SchemeTakenOff ==
  ASSUME NEW s, NEW t \in Seq(Parts)
  PROVE  LET u == <<s>> \o t IN u # <<>> /\ Head(u) = s /\ Tail(u) = t
<1> DEFINE X == Parts \cup {s}
           u == <<s>> \o t
<1>1. t \in Seq(X) /\ s \in X
  OBVIOUS
<1> HIDE DEF X
<1>2. u # <<>> /\ Head(u) = s
  BY <1>1
<1>3. Tail(u) = t
  <2> DEFINE w == Tail(u)
  <2>1. w \in Seq(X) /\ Len(w) = Len(t)
    BY <1>1
  <2>2. \A i \in 1 .. Len(t) : w[i] = u[i + 1]
    BY <1>1
  <2>3. \A i \in 1 .. Len(t) : u[i + 1] = t[i]
    BY <1>1
  <2> HIDE DEF w, u
  <2>4. \A i \in 1 .. Len(t) : w[i] = t[i]
    BY <2>2, <2>3
  <2>5. w = t
    BY <1>1, <2>1, <2>4
  <2> QED
    BY <2>5 DEF w
<1> QED
  BY <1>2, <1>3

LEMMA RequestParts ==
  ASSUME NEW r \in Requests
  PROVE  /\ r.is_secure \in BOOLEAN /\ r.port \in Nat /\ r.host \in Texts \cup {None}
         /\ r.origin \in Nat /\ r.added \in Nat
         /\ r.Proxy # None => r.Proxy.host \in Texts /\ r.Proxy.port \in Nat \cup {None}
         /\ r.names.scheme \in Schemes \cup {None}
         /\ r.names.host \in Texts /\ r.names.port \in Nat \cup {None}
         /\ r.names.path \in Seq(Parts)
         /\ r.names.scheme # None => r.names.path = <<>> \/ Head(r.names.path) = Slash
         /\ None \notin Nat /\ None \notin Schemes /\ None \notin Texts /\ None \notin Seq(Parts)
BY RequestAssumption, Zenon

\* A URL with a scheme and one without
LEMMA UrlWithScheme ==
  ASSUME NEW r \in Requests, r.names.scheme # None
  PROVE  LET n == r.names
             u == HostPort(n.host, n.port) \o n.path IN
         /\ URL(r) # <<>> /\ Head(URL(r))[1] = "scheme" /\ Head(URL(r))[2] = n.scheme
         /\ Tail(URL(r)) = u /\ URL(r) \in Seq(UrlParts)
         /\ UrlRead(u, n.host, n.port, n.path)
<1> DEFINE n == r.names
           s == <<"scheme", n.scheme, SchemeBytes[n.scheme]>>
           u == HostPort(n.host, n.port) \o n.path
<1>1. /\ n.host \in Texts /\ n.port \in Nat \cup {None} /\ None \notin Nat
      /\ n.path \in Seq(Parts) /\ (n.path = <<>> \/ Head(n.path) = Slash) /\ n.scheme \in Schemes
  BY RequestParts
<1>2. UrlRead(u, n.host, n.port, n.path)
  BY <1>1, UrlTakenApart
<1>3. URL(r) = (<<s>> \o HostPort(n.host, n.port)) \o n.path
  BY DEF URL
<1>4. s \in UrlParts /\ s[1] = "scheme" /\ s[2] = n.scheme
  BY <1>1 DEF UrlParts
<1>5. HostPort(n.host, n.port) \in Seq(Parts)
  BY <1>1, HostThenPort DEF HostPortParts
<1>6. URL(r) = <<s>> \o u
  <2> HIDE DEF s, n
  <2>1. HostPort(n.host, n.port) \in Seq(UrlParts) /\ n.path \in Seq(UrlParts)
        /\ <<s>> \in Seq(UrlParts)
    BY <1>1, <1>4, <1>5 DEF UrlParts
  <2>2. \A a, b, c \in Seq(UrlParts) : (a \o b) \o c = a \o (b \o c)
    OBVIOUS
  <2> QED
    BY <1>3, <2>1, <2>2, Zenon
<1>7. u \in Seq(Parts)
  BY <1>2 DEF UrlRead
<1>8. <<s>> \o u \in Seq(UrlParts)
  <2> HIDE DEF s, u
  <2>1. u \in Seq(UrlParts) /\ <<s>> \in Seq(UrlParts)
    BY <1>4, <1>7 DEF UrlParts
  <2> QED
    BY <2>1
<1>9. URL(r) # <<>> /\ Head(URL(r)) = s /\ Tail(URL(r)) = u
  <2> HIDE DEF s, u
  <2> QED
    BY <1>6, <1>7, SchemeTakenOff
<1> HIDE DEF s
<1> QED
  BY <1>2, <1>4, <1>6, <1>8, <1>9

LEMMA UrlWithout ==
  ASSUME NEW r \in Requests, r.names.scheme = None
  PROVE  URL(r) = r.names.path /\ ~HasScheme(r)
<1>1. URL(r) = r.names.path /\ r.names.path \in Seq(Parts)
  BY RequestParts DEF URL
<1>2. ASSUME URL(r) # <<>> PROVE Head(URL(r))[1] # "scheme"
  <2>1. Head(URL(r)) \in Parts
    BY <1>1, <1>2
  <2> QED
    BY <2>1 DEF Parts
<1> QED
  BY <1>1, <1>2 DEF HasScheme

\* What a request names: ConnectsWhereAsked in operators of its own
First(a, b)  == IF a # None THEN a ELSE b
HasUrl(r)    == r.Proxy = None /\ r.names.scheme # None
Encrypted(r) == r.is_secure \/ (HasUrl(r) /\ r.names.scheme \in {"https", "wss"})
AskedHost(r) ==
  IF r.Proxy # None THEN r.Proxy.host ELSE First(r.host, IF HasUrl(r) THEN r.names.host ELSE None)
AskedPort(r) ==
  IF r.Proxy # None THEN First(r.Proxy.port, 80)
  ELSE First(IF r.port = 0 THEN None ELSE r.port,
             IF HasUrl(r) THEN First(r.names.port, IF Encrypted(r) THEN 443 ELSE 80) ELSE 0)
HostMissed(r) == HasUrl(r) /\ r.host = None /\ r.names.port = None /\ r.names.path = <<>>

HostSelected(r) ==
  /\ SelHost(r) = None => AskedHost(r) = None \/ HostMissed(r)
  /\ SelHost(r) # None => SelHost(r) = <<AskedHost(r)>> /\ ReqHost(r) \in Seq(Parts)
PathSelected(r) ==
  Path(r) \in Seq(UrlParts) /\ Path(r) = IF HasUrl(r) THEN r.names.path ELSE URL(r)
Selected(r) ==
  (Secure(r) <=> Encrypted(r)) /\ SelPort(r) = AskedPort(r) /\ HostSelected(r) /\ PathSelected(r)

\* A host that is one text
LEMMA OneText ==
  ASSUME NEW host \in Texts, None \notin Seq(Parts)
  PROVE  <<host>> \in Seq(Parts) /\ <<host>> # None
<1>1. host \in Parts
  BY DEF Texts, Parts
<1>2. <<host>> \in Seq(Parts)
  BY <1>1
<1> QED
  BY <1>2

LEMMA SelectedByProxy ==
  ASSUME NEW r \in Requests, r.Proxy # None
  PROVE  Selected(r)
<1> DEFINE h == r.Proxy.host
           p == r.Proxy.port
           u == HostPort(h, p)
<1>1. h \in Texts /\ p \in Nat \cup {None} /\ None \notin Nat /\ None \notin Texts
      /\ None \notin Seq(Parts) /\ r.is_secure \in BOOLEAN /\ None \notin Schemes
  BY RequestParts
<1>2. HostPortParts(u, h, p)
  BY <1>1, HostThenPort
<1>3. ProxyText(r) = u /\ ~HasScheme(r) /\ ~HasUrl(r)
  BY DEF ProxyText, HasScheme, HasUrl
<1>4. SelHost(r) = Before(u, Min(Places({"colon"}, u) \cup {Len(u) + 1}))
  BY <1>3 DEF SelHost, ProxyColons
<1>5. SelPort(r) = IF Places({"colon"}, u) = {} THEN 80
                   ELSE Number(u, Max(Places({"colon"}, u)) + 1)
  BY <1>3 DEF SelPort, ProxyColons
<1> HIDE DEF u
<1>6. /\ u \in Seq(Parts) /\ Len(u) \in {1, 3} /\ (Len(u) = 1 <=> p = None)
      /\ u[1] = h /\ u[1][1] = "text"
      /\ Len(u) = 3 => u[2][1] = "colon" /\ u[3][1] = "number" /\ u[3][2] = p
  BY <1>2 DEF HostPortParts
<1>7. Places({"colon"}, u) = IF p = None THEN {} ELSE {2}
  <2>1. CASE p = None
    <3>1. \A i \in DOMAIN u : i = 1
      BY <1>6, <2>1
    <3> QED
      BY <1>6, <2>1, <3>1 DEF Places
  <2>2. CASE p # None
    <3>1. Len(u) = 3
      BY <1>6, <2>2
    <3>2. DOMAIN u = 1 .. 3
      BY <1>6, <3>1
    <3>3. \A i \in 1 .. 3 : i = 1 \/ i = 2 \/ i = 3
      OBVIOUS
    <3>4. \A i : i \in Places({"colon"}, u) <=> i = 2
      BY <1>6, <3>1, <3>2, <3>3 DEF Places
    <3> QED
      BY <2>2, <3>4
  <2> QED
    BY <2>1, <2>2
<1>8. Min(Places({"colon"}, u) \cup {Len(u) + 1}) = 2
  <2>1. CASE p = None
    <3>1. Places({"colon"}, u) \cup {Len(u) + 1} = {2}
      <4>1. Places({"colon"}, u) = {}
        BY <1>7, <2>1
      <4>2. Len(u) + 1 = 2
        <5>1. Len(u) = 1
          BY <1>6, <2>1, Zenon
        <5> QED
          BY <5>1
      <4> QED
        BY <4>1, <4>2
    <3>2. 2 \in {2} /\ {2} \in SUBSET Int /\ \A y \in {2} : 2 <= y
      OBVIOUS
    <3> QED
      BY <3>1, <3>2, Least
  <2>2. CASE p # None
    <3>1. Places({"colon"}, u) \cup {Len(u) + 1} = {2, 4}
      <4>1. Places({"colon"}, u) = {2}
        BY <1>7, <2>2
      <4>2. Len(u) + 1 = 4
        <5>1. Len(u) = 3
          BY <1>6, <2>2, Zenon
        <5> QED
          BY <5>1
      <4> QED
        BY <4>1, <4>2
    <3>2. 2 \in {2, 4} /\ {2, 4} \in SUBSET Int /\ \A y \in {2, 4} : 2 <= y
      OBVIOUS
    <3> QED
      BY <3>1, <3>2, Least
  <2> QED
    BY <2>1, <2>2
<1>9. SubSeq(u, 1, 2 - 1) = <<h>>
  <2>1. 1 <= Len(u) /\ u[1] = h /\ Len(u) \in Nat /\ u \in Seq(Parts)
    BY <1>6
  <2> DEFINE b == SubSeq(u, 1, 2 - 1)
  <2>2. b \in Seq(Parts) /\ Len(b) = 1 /\ b[1] = u[1]
    BY <2>1
  <2> HIDE DEF b, h
  <2>3. b = <<b[1]>>
    BY <2>2
  <2> QED
    BY <2>1, <2>2, <2>3 DEF b
<1>10. SelHost(r) = <<h>>
  BY <1>4, <1>8, <1>9 DEF Before
<1>11. SelPort(r) = IF p = None THEN 80 ELSE p
  <2>1. CASE p = None
    BY <1>5, <1>7, <2>1
  <2>2. CASE p # None
    <3>1. Max({2}) = 2
      BY Greatest
    <3>2. SelPort(r) = Number(u, 2 + 1)
      BY <1>5, <1>7, <2>2, <3>1
    <3>3. 3 \in DOMAIN u /\ u[3][1] = "number" /\ u[3][2] = p
      BY <1>6, <2>2
    <3>4. Number(u, 2 + 1) = p
      BY <3>3 DEF Number, Places
    <3> QED
      BY <2>2, <3>2, <3>4
  <2> QED
    BY <2>1, <2>2
<1>12. <<h>> \in Seq(Parts) /\ <<h>> # None
  BY <1>1, OneText
<1> HIDE DEF h, p
<1>13. ReqHost(r) \in Seq(Parts)
  <2>1. r.host \in Texts \cup {None}
    BY RequestParts
  <2>2. r.host # None => <<r.host>> \in Seq(Parts)
    BY <1>1, <2>1, OneText
  <2> QED
    BY <1>3, <1>10, <1>12, <2>2 DEF ReqHost
<1>14. HostSelected(r)
  BY <1>10, <1>12, <1>13 DEF HostSelected, AskedHost, h
<1>15. Path(r) = URL(r) /\ URL(r) \in Seq(UrlParts)
  <2>1. Path(r) = URL(r)
    BY <1>3 DEF Path
  <2>2. CASE r.names.scheme = None
    <3>1. URL(r) \in Seq(Parts)
      BY <2>2, RequestParts, UrlWithout
    <3> QED
      BY <2>1, <3>1 DEF UrlParts
  <2>3. CASE r.names.scheme # None
    BY <2>1, <2>3, UrlWithScheme
  <2> QED
    BY <2>2, <2>3
<1>16. PathSelected(r)
  BY <1>3, <1>15 DEF PathSelected
<1>17. Secure(r) <=> Encrypted(r)
  BY <1>1, <1>3 DEF Secure, Scheme, Encrypted, Schemes
<1>18. SelPort(r) = AskedPort(r)
  BY <1>11 DEF AskedPort, First, p
<1> QED
  BY <1>14, <1>16, <1>17, <1>18 DEF Selected

LEMMA SelectedByFields ==
  ASSUME NEW r \in Requests, r.Proxy = None, r.names.scheme = None
  PROVE  Selected(r)
<1>1. /\ r.host \in Texts \cup {None} /\ None \notin Nat /\ None \notin Texts
      /\ None \notin Seq(Parts) /\ r.is_secure \in BOOLEAN /\ None \notin Schemes
      /\ r.port \in Nat /\ r.names.path \in Seq(Parts)
  BY RequestParts
<1>2. ~HasScheme(r) /\ URL(r) = r.names.path /\ ~HasUrl(r)
  BY UrlWithout DEF HasUrl
<1>3. SelHost(r) = IF r.host # None THEN <<r.host>> ELSE None
  BY <1>2 DEF SelHost
<1>4. r.host # None => <<r.host>> \in Seq(Parts) /\ <<r.host>> # None
  BY <1>1, OneText
<1>5. ReqHost(r) = IF r.host # None THEN <<r.host>> ELSE SelHost(r)
  BY <1>2 DEF ReqHost
<1>6. HostSelected(r)
  BY <1>2, <1>3, <1>4, <1>5 DEF HostSelected, AskedHost, First
<1>7. Path(r) = URL(r) /\ URL(r) \in Seq(UrlParts)
  <2>1. Path(r) = URL(r)
    BY <1>2 DEF Path
  <2>2. URL(r) \in Seq(UrlParts)
    BY <1>1, <1>2 DEF UrlParts
  <2> QED
    BY <2>1, <2>2
<1>8. PathSelected(r)
  BY <1>2, <1>7 DEF PathSelected
<1>9. Secure(r) <=> Encrypted(r)
  BY <1>1, <1>2 DEF Secure, Scheme, Encrypted, Schemes
<1>10. SelPort(r) = r.port
  BY <1>1, <1>2 DEF SelPort
<1>11. SelPort(r) = AskedPort(r)
  BY <1>1, <1>2, <1>10 DEF AskedPort, First
<1> QED
  BY <1>6, <1>8, <1>9, <1>11 DEF Selected

LEMMA SelectedByUrl ==
  ASSUME NEW r \in Requests, r.Proxy = None, r.names.scheme # None
  PROVE  Selected(r)
<1> DEFINE n == r.names
           u == HostPort(n.host, n.port) \o n.path
<1>1. /\ r.host \in Texts \cup {None} /\ None \notin Nat /\ None \notin Texts
      /\ None \notin Seq(Parts) /\ r.is_secure \in BOOLEAN /\ None \notin Schemes
      /\ r.port \in Nat /\ n.path \in Seq(Parts) /\ n.host \in Texts /\ n.port \in Nat \cup {None}
      /\ n.scheme \in Schemes
  BY RequestParts
<1>2. /\ URL(r) # <<>> /\ Head(URL(r))[1] = "scheme" /\ Head(URL(r))[2] = n.scheme
      /\ Tail(URL(r)) = u /\ UrlRead(u, n.host, n.port, n.path)
  BY UrlWithScheme
<1> HIDE DEF u
<1>3. HasScheme(r) /\ Scheme(r) = n.scheme /\ Rest(r) = u /\ HasUrl(r)
  BY <1>2 DEF HasScheme, Scheme, Rest, HasUrl
<1>4. /\ SubSeq(u, PathAt(u), Len(u)) = n.path
      /\ Marks(u) # {} => /\ Before(u, Min(Marks(u))) = <<n.host>>
                          /\ Before(u, Max(Marks(u))) \in Seq(Parts)
      /\ Marks(u) = {} <=> n.port = None /\ n.path = <<>>
      /\ Colons(u) = {} <=> n.port = None
      /\ n.port # None => Number(u, Max(Colons(u)) + 1) = n.port
  BY <1>2 DEF UrlRead
<1>5. SelHost(r) = IF r.host # None THEN <<r.host>>
                   ELSE IF Marks(u) # {} THEN Before(u, Min(Marks(u))) ELSE None
  BY <1>3 DEF SelHost
<1>6. /\ r.host # None => <<r.host>> \in Seq(Parts) /\ <<r.host>> # None
      /\ <<n.host>> # None
  BY <1>1, OneText
<1>7. ReqHost(r) = IF Marks(u) # {} THEN Before(u, Max(Marks(u)))
                   ELSE IF r.host # None THEN <<r.host>> ELSE SelHost(r)
  BY <1>3 DEF ReqHost
<1>8. AskedHost(r) = IF r.host # None THEN r.host ELSE n.host
  BY <1>3 DEF AskedHost, First
<1>9. HostSelected(r)
  <2>1. CASE r.host # None
    <3>1. SelHost(r) = <<r.host>> /\ AskedHost(r) = r.host
      BY <1>5, <1>8, <2>1
    <3>2. ReqHost(r) \in Seq(Parts)
      BY <1>4, <1>6, <1>7, <2>1
    <3> QED
      BY <1>6, <2>1, <3>1, <3>2 DEF HostSelected
  <2>2. CASE r.host = None /\ Marks(u) # {}
    <3>1. SelHost(r) = <<n.host>> /\ AskedHost(r) = n.host /\ ReqHost(r) \in Seq(Parts)
      BY <1>4, <1>5, <1>7, <1>8, <2>2
    <3> QED
      BY <1>6, <3>1 DEF HostSelected
  <2>3. CASE r.host = None /\ Marks(u) = {}
    <3>1. SelHost(r) = None /\ HostMissed(r)
      BY <1>3, <1>4, <1>5, <2>3 DEF HostMissed
    <3> QED
      BY <3>1 DEF HostSelected
  <2> QED
    BY <2>1, <2>2, <2>3
<1>10. Path(r) = n.path
  BY <1>3, <1>4 DEF Path
<1>11. PathSelected(r)
  <2>1. n.path \in Seq(UrlParts)
    BY <1>1 DEF UrlParts
  <2> QED
    BY <1>3, <1>10, <2>1 DEF PathSelected
<1>12. Secure(r) <=> Encrypted(r)
  BY <1>3 DEF Secure, Encrypted
<1>13. SelPort(r) = IF r.port # 0 THEN r.port
                    ELSE IF Colons(u) # {} THEN Number(u, Max(Colons(u)) + 1)
                    ELSE IF Secure(r) THEN 443 ELSE 80
  BY <1>3 DEF SelPort
<1>14. SelPort(r) = AskedPort(r)
  <2>1. AskedPort(r) = First(IF r.port = 0 THEN None ELSE r.port,
                             First(n.port, IF Encrypted(r) THEN 443 ELSE 80))
    BY <1>3 DEF AskedPort
  <2>2. CASE r.port # 0
    BY <1>1, <1>13, <2>1, <2>2 DEF First
  <2>3. CASE r.port = 0 /\ n.port # None
    BY <1>1, <1>4, <1>13, <2>1, <2>3 DEF First
  <2>4. CASE r.port = 0 /\ n.port = None
    BY <1>1, <1>4, <1>12, <1>13, <2>1, <2>4 DEF First
  <2> QED
    BY <2>2, <2>3, <2>4
<1> QED
  BY <1>9, <1>11, <1>12, <1>14 DEF Selected

LEMMA RequestSelected ==
  ASSUME NEW r \in Requests
  PROVE  Selected(r)
BY SelectedByProxy, SelectedByFields, SelectedByUrl

\* The request is one the program makes as long as there is no connection, and
\* refused without a host or a port.
RequestInv ==
  /\ pc \in {"call", "connect"} => req \in Requests /\ ret.code = 0
  /\ pc = "connect" => SelHost(req) # None /\ SelPort(req) # 0
  /\ pc = "returned" /\ server = None /\ ret.code = 1 =>
       req \in Requests /\ (SelHost(req) = None \/ SelPort(req) = 0)

\* A connection that is made goes where the request and its URL say.
LEMMA ConnectsRight ==
  ASSUME RequestInv
  PROVE  ConnectsWhereAsked
<1>1. ASSUME pc = "connect"
      PROVE  /\ Secure(req) = Encrypted(req)
             /\ SelHost(req) = <<AskedHost(req)>> /\ SelPort(req) = AskedPort(req)
             /\ Path(req) = IF HasUrl(req) THEN req.names.path ELSE URL(req)
  <2>1. Selected(req) /\ SelHost(req) # None
    BY <1>1, RequestSelected DEF RequestInv
  <2>2. Secure(req) = Encrypted(req)
    BY <2>1, RequestParts, <1>1 DEF RequestInv, Selected, Secure, Encrypted
  <2> QED
    BY <2>1, <2>2 DEF Selected, HostSelected, PathSelected
<1>2. ASSUME pc = "returned", server = None, ret.code = 1
      PROVE  AskedHost(req) = None \/ AskedPort(req) = 0 \/ HostMissed(req)
  <2>1. Selected(req) /\ (SelHost(req) = None \/ SelPort(req) = 0)
    BY <1>2, RequestSelected DEF RequestInv
  <2> QED
    BY <2>1 DEF Selected, HostSelected
<1> QED
  BY <1>1, <1>2, Zenon
  DEF ConnectsWhereAsked, AskedHost, AskedPort, HasUrl, Encrypted, HostMissed, First

\* What is printed of a request fits exactly if there is a path and an upgrade has
\* no more than 116 bytes of origin and headers: the plain request always does.
LEMMA HeaderFits ==
  ASSUME NEW r \in Requests, SelHost(r) # None
  PROVE  Fits(r) <=> Path(r) # <<>> /\ (WebSocket(r) => r.origin + r.added <= 116)
<1> DEFINE b == Bytes(Path(r))
           h == Bytes(ReqHost(r))
<1>1. r.origin \in Nat /\ r.added \in Nat
  BY RequestParts
<1>2. Path(r) \in Seq(UrlParts) /\ ReqHost(r) \in Seq(UrlParts)
  <2>1. Path(r) \in Seq(UrlParts) /\ ReqHost(r) \in Seq(Parts)
    BY RequestSelected DEF Selected, HostSelected, PathSelected
  <2> QED
    BY <2>1 DEF UrlParts
<1>3. b \in Nat /\ (b = 0 <=> Path(r) = <<>>) /\ h \in Nat
  <2> HIDE DEF UrlParts
  <2> QED
    BY <1>2, PartsHaveBytes, BytesOfText
<1>4. EncodedLength(r) = b + 1 /\ EncodedSize(r) = 3 * b
  BY DEF EncodedLength, EncodedSize
<1>5. WebSocket(r) => /\ HeaderLength(r) = b + h + 183 + r.origin + r.added + 1
                      /\ HeaderSize(r) = b + 300 + h
  BY DEF HeaderLength, HeaderSize
<1> DEFINE d == IF r.post = None THEN 0 ELSE 1 + 18 + Digits(r.post)
           a == IF r.added > 0 THEN r.added + 2 ELSE 0
<1>6. ~WebSocket(r) => HeaderLength(r) = 42 + b + h + d + a + 2 + 1
                       /\ HeaderSize(r) = b + 30 + h + r.added + 50
  BY DEF HeaderLength, HeaderSize
<1>7. d \in 0 .. 29 /\ a \in Nat /\ a <= r.added + 2
  <2>1. Digits(r.post) \in 1 .. 10
    BY FewDigits
  <2> QED
    BY <1>1, <2>1
<1> HIDE DEF b, h, d, a
<1>8. EncodedLength(r) <= EncodedSize(r) <=> Path(r) # <<>>
  BY <1>3, <1>4
<1>9. WebSocket(r) => (HeaderLength(r) <= HeaderSize(r) <=> r.origin + r.added <= 116)
  BY <1>1, <1>3, <1>5
<1>10. ~WebSocket(r) => HeaderLength(r) <= HeaderSize(r)
  BY <1>1, <1>3, <1>6, <1>7
<1> QED
  BY <1>8, <1>9, <1>10 DEF Fits

LEMMA RequestStep ==
  ASSUME OwnerInv, RequestInv, [Next]_vars
  PROVE  RequestInv'
<1>1. CASE Transact
  <2>1. pc = "call" /\ server' = server /\ req' = req
    BY <1>1 DEF Transact
  <2>2. CASE SelPort(req) = 0 \/ SelHost(req) = None
    BY <1>1, <2>1, <2>2 DEF Transact, RequestInv
  <2>3. CASE ~(SelPort(req) = 0 \/ SelHost(req) = None)
    BY <1>1, <2>1, <2>3 DEF Transact, RequestInv
  <2> QED
    BY <2>2, <2>3
<1>2. CASE ConnectFails \/ AttachFails
  <2>1. pc' = "returned" /\ ret'.code = 0
    BY <1>2 DEF ConnectFails, AttachFails, RequestInv
  <2> QED
    BY <2>1 DEF RequestInv
<1>3. CASE Decode \/ RecvReads \/ RecvCloses
  <2>1. pc' \notin {"call", "connect"} /\ server' = server /\ server # None
    BY <1>3 DEF Decode, RecvReads, RecvCloses, OwnerInv
  <2> QED
    BY <2>1 DEF RequestInv
<1>4. CASE RequestWild \/ Connect \/ Read \/ ReadEnds \/ WSSend \/ WSRecv \/ RecvWild \/ Cleanup
  <2>1. pc' \notin {"call", "connect", "returned"}
    BY <1>4 DEF RequestWild, Connect, Read, ReadEnds, WSSend, WSRecv, RecvWild, Cleanup
  <2> QED
    BY <2>1 DEF RequestInv
<1>5. CASE UNCHANGED vars
  BY <1>5 DEF vars, RequestInv
<1> QED
  BY <1>1, <1>2, <1>3, <1>4, <1>5 DEF Next

\* Whatever the fields of a request and the parts of its URL, the connection
\* goes where they say, is refused only as ConnectsWhereAsked says, and the
\* request fits its buffers exactly if it has a path and, for an upgrade, no more
\* than 116 bytes of origin and added headers.
THEOREM RequestAlwaysRight == Spec => []RequestRight
<1>1. Init => RequestInv
  BY DEF Init, RequestInv, NoRet
<1>2. RequestInv => RequestRight
  <2> SUFFICES ASSUME RequestInv PROVE ConnectsWhereAsked /\ RequestFits
    BY DEF RequestRight
  <2>1. RequestFits
    BY HeaderFits DEF RequestFits, RequestInv
  <2> QED
    BY <2>1, ConnectsRight
<1>3. OwnerInv /\ RequestInv /\ [Next]_vars => OwnerInv' /\ RequestInv'
  BY OwnerStep, RequestStep
<1> QED
  BY <1>1, <1>2, <1>3, OwnerInit, PTL DEF Spec

-----------------------------------------------------------------------------
(* The frames that are sent.                                               *)

\* What stands between the first byte and the mask.
LEMMA Between ==
  ASSUME NEW s \in Seq(Int)
  PROVE  LET h == <<129>> \o s \o <<0, 0, 0, 0>> IN
         Len(h) = Len(s) + 5 /\ \A i \in 1 .. Len(s) : h[i + 1] = s[i]
<1>1. Len(<<129>> \o s \o <<0, 0, 0, 0>>) = Len(s) + 5
  OBVIOUS
<1>2. ASSUME NEW i \in 1 .. Len(s) PROVE (<<129>> \o s \o <<0, 0, 0, 0>>)[i + 1] = s[i]
  OBVIOUS
<1> QED
  BY <1>1, <1>2

\* The length is written in one, three or nine bytes.
LEMMA LengthForms ==
  ASSUME NEW n \in Nat
  PROVE  LET s == LengthBytes(n) IN
         /\ s \in Seq(Int)
         /\ n > 65535 => Len(s) = 9 /\ s[1] = 255
         /\ n > 125 /\ n <= 65535 =>
              Len(s) = 3 /\ s[1] = 254 /\ s[2] = n \div 256 /\ s[3] = n % 256
         /\ n <= 125 => Len(s) = 1 /\ s[1] = 128 + n
<1>1. CASE n > 65535
  <2>1. 2 ^ 24 \in Nat \ {0} /\ 2 ^ 16 \in Nat \ {0}
    OBVIOUS
  <2>2. n \div 2 ^ 24 \in Int /\ (n \div 2 ^ 16) % 256 \in Int
    BY <2>1
  <2>3. LengthBytes(n) = <<255, 0, 0, 0, 0, n \div 2 ^ 24, (n \div 2 ^ 16) % 256,
                           (n \div 256) % 256, n % 256>>
    BY <1>1 DEF LengthBytes
  <2> QED
    BY <1>1, <2>2, <2>3
<1>2. CASE n > 125 /\ n <= 65535
  <2>1. LengthBytes(n) = <<254, n \div 256, n % 256>>
    BY <1>2 DEF LengthBytes
  <2> QED
    BY <1>2, <2>1
<1>3. CASE n <= 125
  <2>1. LengthBytes(n) = <<128 + n>>
    BY <1>3 DEF LengthBytes
  <2> QED
    BY <1>3, <2>1
<1> QED
  BY <1>1, <1>2, <1>3

LEMMA AroundLength ==
  ASSUME NEW n \in Nat
  PROVE  /\ Len(FrameHead(n)) = Len(LengthBytes(n)) + 5
         /\ \A i \in 1 .. Len(LengthBytes(n)) : FrameHead(n)[i + 1] = LengthBytes(n)[i]
<1> DEFINE s == LengthBytes(n)
<1>1. FrameHead(n) = <<129>> \o s \o <<0, 0, 0, 0>>
  BY DEF FrameHead
<1>2. s \in Seq(Int)
  BY LengthForms
<1> HIDE DEF s
<1>3. /\ Len(FrameHead(n)) = Len(s) + 5
      /\ \A i \in 1 .. Len(s) : FrameHead(n)[i + 1] = s[i]
  BY <1>1, <1>2, Between
<1> QED
  BY <1>3 DEF s

\* What the server makes of a first piece of k bytes, by the second byte of it.
LEMMA Reads ==
  ASSUME NEW h, NEW k \in Nat \ {0}
  PROVE  LET r == ServerReads(h, k) IN
         /\ h[2] = 255 => r.what \notin {"read", "beyond"}
         /\ h[2] = 254 =>
              /\ r.at = 8 /\ r.length = 256 * h[3] + h[4]
              /\ r.what = IF k < 6 THEN "skipped" ELSE IF k < 8 THEN "beyond"
                          ELSE IF k - 8 < r.length THEN "refused" ELSE "read"
         /\ \A n \in 0 .. 125 : h[2] = 128 + n =>
              /\ r.at = 6 /\ r.length = n
              /\ r.what = IF k < 6 THEN "skipped" ELSE IF k - 6 < n THEN "refused" ELSE "read"
<1> DEFINE r == ServerReads(h, k)
<1>1. k - 1 < 5 <=> k < 6
  OBVIOUS
<1>2. ASSUME h[2] = 255 PROVE r.what \notin {"read", "beyond"}
  <2>1. 255 % 128 = 127 /\ 127 # 126 /\ ~(127 < 127)
    OBVIOUS
  <2>2. r = [what |-> IF k < 6 THEN "skipped" ELSE "refused", at |-> 6, length |-> 127]
    BY <1>1, <1>2, <2>1 DEF ServerReads
  <2> QED
    BY <2>2
<1>3. ASSUME h[2] = 254
      PROVE  /\ r.at = 8 /\ r.length = 256 * h[3] + h[4]
             /\ r.what = IF k < 6 THEN "skipped" ELSE IF k < 8 THEN "beyond"
                         ELSE IF k - 8 < r.length THEN "refused" ELSE "read"
  <2> DEFINE l == 256 * h[3] + h[4]
  <2>1. 254 % 128 = 126 /\ 126 < 127 /\ 126 # 127 /\ ~(254 < 128) /\ 254 >= 128
    OBVIOUS
  <2>2. r = [what |-> IF k < 6 THEN "skipped" ELSE IF k < 8 THEN "beyond"
                      ELSE IF k - 8 < l THEN "refused" ELSE "read",
             at |-> 8, length |-> l]
    BY <1>1, <1>3, <2>1 DEF ServerReads
  <2> HIDE DEF l, r
  <2>3. r.at = 8 /\ r.length = l /\ r.what = IF k < 6 THEN "skipped" ELSE IF k < 8 THEN "beyond"
                                             ELSE IF k - 8 < l THEN "refused" ELSE "read"
    BY <2>2
  <2> QED
    BY <2>3 DEF l
<1>4. ASSUME NEW n \in 0 .. 125, h[2] = 128 + n
      PROVE  /\ r.at = 6 /\ r.length = n
             /\ r.what = IF k < 6 THEN "skipped" ELSE IF k - 6 < n THEN "refused" ELSE "read"
  <2>1. (128 + n) % 128 = n /\ n < 127 /\ n # 127 /\ n # 126 /\ 128 + n >= 128 /\ ~(128 + n < 128)
    OBVIOUS
  <2>2. r = [what |-> IF k < 6 THEN "skipped" ELSE IF k - 6 < n THEN "refused" ELSE "read",
             at |-> 6, length |-> n]
    BY <1>1, <1>4, <2>1 DEF ServerReads
  <2> HIDE DEF r
  <2> QED
    BY <2>2
<1> QED
  BY <1>2, <1>3, <1>4

\* The frame's head and what comes of a first piece of it
Understood(n, k) ==
  LET r == ServerReads(FrameHead(n), k)
      whole == Len(FrameHead(n)) + n
  IN /\ r.what = "read" <=> n <= 65535 /\ k = whole
     /\ r.what = "read" => r.at = Len(FrameHead(n)) /\ r.length = n
     /\ r.what = "beyond" <=> n > 125 /\ n <= 65535 /\ k \in {6, 7}

\* The server of http/cnhttp.c takes each of the three forms as the client means it,
\* when it has the whole frame.
LEMMA FrameRead ==
  ASSUME NEW n \in Nat, NEW k \in 1 .. Len(FrameHead(n)) + n
  PROVE  Understood(n, k)
<1> DEFINE h == FrameHead(n)
           s == LengthBytes(n)
           r == ServerReads(h, k)
<1>1. Len(h) = Len(s) + 5 /\ \A i \in 1 .. Len(s) : h[i + 1] = s[i]
  BY AroundLength
<1>2. /\ n > 65535 => Len(s) = 9 /\ s[1] = 255
      /\ n > 125 /\ n <= 65535 =>
           Len(s) = 3 /\ s[1] = 254 /\ s[2] = n \div 256 /\ s[3] = n % 256
      /\ n <= 125 => Len(s) = 1 /\ s[1] = 128 + n
  BY LengthForms
<1>3. k \in 1 .. Len(h) + n
  OBVIOUS
<1> HIDE DEF h, s
<1>4. CASE n > 65535
  <2>1. Len(h) = 14 /\ h[2] = 255
    <3>1. Len(s) = 9 /\ s[1] = 255
      BY <1>2, <1>4
    <3> QED
      BY <1>1, <3>1
  <2>2. k \in Nat \ {0}
    BY <1>3, <2>1
  <2>3. r.what \notin {"read", "beyond"}
    BY <2>1, <2>2, Reads
  <2>4. ~(n <= 65535)
    BY <1>4
  <2> HIDE DEF r
  <2> QED
    BY <2>3, <2>4, SMT DEF Understood, h, r
<1>5. CASE n > 125 /\ n <= 65535
  <2>1. Len(h) = 8 /\ h[2] = 254 /\ h[3] = n \div 256 /\ h[4] = n % 256
    <3>1. Len(s) = 3 /\ s[1] = 254 /\ s[2] = n \div 256 /\ s[3] = n % 256
      BY <1>2, <1>5
    <3> QED
      BY <1>1, <3>1
  <2>2. k \in Nat \ {0} /\ k <= 8 + n
    BY <1>3, <2>1
  <2>3. 256 * (n \div 256) + (n % 256) = n
    OBVIOUS
  <2>4. /\ r.at = 8 /\ r.length = n
        /\ r.what = IF k < 6 THEN "skipped" ELSE IF k < 8 THEN "beyond"
                    ELSE IF k - 8 < n THEN "refused" ELSE "read"
    <3>1. /\ r.at = 8 /\ r.length = 256 * h[3] + h[4]
          /\ r.what = IF k < 6 THEN "skipped" ELSE IF k < 8 THEN "beyond"
                      ELSE IF k - 8 < r.length THEN "refused" ELSE "read"
      BY <2>1, <2>2, Reads, Zenon
    <3> QED
      BY <2>1, <2>3, <3>1
  <2> HIDE DEF r
  <2>5. r.what = "read" <=> k = 8 + n
    BY <1>5, <2>2, <2>4
  <2>6. r.what = "beyond" <=> k \in {6, 7}
    BY <2>2, <2>4
  <2> QED
    BY <1>5, <2>1, <2>4, <2>5, <2>6, SMT DEF Understood, h, r
<1>6. CASE n <= 125
  <2>1. Len(h) = 6 /\ h[2] = 128 + n
    <3>1. Len(s) = 1 /\ s[1] = 128 + n
      BY <1>2, <1>6
    <3> QED
      BY <1>1, <3>1
  <2>2. k \in Nat \ {0} /\ k <= 6 + n
    BY <1>3, <2>1
  <2>3. /\ r.at = 6 /\ r.length = n
        /\ r.what = IF k < 6 THEN "skipped" ELSE IF k - 6 < n THEN "refused" ELSE "read"
    <3>1. n \in 0 .. 125
      BY <1>6
    <3> QED
      BY <2>1, <2>2, <3>1, Reads, Zenon
  <2> HIDE DEF r
  <2>4. r.what = "read" <=> k = 6 + n
    BY <2>2, <2>3
  <2>5. r.what # "beyond"
    BY <2>3
  <2>6. n <= 65535 /\ ~(n > 125)
    BY <1>6, SMT
  <2> QED
    BY <2>1, <2>3, <2>4, <2>5, <2>6, SMT DEF Understood, h, r
<1> QED
  BY <1>4, <1>5, <1>6

\* Only WSSend leaves the program at "sent", and what it has then sent is a frame.
FrameInv == OwnerInv /\ FrameUnderstood

LEMMA FrameStep == FrameInv /\ [Next]_vars => FrameInv'
<1> SUFFICES ASSUME FrameInv, [Next]_vars PROVE FrameUnderstood'
  BY OwnerStep DEF FrameInv
<1>1. WsFields /\ FrameUnderstood
  BY DEF FrameInv, OwnerInv
<1>a. ASSUME NEW n \in SEND_LENGTHS, NEW k, ws'.sent = FrameHead(n), ws'.piece = k, Understood(n, k)
      PROVE  FrameUnderstood'
  BY <1>a, SMT DEF FrameUnderstood, Understood
<1>2. CASE WSSend
  <2>1. PICK n \in SEND_LENGTHS :
          \E k \in PIECES \cap 1 .. Min({SERVER_CHUNK, Len(FrameHead(n)) + n}) :
            ws' = [ws EXCEPT !.sent = FrameHead(n), !.piece = k]
    BY <1>2 DEF WSSend
  <2>2. PICK k \in 1 .. Min({SERVER_CHUNK, Len(FrameHead(n)) + n}) :
          ws' = [ws EXCEPT !.sent = FrameHead(n), !.piece = k]
    BY <2>1
  <2>3. n \in Nat /\ SERVER_CHUNK \in Nat
    BY ClientAssumption
  <2>4. ws'.sent = FrameHead(n) /\ ws'.piece = k
    BY <1>1, <2>2, WsWritten
  <2>5. Len(FrameHead(n)) + n \in Int
    <3>1. LengthBytes(n) \in Seq(Int)
      BY <2>3, LengthForms
    <3>2. FrameHead(n) \in Seq(Int)
      BY <3>1 DEF FrameHead
    <3> QED
      BY <2>3, <3>2
  <2>6. k \in 1 .. Len(FrameHead(n)) + n
    <3> DEFINE w == Len(FrameHead(n)) + n
    <3>1. w \in Int /\ k \in 1 .. Min({SERVER_CHUNK, w})
      BY <2>5
    <3> HIDE DEF w
    <3>2. Min({SERVER_CHUNK, w}) \in {SERVER_CHUNK, w} /\ Min({SERVER_CHUNK, w}) <= w
      <4>1. SERVER_CHUNK \in Int /\ w \in Int
        BY <2>3, <3>1
      <4> QED
        BY <4>1, MinOfTwo, Zenon
    <3>3. k \in 1 .. w
      BY <2>3, <3>1, <3>2
    <3> QED
      BY <3>3 DEF w
  <2>7. Understood(n, k)
    BY <2>3, <2>6, FrameRead
  <2> QED
    BY <1>a, <2>4, <2>7, Zenon
<1>3. CASE pc' # "sent"
  BY <1>3, SMT DEF FrameUnderstood
<1>4. CASE ~WSSend /\ pc' = "sent"
  <2>1. UNCHANGED vars
    BY <1>4 DEF Next, Transact, ConnectFails, AttachFails, RequestWild, Connect, Read, ReadEnds,
               Decode, RecvWild, Cleanup, WSRecv, RecvReads, RecvCloses
  <2> QED
    BY <1>1, <2>1, SMT DEF FrameUnderstood, vars
<1> QED
  BY <1>2, <1>3, <1>4

\* The server of this repository finds the payload of every frame of WSSend that it
\* can take and has read at once where the client has put it, whatever the length:
\* the forms of the length and the four bytes of the mask add up.  Where it has less
\* it hands nothing on, but for the two pieces that make it look beyond them.
THEOREM FramesAlwaysUnderstood == Spec => []FrameUnderstood
<1>1. Init => FrameInv
  BY OwnerInit DEF FrameInv, FrameUnderstood, Init
<1>2. FrameInv => FrameUnderstood
  BY DEF FrameInv
<1> QED
  BY <1>1, <1>2, FrameStep, PTL DEF Spec

-----------------------------------------------------------------------------
(* The digits of a chunk's size.                                           *)

LEMMA DigitValues ==
  /\ "CR" \notin DOMAIN HexDigits /\ "0" \in DOMAIN HexDigits /\ HexDigits["0"] = 0
  /\ \A c \in DOMAIN HexDigits : HexDigits[c] \in Nat
<1> DEFINE lower == <<"0", "1", "2", "3", "4", "5", "6", "7", "8", "9", "a", "b", "c", "d", "e", "f">>
           upper == <<"0", "1", "2", "3", "4", "5", "6", "7", "8", "9", "A", "B", "C", "D", "E", "F">>
           D == ToSet(lower) \cup ToSet(upper)
           V(c) == CHOOSE i \in 0 .. 15 : c \in {lower[i + 1], upper[i + 1]}
<1>1. HexDigits = [c \in D |-> V(c)]
  BY DEF HexDigits
<1>2. DOMAIN lower = 1 .. 16 /\ DOMAIN upper = 1 .. 16
  OBVIOUS
<1>3. \A j \in 1 .. 16 : /\ lower[j] # "CR" /\ (lower[j] = "0" => j = 1)
                         /\ upper[j] # "CR" /\ (upper[j] = "0" => j = 1)
  <2>1. \A j \in 1 .. 16 : lower[j] # "CR" /\ (lower[j] = "0" => j = 1)
    OBVIOUS
  <2>2. \A j \in 1 .. 16 : upper[j] # "CR" /\ (upper[j] = "0" => j = 1)
    OBVIOUS
  <2> HIDE DEF lower, upper
  <2> QED
    BY <2>1, <2>2
<1>4. lower[1] = "0"
  OBVIOUS
<1> HIDE DEF lower, upper
<1>5. D = {lower[j] : j \in 1 .. 16} \cup {upper[j] : j \in 1 .. 16}
  BY <1>2, Zenon DEF ToSet
<1>6. "CR" \notin D /\ "0" \in D
  <2>1. 1 \in 1 .. 16
    OBVIOUS
  <2> HIDE DEF D
  <2> QED
    BY <1>3, <1>4, <1>5, <2>1
<1>7. ASSUME NEW c \in D
      PROVE  V(c) \in 0 .. 15 /\ c \in {lower[V(c) + 1], upper[V(c) + 1]}
  <2>1. \E j \in 1 .. 16 : c \in {lower[j], upper[j]}
    BY <1>5
  <2>2. \A j \in 1 .. 16 : j - 1 \in 0 .. 15 /\ (j - 1) + 1 = j
    OBVIOUS
  <2>3. \E i \in 0 .. 15 : c \in {lower[i + 1], upper[i + 1]}
    BY <2>1, <2>2
  <2> QED
    BY <2>3, Zenon
<1>8. V("0") = 0
  <2>1. V("0") \in 0 .. 15 /\ "0" \in {lower[V("0") + 1], upper[V("0") + 1]}
    BY <1>6, <1>7
  <2> HIDE DEF V
  <2>2. V("0") + 1 \in 1 .. 16
    BY <2>1
  <2> QED
    BY <1>3, <2>1, <2>2
<1> HIDE DEF D, V
<1> QED
  BY <1>1, <1>6, <1>7, <1>8

\* Any digits stand for a number, and a single 0 for zero.
LEMMA SizeIsNumber ==
  ASSUME NEW s \in Seq(DOMAIN HexDigits)
  PROVE  HexValue(s) \in Nat /\ (s = <<"0">> => HexValue(s) = 0)
<1> DEFINE n == Len(s)
           h == [k \in 0 + 1 .. n |-> [v \in Nat |-> 16 * v + HexDigits[s[k]]]]
           Is(f) == f = [k \in 0 .. n |-> IF k = 0 THEN 0 ELSE 16 * f[k - 1] + HexDigits[s[k]]]
           value == CHOOSE f : Is(f)
<1>1. n \in Nat /\ \A k \in 1 .. n : HexDigits[s[k]] \in Nat
  BY DigitValues
<1>2. \A k \in 0 + 1 .. n : \A v \in Nat : 16 * v + HexDigits[s[k]] \in Nat
  BY <1>1
<1>3. h \in [0 + 1 .. n -> [Nat -> Nat]]
  BY <1>2
<1>4. PICK f : Stepped(f, 0, n, 0, h)
  <2>1. 0 <= n /\ 0 \in Nat
    BY <1>1
  <2> HIDE DEF h, n
  <2> QED
    BY <1>1, <1>3, <2>1, StepsExist
<1>5. \A k \in 0 .. n : f[k] \in Nat
  <2>1. f[0] \in Nat
    BY <1>1, <1>4 DEF Stepped
  <2>2. ASSUME NEW k \in 0 + 1 .. n, f[k - 1] \in Nat PROVE f[k] \in Nat
    <3>1. k \in 0 .. n /\ k # 0
      OBVIOUS
    <3>2. f[k] = h[k][f[k - 1]]
      BY <1>4, <3>1 DEF Stepped
    <3>3. h[k] \in [Nat -> Nat]
      BY <1>3
    <3> QED
      BY <2>2, <3>2, <3>3
  <2> HIDE DEF h, n
  <2> QED
    BY <1>1, <2>1, <2>2, StepsStay
<1>6. Is(f)
  <2>1. ASSUME NEW k \in 0 .. n, k # 0
        PROVE  h[k][f[k - 1]] = 16 * f[k - 1] + HexDigits[s[k]]
    <3>1. k \in 0 + 1 .. n /\ k - 1 \in 0 .. n
      BY <1>1, <2>1
    <3>2. f[k - 1] \in Nat
      BY <1>5, <3>1
    <3> QED
      BY <3>1, <3>2
  <2> HIDE DEF h
  <2> QED
    BY <1>4, <2>1, Zenon DEF Stepped
<1>7. Is(value)
  BY <1>6, Zenon
<1>8. HexValue(s) = value[n]
  BY Zenon DEF HexValue
<1> HIDE DEF value
<1>9. /\ value[0] = 0
      /\ \A k \in 1 .. n : value[k] = 16 * value[k - 1] + HexDigits[s[k]]
  BY <1>1, <1>7
<1>10. \A k \in 0 .. n : value[k] \in Nat
  <2>1. ASSUME NEW k \in 0 + 1 .. n, value[k - 1] \in Nat PROVE value[k] \in Nat
    BY <1>1, <1>9, <2>1
  <2>2. value[0] \in Nat
    BY <1>9
  <2> HIDE DEF n
  <2> QED
    BY <1>1, <2>1, <2>2, StepsStay
<1>11. ASSUME s = <<"0">> PROVE value[n] = 0
  <2>1. n = 1 /\ s[1] = "0"
    BY <1>11
  <2>2. value[1] = 16 * value[0] + 0
    BY <1>9, <2>1, DigitValues
  <2> QED
    BY <1>9, <2>1, <2>2
<1> QED
  BY <1>1, <1>8, <1>10, <1>11

-----------------------------------------------------------------------------
(* Sequences that are put together.                                        *)

LEMMA Appended ==
  ASSUME NEW S, NEW a \in Seq(S), NEW b \in Seq(S)
  PROVE  /\ a \o b \in Seq(S) /\ Len(a \o b) = Len(a) + Len(b)
         /\ Len(a) \in Nat /\ Len(b) \in Nat
         /\ \A q \in 1 .. Len(a) : (a \o b)[q] = a[q]
         /\ \A q \in 1 .. Len(b) : (a \o b)[Len(a) + q] = b[q]
  OBVIOUS

\* F[k] is what the first k sequences of s make.
Joins(F, s, S) ==
  /\ F \in [0 .. Len(s) -> Seq(S)] /\ F[0] = <<>>
  /\ \A k \in 1 .. Len(s) : F[k] = F[k - 1] \o s[k]

LEMMA FlattenJoins ==
  ASSUME NEW S, NEW s \in Seq(Seq(S))
  PROVE  \E F : Joins(F, s, S) /\ FlattenSeq(s) = F[Len(s)]
<1>1. CASE s = <<>>
  <2> DEFINE F == [k \in 0 .. 0 |-> <<>>]
  <2>1. Len(s) = 0 /\ FlattenSeq(s) = <<>>
    BY <1>1 DEF FlattenSeq
  <2>2. Joins(F, s, S)
    <3>1. <<>> \in Seq(S)
      OBVIOUS
    <3> QED
      BY <2>1, <3>1 DEF Joins
  <2> QED
    BY <2>1, <2>2
<1>2. CASE s # <<>>
  <2> DEFINE n == Len(s)
             h == [k \in 1 + 1 .. n |-> [q \in Seq(S) |-> q \o s[k]]]
             Is(f) == f = [i \in 1 .. n |-> IF i = 1 THEN s[i] ELSE f[i - 1] \o s[i]]
             flatten == CHOOSE f : Is(f)
  <2>1. n \in Nat /\ 1 <= n /\ n # 0 /\ \A k \in 1 .. n : s[k] \in Seq(S)
    BY <1>2
  <2>2. h \in [1 + 1 .. n -> [Seq(S) -> Seq(S)]]
    <3>1. \A k \in 1 + 1 .. n : \A q \in Seq(S) : q \o s[k] \in Seq(S)
      BY <2>1
    <3> QED
      BY <3>1
  <2>3. PICK f : Stepped(f, 1, n, s[1], h)
    <3>1. s[1] \in Seq(S) /\ 1 \in Nat
      BY <2>1
    <3> HIDE DEF h, n
    <3> QED
      BY <2>1, <2>2, <3>1, StepsExist
  <2>4. \A k \in 1 .. n : f[k] \in Seq(S)
    <3>1. f[1] \in Seq(S)
      BY <2>1, <2>3 DEF Stepped
    <3>2. ASSUME NEW k \in 1 + 1 .. n, f[k - 1] \in Seq(S) PROVE f[k] \in Seq(S)
      <4>1. k \in 1 .. n /\ k # 1
        OBVIOUS
      <4>2. f[k] = h[k][f[k - 1]]
        BY <2>3, <4>1 DEF Stepped
      <4>3. h[k] \in [Seq(S) -> Seq(S)]
        BY <2>2
      <4> QED
        BY <3>2, <4>2, <4>3
    <3> HIDE DEF h, n
    <3> QED
      BY <2>1, <3>1, <3>2, StepsStay
  <2>5. Is(f)
    <3>1. ASSUME NEW k \in 1 .. n, k # 1 PROVE h[k][f[k - 1]] = f[k - 1] \o s[k]
      <4>1. k \in 1 + 1 .. n /\ k - 1 \in 1 .. n
        BY <2>1, <3>1
      <4>2. f[k - 1] \in Seq(S)
        BY <2>4, <4>1
      <4> QED
        BY <4>1, <4>2
    <3> HIDE DEF h
    <3> QED
      BY <2>3, <3>1, Zenon DEF Stepped
  <2>6. Is(flatten)
    BY <2>5, Zenon
  <2>7. FlattenSeq(s) = flatten[n]
    BY <2>1, Zenon DEF FlattenSeq
  <2> HIDE DEF flatten
  <2>8. flatten[1] = s[1] /\ \A k \in 1 + 1 .. n : flatten[k] = flatten[k - 1] \o s[k]
    <3>1. 1 \in 1 .. n /\ \A k \in 1 + 1 .. n : k \in 1 .. n /\ k # 1
      BY <2>1
    <3> HIDE DEF n
    <3> QED
      BY <2>6, <3>1
  <2>9. \A k \in 1 .. n : flatten[k] \in Seq(S)
    <3>1. ASSUME NEW k \in 1 + 1 .. n, flatten[k - 1] \in Seq(S) PROVE flatten[k] \in Seq(S)
      <4>1. flatten[k] = flatten[k - 1] \o s[k]
        BY <2>8
      <4>2. k \in 1 .. n
        BY <2>1
      <4>3. s[k] \in Seq(S)
        BY <2>1, <4>2
      <4> QED
        BY <3>1, <4>1, <4>3
    <3>2. flatten[1] \in Seq(S)
      BY <2>1, <2>8
    <3> HIDE DEF n
    <3> QED
      BY <2>1, <3>1, <3>2, StepsStay
  <2> DEFINE F == [k \in 0 .. n |-> IF k = 0 THEN <<>> ELSE flatten[k]]
  <2>10. F[0] = <<>> /\ \A k \in 1 .. n : F[k] = flatten[k]
    BY <2>1
  <2>11. F \in [0 .. n -> Seq(S)]
    <3>1. \A k \in 0 .. n : (IF k = 0 THEN <<>> ELSE flatten[k]) \in Seq(S)
      BY <2>1, <2>9
    <3> QED
      BY <3>1
  <2>12. ASSUME NEW k \in 1 .. n PROVE F[k] = F[k - 1] \o s[k]
    <3> HIDE DEF F
    <3>1. CASE k = 1
      <4>1. s[1] \in Seq(S) /\ F[1] = s[1] /\ F[0] = <<>>
        BY <2>1, <2>8, <2>10
      <4>2. s[1] = <<>> \o s[1]
        BY <4>1
      <4>3. 1 - 1 = 0
        OBVIOUS
      <4> QED
        BY <3>1, <4>1, <4>2, <4>3, Zenon
    <3>2. CASE k # 1
      <4>1. k \in 1 + 1 .. n /\ k - 1 \in 1 .. n
        BY <2>1, <3>2
      <4> QED
        BY <2>8, <2>10, <4>1
    <3> QED
      BY <3>1, <3>2
  <2>13. Joins(F, s, S) /\ FlattenSeq(s) = F[Len(s)]
    <3>1. n \in 1 .. n
      BY <2>1
    <3> HIDE DEF F
    <3> QED
      BY <2>7, <2>10, <2>11, <2>12, <3>1 DEF Joins
  <2> QED
    BY <2>13
<1> QED
  BY <1>1, <1>2

\* What has been joined after i sequences is what those make.
LEMMA JoinsOfFirst ==
  ASSUME NEW S, NEW s \in Seq(Seq(S)), NEW F, Joins(F, s, S), NEW i \in 0 .. Len(s)
  PROVE  F[i] = FlattenSeq(SubSeq(s, 1, i))
<1> DEFINE g == SubSeq(s, 1, i)
<1>1. g \in Seq(Seq(S)) /\ Len(g) = i /\ i \in Nat
  OBVIOUS
<1>2. \A k \in 1 .. i : g[k] = s[k] /\ k \in 1 .. Len(s)
  OBVIOUS
<1> HIDE DEF g
<1>3. PICK G : Joins(G, g, S) /\ FlattenSeq(g) = G[Len(g)]
  BY <1>1, FlattenJoins
<1>4. /\ F[0] = G[0]
      /\ \A k \in 1 .. i : F[k] = F[k - 1] \o s[k] /\ G[k] = G[k - 1] \o s[k]
  BY <1>1, <1>2, <1>3, Zenon DEF Joins
<1> DEFINE same == [k \in 0 .. i |-> IF F[k] = G[k] THEN 1 ELSE 0]
           One == {1}
<1>5. same[0] \in One
  <2>1. 0 \in 0 .. i
    BY <1>1
  <2> QED
    BY <1>4, <2>1
<1>6. ASSUME NEW k \in 0 + 1 .. i, same[k - 1] \in One PROVE same[k] \in One
  <2>1. k \in 1 .. i /\ k \in 0 .. i /\ k - 1 \in 0 .. i
    BY <1>1
  <2>2. F[k - 1] = G[k - 1]
    BY <1>6, <2>1
  <2>3. F[k] = G[k]
    BY <1>4, <2>1, <2>2
  <2> QED
    BY <2>1, <2>3
<1>7. \A k \in 0 .. i : same[k] \in One
  <2>1. 0 \in Nat
    OBVIOUS
  <2> HIDE DEF same, One
  <2> QED
    <3>1. i \in Nat
      BY <1>1
    <3>2. \A k \in 0 + 1 .. i : same[k - 1] \in One => same[k] \in One
      BY <1>6
    <3> QED
      BY <1>5, <2>1, <3>1, <3>2, StepsStay, Zenon
<1>8. F[i] = G[i]
  <2>1. i \in 0 .. i
    BY <1>1
  <2> QED
    BY <1>7, <2>1
<1> QED
  BY <1>1, <1>3, <1>8 DEF g

\* What fewer sequences make is the start of what more of them make.
LEMMA JoinsGrow ==
  ASSUME NEW S, NEW s \in Seq(Seq(S)), NEW F, Joins(F, s, S),
         NEW i \in 0 .. Len(s), NEW j \in i .. Len(s)
  PROVE  Len(F[i]) <= Len(F[j]) /\ \A q \in 1 .. Len(F[i]) : F[j][q] = F[i][q]
<1> DEFINE P(k) == Len(F[i]) <= Len(F[k]) /\ \A q \in 1 .. Len(F[i]) : F[k][q] = F[i][q]
           Bad == {k \in i .. Len(s) : ~P(k)}
<1> SUFFICES ASSUME Bad # {} PROVE FALSE
  OBVIOUS
<1>1. Bad \in SUBSET Nat
  OBVIOUS
<1>2. PICK k \in Bad : \A l \in Bad : k <= l
  <2> HIDE DEF Bad
  <2> QED
    BY <1>1, LeastNumber
<1>3. \A l \in 0 .. Len(s) : F[l] \in Seq(S)
  BY DEF Joins
<1>4. k # i
  <2>1. P(i)
    BY <1>3
  <2> QED
    BY <2>1
<1>5. k \in 1 .. Len(s) /\ k - 1 \in i .. Len(s) /\ k - 1 \in 0 .. Len(s) /\ ~(k <= k - 1)
  BY <1>4
<1>6. P(k - 1)
  BY <1>2, <1>5
<1>7. F[k] = F[k - 1] \o s[k]
  BY <1>5 DEF Joins
<1>8. F[i] \in Seq(S) /\ F[k - 1] \in Seq(S) /\ s[k] \in Seq(S)
  BY <1>3, <1>5
<1>9. /\ Len(F[k]) = Len(F[k - 1]) + Len(s[k])
      /\ \A q \in 1 .. Len(F[k - 1]) : F[k][q] = F[k - 1][q]
  <2> DEFINE a == F[k - 1]
             b == s[k]
             c == F[k]
  <2>1. a \in Seq(S) /\ b \in Seq(S) /\ c = a \o b
    BY <1>7, <1>8
  <2> HIDE DEF a, b, c
  <2>2. Len(c) = Len(a) + Len(b) /\ \A q \in 1 .. Len(a) : c[q] = a[q]
    BY <2>1, Appended
  <2> QED
    BY <2>2 DEF a, b, c
<1>10. P(k)
  <2>1. Len(F[i]) \in Nat /\ Len(F[k - 1]) \in Nat /\ Len(s[k]) \in Nat
    BY <1>8, Appended
  <2>2. Len(F[i]) <= Len(F[k]) /\ Len(F[i]) <= Len(F[k - 1])
    <3>1. Len(F[i]) <= Len(F[k - 1])
      BY <1>6
    <3>2. Len(F[k]) = Len(F[k - 1]) + Len(s[k])
      BY <1>9
    <3> DEFINE li == Len(F[i])
               lp == Len(F[k - 1])
               ls == Len(s[k])
    <3>3. li \in Nat /\ lp \in Nat /\ ls \in Nat /\ li <= lp
      BY <2>1, <3>1
    <3> HIDE DEF li, lp, ls
    <3>4. li <= lp + ls
      BY <3>3
    <3> QED
      BY <3>1, <3>2, <3>4 DEF li, lp, ls
  <2>3. \A q \in 1 .. Len(F[i]) : q \in 1 .. Len(F[k - 1])
    BY <2>1, <2>2
  <2>4. \A q \in 1 .. Len(F[i]) : F[k][q] = F[i][q]
    BY <1>6, <1>9, <2>3
  <2> QED
    BY <2>2, <2>4
<1> QED
  BY <1>10

-----------------------------------------------------------------------------
(* How Unchunked walks over what was read of a chunked text.               *)

DigitAt(c, i)  == i < Len(c) /\ c[i + 1] \in DOMAIN HexDigits
DigitsAt(c, p) == Min({i \in 0 .. 10 : i = 10 \/ ~DigitAt(c, p + i)})
SizeAt(c, p)   == HexValue(SubSeq(c, p + 1, p + DigitsAt(c, p)))
DataAt(c, p)   == p + DigitsAt(c, p) + (IF DigitsAt(c, p) = 10 THEN 1 ELSE 2)
NoMore(c, p)   == SizeAt(c, p) = 0 \/ DataAt(c, p) + SizeAt(c, p) >= Len(c)
ChunkAt(c, p)  == SubSeq(c, DataAt(c, p) + 1, DataAt(c, p) + SizeAt(c, p))
NextAt(c, p)   == DataAt(c, p) + SizeAt(c, p) + 2
TextAt(c, f, p) == IF NoMore(c, p) THEN <<>> ELSE ChunkAt(c, p) \o f[NextAt(c, p)]
IsText(c, f)   == f = [p \in 0 .. Len(c) + 2 |-> TextAt(c, f, p)]

LEMMA UnchunkedWalks ==
  ASSUME NEW c
  PROVE  Unchunked(c) = (CHOOSE f : IsText(c, f))[0]
BY Zenon DEF Unchunked, IsText, TextAt, NoMore, ChunkAt, NextAt, DataAt, SizeAt, DigitsAt, DigitAt

\* The digits end with the tenth, with what is none, or with the text.
LEMMA DigitsEnd ==
  ASSUME NEW c, NEW p \in Nat
  PROVE  /\ DigitsAt(c, p) \in 0 .. 10
         /\ DigitsAt(c, p) < 10 => ~DigitAt(c, p + DigitsAt(c, p))
         /\ \A i \in 0 .. 10 : i < DigitsAt(c, p) => DigitAt(c, p + i)
<1> DEFINE D == {i \in 0 .. 10 : i = 10 \/ ~DigitAt(c, p + i)}
<1>1. D \in SUBSET Nat /\ D # {}
  <2>1. 10 \in D
    OBVIOUS
  <2>2. D \in SUBSET Nat
    OBVIOUS
  <2> QED
    BY <2>1, <2>2
<1>2. DigitsAt(c, p) \in D /\ \A i \in D : DigitsAt(c, p) <= i
  <2> HIDE DEF D
  <2>1. \E n \in D : \A i \in D : n <= i
    BY <1>1, LeastNumber
  <2>2. DigitsAt(c, p) = CHOOSE n \in D : \A i \in D : n =< i
    BY Zenon DEF DigitsAt, Min, D
  <2> QED
    BY <2>1, <2>2, Zenon
<1>3. DigitsAt(c, p) \in 0 .. 10
  BY <1>2
<1>4. \A i \in 0 .. 10 : i < DigitsAt(c, p) => i \notin D
  BY <1>2, <1>3
<1> QED
  BY <1>2, <1>3, <1>4

\* Every size is a number, and the walk goes forward.
LEMMA WalkForward ==
  ASSUME NEW S, NEW c \in Seq(S), NEW p \in Nat
  PROVE  /\ SizeAt(c, p) \in Nat /\ DataAt(c, p) \in Nat /\ DataAt(c, p) > p
         /\ ~NoMore(c, p) => NextAt(c, p) \in p + 1 .. Len(c) + 2
<1> DEFINE d == DigitsAt(c, p)
           s == SubSeq(c, p + 1, p + d)
<1>1. d \in 0 .. 10 /\ \A i \in 0 .. 10 : i < d => DigitAt(c, p + i)
  BY DigitsEnd
<1>2. Len(c) \in Nat
  OBVIOUS
<1> HIDE DEF d
<1>3. s \in Seq(DOMAIN HexDigits)
  <2>1. CASE d = 0
    <3>1. s = <<>>
      BY <2>1
    <3>2. <<>> \in Seq(DOMAIN HexDigits)
      OBVIOUS
    <3> QED
      BY <3>1, <3>2, Zenon
  <2>2. CASE d # 0
    <3>1. d - 1 \in 0 .. 10 /\ d - 1 < d
      BY <1>1, <2>2
    <3>2. p + (d - 1) < Len(c)
      BY <1>1, <3>1 DEF DigitAt
    <3>3. p + 1 \in 1 .. Len(c) /\ p + d \in p .. Len(c)
      BY <1>1, <1>2, <2>2, <3>2
    <3>4. Len(s) = d /\ \A i \in 1 .. d : s[i] = c[p + i]
      BY <1>1, <3>3
    <3>5. \A i \in 1 .. d : c[p + i] \in DOMAIN HexDigits
      <4>1. \A i \in 1 .. d : i - 1 \in 0 .. 10 /\ i - 1 < d /\ (p + (i - 1)) + 1 = p + i
        BY <1>1
      <4> QED
        BY <1>1, <4>1 DEF DigitAt
    <3>6. s \in Seq(S)
      BY <1>1, <3>3
    <3> HIDE DEF s
    <3> QED
      BY <3>4, <3>5, <3>6
  <2> QED
    BY <2>1, <2>2
<1>4. SizeAt(c, p) \in Nat
  BY <1>3, SizeIsNumber DEF SizeAt, d
<1>5. DataAt(c, p) \in Nat /\ DataAt(c, p) > p
  BY <1>1 DEF DataAt, d
<1> QED
  BY <1>2, <1>4, <1>5 DEF NoMore, NextAt

\* There is such a walk, whatever was read.
LEMMA TextExists ==
  ASSUME NEW S, NEW c \in Seq(S)
  PROVE  \E f : IsText(c, f)
<1> DEFINE N == Len(c) + 2
           From(m, f) == \A p \in 0 .. N : p >= m => f[p] = TextAt(c, f, p)
           Bad == {n \in 0 .. N : ~\E f : From(N - n, f)}
<1>1. N \in Nat
  OBVIOUS
<1>2. ASSUME NEW f, NEW g, NEW p \in 0 .. N, \A q \in 0 .. N : q > p => f[q] = g[q]
      PROVE  TextAt(c, f, p) = TextAt(c, g, p)
  <2>1. CASE NoMore(c, p)
    BY <2>1 DEF TextAt
  <2>2. CASE ~NoMore(c, p)
    <3>1. NextAt(c, p) \in 0 .. N /\ NextAt(c, p) > p
      <4>1. p \in Nat
        BY <1>1
      <4>2. NextAt(c, p) \in p + 1 .. N
        BY <2>2, <4>1, WalkForward
      <4> QED
        BY <1>1, <4>1, <4>2
    <3>2. f[NextAt(c, p)] = g[NextAt(c, p)]
      BY <1>2, <3>1
    <3> QED
      BY <3>2 DEF TextAt
  <2> QED
    BY <2>1, <2>2
<1>3. CASE Bad # {}
  <2>1. Bad \in SUBSET Nat
    OBVIOUS
  <2>2. PICK n \in Bad : \A i \in Bad : n <= i
    <3> HIDE DEF Bad
    <3> QED
      BY <1>3, <2>1, LeastNumber
  <2>3. n \in 0 .. N
    OBVIOUS
  <2> HIDE DEF N
  <2>4. PICK f : \A p \in 0 .. N : p > N - n => f[p] = TextAt(c, f, p)
    <3>1. CASE n = 0
      <4>1. \A p \in 0 .. N : ~(p > N - n)
        BY <1>1, <3>1
      <4> QED
        BY <4>1
    <3>2. CASE n # 0
      <4>1. n - 1 \in 0 .. N /\ ~(n <= n - 1)
        BY <1>1, <2>3, <3>2
      <4>2. PICK f : From(N - (n - 1), f)
        BY <2>2, <4>1
      <4>3. \A p \in 0 .. N : p > N - n => p >= N - (n - 1)
        BY <1>1, <2>3
      <4> QED
        BY <4>2, <4>3
    <3> QED
      BY <3>1, <3>2
  <2> DEFINE g == [p \in 0 .. N |-> TextAt(c, f, p)]
  <2>5. \A p \in 0 .. N : p > N - n => g[p] = f[p]
    BY <2>4
  <2>6. ASSUME NEW p \in 0 .. N, p >= N - n PROVE g[p] = TextAt(c, g, p)
    <3>1. \A q \in 0 .. N : q > p => g[q] = f[q]
      BY <1>1, <2>3, <2>5, <2>6
    <3>2. g[p] = TextAt(c, f, p)
      OBVIOUS
    <3> HIDE DEF g
    <3> QED
      BY <1>2, <3>1, <3>2
  <2> HIDE DEF g
  <2>7. From(N - n, g)
    BY <2>6
  <2> QED
    BY <2>2, <2>7
<1>4. CASE Bad = {}
  <2>1. N \in 0 .. N /\ N - N = 0
    BY <1>1
  <2>2. PICK f : From(0, f)
    BY <1>4, <2>1
  <2> DEFINE g == [p \in 0 .. N |-> f[p]]
  <2>3. \A p \in 0 .. N : g[p] = f[p]
    OBVIOUS
  <2>4. \A p \in 0 .. N : f[p] = TextAt(c, f, p)
    BY <1>1, <2>2
  <2>5. \A p \in 0 .. N : TextAt(c, g, p) = TextAt(c, f, p)
    <3> HIDE DEF g, N
    <3> QED
      BY <1>2, <2>3
  <2>6. g = [p \in 0 .. N |-> TextAt(c, g, p)]
    BY <2>4, <2>5, Zenon
  <2> QED
    BY <2>6, Zenon DEF IsText
<1> QED
  BY <1>3, <1>4

\* At o there are digits s and a line end, as far as the text was read.
SizeThere(c, o, s) ==
  /\ \A j \in 1 .. Len(s) : o + j <= Len(c) => c[o + j] = s[j]
  /\ o + Len(s) + 1 <= Len(c) => c[o + Len(s) + 1] = "CR"

LEMMA ReadSize ==
  ASSUME NEW S, NEW c \in Seq(S), NEW o \in Nat, NEW s \in Seq(DOMAIN HexDigits), Len(s) <= 7,
         SizeThere(c, o, s)
  PROVE  /\ o + Len(s) < Len(c) => SizeAt(c, o) = HexValue(s) /\ DataAt(c, o) = o + Len(s) + 2
         /\ o + Len(s) >= Len(c) => NoMore(c, o)
<1> DEFINE d == DigitsAt(c, o)
           k == Len(s)
           L == Len(c)
<1>1. /\ d \in 0 .. 10 /\ (d < 10 => ~DigitAt(c, o + d))
      /\ \A i \in 0 .. 10 : i < d => DigitAt(c, o + i)
  BY DigitsEnd
<1>2. k \in 0 .. 7 /\ L \in Nat
  <2>1. Len(s) \in Nat /\ Len(c) \in Nat /\ Len(s) <= 7
    OBVIOUS
  <2>2. \A x \in Nat : x <= 7 => x \in 0 .. 7
    OBVIOUS
  <2> QED
    BY <2>1, <2>2, Zenon
<1>3. \A j \in 1 .. k : s[j] \in DOMAIN HexDigits
  OBVIOUS
<1> HIDE DEF d
<1>4. ASSUME NEW i \in 0 .. k - 1, o + i < L PROVE DigitAt(c, o + i)
  <2>1. i + 1 \in 1 .. k /\ o + (i + 1) <= L /\ (o + i) + 1 = o + (i + 1)
    BY <1>2, <1>4
  <2> QED
    BY <1>3, <1>4, <2>1 DEF DigitAt, SizeThere
<1>5. CASE o + k < L
  <2>1. ~DigitAt(c, o + k)
    <3>1. c[(o + k) + 1] = "CR"
      BY <1>2, <1>5 DEF SizeThere
    <3> QED
      BY <3>1, DigitValues DEF DigitAt
  <2>2. ~(d > k)
    <3>1. k \in 0 .. 10
      BY <1>2
    <3> HIDE DEF k
    <3> QED
      BY <1>1, <2>1, <3>1
  <2>3. ~(d < k)
    <3> SUFFICES ASSUME d < k PROVE FALSE
      OBVIOUS
    <3>1. d \in 0 .. k - 1 /\ o + d < L /\ d < 10
      BY <1>1, <1>2, <1>5
    <3> QED
      BY <1>1, <1>4, <3>1
  <2>4. d = k
    BY <1>1, <1>2, <2>2, <2>3
  <2>5. SubSeq(c, o + 1, o + k) = s
    <3>1. o + 1 \in 1 .. L + 1 /\ o + k \in 0 .. L
      BY <1>2, <1>5
    <3>2. /\ Len(SubSeq(c, o + 1, o + k)) = k
          /\ \A j \in 1 .. k : SubSeq(c, o + 1, o + k)[j] = c[o + j]
          /\ SubSeq(c, o + 1, o + k) \in Seq(S)
      BY <1>2, <1>5, <3>1
    <3>3. \A j \in 1 .. k : c[o + j] = s[j]
      BY <1>2, <1>5 DEF SizeThere
    <3> DEFINE t == SubSeq(c, o + 1, o + k)
    <3>4. t \in Seq(S) /\ Len(t) = Len(s) /\ \A j \in 1 .. Len(s) : t[j] = s[j]
      BY <3>2, <3>3
    <3> HIDE DEF t
    <3>5. t = s
      BY <3>4
    <3> QED
      BY <3>5 DEF t
  <2>6. SizeAt(c, o) = HexValue(s)
    BY <2>4, <2>5 DEF SizeAt, d
  <2>7. DataAt(c, o) = o + k + 2
    <3>1. DataAt(c, o) = o + d + (IF d = 10 THEN 1 ELSE 2)
      BY Zenon DEF DataAt, d
    <3> HIDE DEF k
    <3> QED
      BY <1>2, <2>4, <3>1
  <2> QED
    BY <1>2, <1>5, <2>6, <2>7
<1>6. CASE o + k >= L
  <2>1. ~DigitAt(c, o + k)
    BY <1>2, <1>6 DEF DigitAt
  <2>2. d <= k /\ d < 10
    <3>1. k \in 0 .. 10 /\ k < 10
      BY <1>2
    <3> HIDE DEF k
    <3>2. ~(d > k)
      BY <1>1, <2>1, <3>1
    <3> QED
      BY <1>1, <3>1, <3>2
  <2>3. ~(o + d < L)
    <3> SUFFICES ASSUME o + d < L PROVE FALSE
      OBVIOUS
    <3>1. d \in 0 .. k - 1
      BY <1>1, <1>2, <1>6, <2>2
    <3> QED
      BY <1>1, <1>4, <2>2, <3>1
  <2>4. DataAt(c, o) = o + d + 2
    BY <1>1, <2>2 DEF DataAt, d
  <2>5. SizeAt(c, o) \in Nat
    BY WalkForward
  <2>6. DataAt(c, o) + SizeAt(c, o) >= L
    BY <1>1, <1>2, <2>3, <2>4, <2>5
  <2> QED
    BY <1>2, <1>6, <2>6 DEF NoMore
<1> QED
  BY <1>2, <1>5, <1>6

-----------------------------------------------------------------------------
(* What the server sends.                                                  *)

Characters == STRING \cup DOMAIN HexDigits \cup {"h", "CR", "LF", "0"}

Chunks(m) == [i \in DOMAIN m.body |-> ChunkBytes(m.body[i])]
TextsOf(m)  == [i \in DOMAIN m.body |-> m.body[i].bytes]

LEMMA MoreElements ==
  ASSUME NEW S, NEW T, S \subseteq T
  PROVE  Seq(S) \subseteq Seq(T)
<1> SUFFICES ASSUME NEW s \in Seq(S) PROVE s \in Seq(T)
  OBVIOUS
<1>1. \A i \in 1 .. Len(s) : s[i] \in T
  OBVIOUS
<1> QED
  BY <1>1

LEMMA ThreeAppended ==
  ASSUME NEW S, NEW a \in Seq(S), NEW b \in Seq(S), NEW c \in Seq(S)
  PROVE  /\ a \o b \o c \in Seq(S) /\ Len(a \o b \o c) = Len(a) + Len(b) + Len(c)
         /\ \A q \in 1 .. Len(a) : (a \o b \o c)[q] = a[q]
         /\ \A q \in 1 .. Len(b) : (a \o b \o c)[Len(a) + q] = b[q]
         /\ \A q \in 1 .. Len(c) : (a \o b \o c)[Len(a) + Len(b) + q] = c[q]
<1> DEFINE ab == a \o b
<1>1. /\ ab \in Seq(S) /\ Len(ab) = Len(a) + Len(b) /\ Len(a) \in Nat /\ Len(b) \in Nat
      /\ \A q \in 1 .. Len(a) : ab[q] = a[q]
      /\ \A q \in 1 .. Len(b) : ab[Len(a) + q] = b[q]
  BY Appended
<1> HIDE DEF ab
<1> DEFINE abc == ab \o c
<1>2. /\ abc \in Seq(S) /\ Len(abc) = Len(ab) + Len(c)
      /\ \A q \in 1 .. Len(ab) : abc[q] = ab[q]
      /\ \A q \in 1 .. Len(c) : abc[Len(ab) + q] = c[q]
  <2>1. ab \in Seq(S)
    BY <1>1
  <2> QED
    BY <2>1, Appended
<1> HIDE DEF abc
<1>3. /\ abc \in Seq(S) /\ Len(abc) = Len(a) + Len(b) + Len(c)
      /\ \A q \in 1 .. Len(a) : abc[q] = a[q]
      /\ \A q \in 1 .. Len(b) : abc[Len(a) + q] = b[q]
      /\ \A q \in 1 .. Len(c) : abc[Len(a) + Len(b) + q] = c[q]
  BY <1>1, <1>2
<1> QED
  BY <1>3 DEF abc, ab

\* Where the parts of a chunk are
HasParts(c) ==
  LET s == c.size
      b == c.bytes
      h == ChunkBytes(c)
  IN /\ Len(h) = Len(s) + Len(b) + 4
     /\ \A j \in 1 .. Len(s) : h[j] = s[j]
     /\ h[Len(s) + 1] = "CR"
     /\ \A j \in 1 .. Len(b) : h[Len(s) + 2 + j] = b[j]

LEMMA ChunkParts ==
  ASSUME NEW S, "CR" \in S, "LF" \in S, NEW c, c.size \in Seq(S), c.bytes \in Seq(S)
  PROVE  ChunkBytes(c) \in Seq(S) /\ HasParts(c)
<1> DEFINE s == c.size
           b == c.bytes
           e == <<"CR", "LF">>
<1>1. s \in Seq(S) /\ b \in Seq(S) /\ Len(s) \in Nat /\ Len(b) \in Nat
  OBVIOUS
<1>2. e \in Seq(S) /\ Len(e) = 2 /\ e[1] = "CR"
  OBVIOUS
<1> HIDE DEF s, b, e
<1> DEFINE seb == s \o e \o b
<1>3. /\ seb \in Seq(S) /\ Len(seb) = Len(s) + Len(e) + Len(b)
      /\ \A q \in 1 .. Len(s) : seb[q] = s[q]
      /\ \A q \in 1 .. Len(e) : seb[Len(s) + q] = e[q]
      /\ \A q \in 1 .. Len(b) : seb[Len(s) + Len(e) + q] = b[q]
  <2>1. s \in Seq(S) /\ e \in Seq(S) /\ b \in Seq(S)
    BY <1>1, <1>2
  <2> QED
    BY <2>1, ThreeAppended
<1> HIDE DEF seb
<1> DEFINE all == seb \o e
<1>4. /\ all \in Seq(S) /\ Len(all) = Len(seb) + Len(e)
      /\ \A q \in 1 .. Len(seb) : all[q] = seb[q]
  <2>1. seb \in Seq(S) /\ e \in Seq(S)
    BY <1>2, <1>3
  <2> QED
    BY <2>1, Appended
<1>5. ChunkBytes(c) = all
  BY DEF ChunkBytes, all, seb, s, b, e
<1> HIDE DEF all
<1>6. Len(all) = Len(s) + Len(b) + 4
  BY <1>1, <1>2, <1>3, <1>4
<1>7. /\ \A j \in 1 .. Len(s) : j \in 1 .. Len(seb)
      /\ \A j \in 1 .. Len(b) : Len(s) + 2 + j \in 1 .. Len(seb)
      /\ Len(s) + 1 \in 1 .. Len(seb) /\ 1 \in 1 .. Len(e)
  BY <1>1, <1>2, <1>3
<1>8. /\ \A j \in 1 .. Len(s) : all[j] = s[j]
      /\ \A j \in 1 .. Len(b) : all[Len(s) + 2 + j] = b[j]
      /\ all[Len(s) + 1] = "CR"
  BY <1>2, <1>3, <1>4, <1>7
<1> QED
  BY <1>4, <1>5, <1>6, <1>8 DEF HasParts, s, b

\* Every chunk of an honest answer has the size it says.
LEMMA HonestChunk ==
  ASSUME NEW m \in Messages, m.honest, NEW i \in 1 .. Len(m.body)
  PROVE  /\ m.body[i].size \in Seq(DOMAIN HexDigits) /\ Len(m.body[i].size) <= 7
         /\ m.body[i].size \in Seq(Characters) /\ m.body[i].bytes \in Seq(Characters)
         /\ Len(m.body[i].bytes) \in Nat \ {0}
         /\ HexValue(m.body[i].size) = Len(m.body[i].bytes)
         /\ Chunks(m)[i] = ChunkBytes(m.body[i]) /\ TextsOf(m)[i] = m.body[i].bytes
<1> DEFINE R == [size : Seq(DOMAIN HexDigits), bytes : Seq(STRING)]
<1>1. /\ m.body \in Seq(R)
      /\ \A j \in DOMAIN m.body :
           /\ Len(m.body[j].size) <= 7 /\ m.body[j].bytes # <<>>
           /\ HexValue(m.body[j].size) = Len(m.body[j].bytes)
  BY MessageAssumption
<1>2. i \in DOMAIN m.body /\ m.body[i] \in R
  <2>1. m.body \in Seq(R)
    BY <1>1
  <2> HIDE DEF R
  <2> QED
    BY <2>1
<1>3. m.body[i].size \in Seq(DOMAIN HexDigits) /\ m.body[i].bytes \in Seq(STRING)
  BY <1>2
<1>4. Seq(DOMAIN HexDigits) \subseteq Seq(Characters) /\ Seq(STRING) \subseteq Seq(Characters)
  <2>1. DOMAIN HexDigits \subseteq Characters /\ STRING \subseteq Characters
    BY Zenon DEF Characters
  <2> QED
    BY <2>1, MoreElements
<1>5. Len(m.body[i].bytes) \in Nat \ {0}
  BY <1>1, <1>2, <1>3
<1>6. Chunks(m)[i] = ChunkBytes(m.body[i]) /\ TextsOf(m)[i] = m.body[i].bytes
  BY <1>2, Zenon DEF Chunks, TextsOf
<1> QED
  BY <1>1, <1>2, <1>3, <1>4, <1>5, <1>6

LEMMA HonestParts ==
  ASSUME NEW m \in Messages, m.honest, NEW i \in 1 .. Len(m.body)
  PROVE  HasParts(m.body[i])
<1> DEFINE c == m.body[i]
<1>1. c.size \in Seq(Characters) /\ c.bytes \in Seq(Characters)
  BY HonestChunk
<1>2. "CR" \in Characters /\ "LF" \in Characters
  BY Zenon DEF Characters
<1> HIDE DEF c
<1>3. HasParts(c)
  BY <1>1, <1>2, ChunkParts
<1> QED
  BY <1>3 DEF c

LEMMA ChunksAreBytes ==
  ASSUME NEW m \in Messages, m.honest
  PROVE  /\ Len(m.body) \in Nat
         /\ Chunks(m) \in Seq(Seq(Characters)) /\ Len(Chunks(m)) = Len(m.body)
         /\ TextsOf(m) \in Seq(Seq(Characters)) /\ Len(TextsOf(m)) = Len(m.body)
<1> DEFINE R == [size : Seq(DOMAIN HexDigits), bytes : Seq(STRING)]
           n == Len(m.body)
<1>1. m.body \in Seq(R)
  BY MessageAssumption
<1>2. n \in Nat /\ DOMAIN m.body = 1 .. n
  BY <1>1
<1>3. "CR" \in Characters /\ "LF" \in Characters
  BY Zenon DEF Characters
<1>4. ASSUME NEW i \in 1 .. n
      PROVE  ChunkBytes(m.body[i]) \in Seq(Characters) /\ m.body[i].bytes \in Seq(Characters)
  BY <1>3, HonestChunk, ChunkParts
<1> HIDE DEF n
<1>5. /\ Chunks(m) = [i \in 1 .. n |-> ChunkBytes(m.body[i])]
      /\ TextsOf(m) = [i \in 1 .. n |-> m.body[i].bytes]
  BY <1>2, Zenon DEF Chunks, TextsOf
<1>6. Chunks(m) \in Seq(Seq(Characters)) /\ Len(Chunks(m)) = n
  BY <1>2, <1>4, <1>5
<1>7. TextsOf(m) \in Seq(Seq(Characters)) /\ Len(TextsOf(m)) = n
  BY <1>2, <1>4, <1>5
<1> QED
  BY <1>2, <1>6, <1>7 DEF n

LastBytes == <<"0", "CR", "LF", "CR", "LF">>

LEMMA BodyIsBytes ==
  ASSUME NEW m \in Messages
  PROVE  BodyBytes(m) \in Seq(Characters)
<1>1. CASE ~m.honest
  <2>1. m.body \in Seq(Seq(STRING))
    BY <1>1, MessageAssumption
  <2>2. PICK F : Joins(F, m.body, STRING) /\ FlattenSeq(m.body) = F[Len(m.body)]
    BY <2>1, FlattenJoins
  <2>3. Len(m.body) \in 0 .. Len(m.body)
    BY <2>1
  <2>4. FlattenSeq(m.body) \in Seq(STRING)
    BY <2>2, <2>3 DEF Joins
  <2>5. Seq(STRING) \subseteq Seq(Characters)
    <3>1. STRING \subseteq Characters
      BY Zenon DEF Characters
    <3> QED
      BY <3>1, MoreElements
  <2> QED
    BY <1>1, <2>4, <2>5 DEF BodyBytes
<1>2. CASE m.honest
  <2>1. Chunks(m) \in Seq(Seq(Characters)) /\ Len(Chunks(m)) \in Nat
    BY <1>2, ChunksAreBytes
  <2>2. PICK G : Joins(G, Chunks(m), Characters) /\ FlattenSeq(Chunks(m)) = G[Len(Chunks(m))]
    BY <2>1, FlattenJoins
  <2>3. FlattenSeq(Chunks(m)) \in Seq(Characters)
    BY <2>1, <2>2 DEF Joins
  <2>4. LastBytes \in Seq(Characters)
    <3>1. "0" \in Characters /\ "CR" \in Characters /\ "LF" \in Characters
      BY Zenon DEF Characters
    <3> QED
      BY <3>1 DEF LastBytes
  <2>5. FlattenSeq(Chunks(m)) \o LastBytes \in Seq(Characters)
    BY <2>3, <2>4, Appended
  <2>6. BodyBytes(m) = FlattenSeq(Chunks(m)) \o LastBytes
    BY <1>2, Zenon DEF BodyBytes, Chunks, LastBytes
  <2> QED
    BY <2>5, <2>6
<1> QED
  BY <1>1, <1>2

-----------------------------------------------------------------------------
(* What Unchunked finds in an honest answer.                               *)

\* G[i] is what the first i chunks of m put on the wire.
Encoded(G, m) ==
  Joins(G, Chunks(m), Characters) /\ BodyBytes(m) = G[Len(m.body)] \o LastBytes

LEMMA EncodedExists ==
  ASSUME NEW m \in Messages, m.honest
  PROVE  \E G : Encoded(G, m)
<1>1. Chunks(m) \in Seq(Seq(Characters)) /\ Len(Chunks(m)) = Len(m.body)
  BY ChunksAreBytes
<1>2. PICK G : Joins(G, Chunks(m), Characters) /\ FlattenSeq(Chunks(m)) = G[Len(Chunks(m))]
  BY <1>1, FlattenJoins
<1>3. BodyBytes(m) = FlattenSeq(Chunks(m)) \o LastBytes
  BY Zenon DEF BodyBytes, Chunks, LastBytes
<1> QED
  BY <1>1, <1>2, <1>3, Zenon DEF Encoded

\* Where the last bytes are
LEMMA LastPlaced ==
  ASSUME NEW m \in Messages, m.honest, NEW G, Encoded(G, m)
  PROVE  /\ G[Len(m.body)] \in Seq(Characters) /\ Len(G[Len(m.body)]) \in Nat
         /\ Len(BodyBytes(m)) = Len(G[Len(m.body)]) + 5
         /\ \A j \in 1 .. Len(G[Len(m.body)]) : BodyBytes(m)[j] = G[Len(m.body)][j]
         /\ \A j \in 1 .. 5 : BodyBytes(m)[Len(G[Len(m.body)]) + j] = LastBytes[j]
<1> DEFINE g == G[Len(m.body)]
           B == BodyBytes(m)
           e == LastBytes
<1>1. g \in Seq(Characters)
  <2>1. Len(m.body) \in 0 .. Len(Chunks(m))
    BY ChunksAreBytes
  <2> QED
    BY <2>1 DEF Encoded, Joins
<1>2. e \in Seq(Characters) /\ Len(e) = 5
  <2>1. "0" \in Characters /\ "CR" \in Characters /\ "LF" \in Characters
    BY Zenon DEF Characters
  <2> QED
    BY <2>1 DEF LastBytes
<1>3. B = g \o e
  BY DEF Encoded
<1> HIDE DEF g, e, B
<1>4. /\ Len(B) = Len(g) + Len(e) /\ Len(g) \in Nat
      /\ \A j \in 1 .. Len(g) : B[j] = g[j]
      /\ \A j \in 1 .. Len(e) : B[Len(g) + j] = e[j]
  <2>1. g \in Seq(Characters) /\ e \in Seq(Characters)
    BY <1>1, <1>2
  <2> QED
    BY <1>3, <2>1, Appended
<1> QED
  BY <1>1, <1>2, <1>4 DEF g, e, B

\* Where chunk i is
Placed(G, m, i) ==
  /\ Len(G[i - 1]) \in Nat /\ Len(ChunkBytes(m.body[i])) \in Nat
  /\ Len(G[i]) = Len(G[i - 1]) + Len(ChunkBytes(m.body[i]))
  /\ Len(G[i]) + 5 <= Len(BodyBytes(m))
  /\ \A j \in 1 .. Len(ChunkBytes(m.body[i])) :
       BodyBytes(m)[Len(G[i - 1]) + j] = ChunkBytes(m.body[i])[j]

LEMMA ChunkPlaced ==
  ASSUME NEW m \in Messages, m.honest, NEW G, Encoded(G, m), NEW i \in 1 .. Len(m.body)
  PROVE  Placed(G, m, i)
<1> DEFINE n == Len(m.body)
           a == G[i - 1]
           c == ChunkBytes(m.body[i])
           g == G[i]
           B == BodyBytes(m)
<1>1. n \in Nat /\ Chunks(m) \in Seq(Seq(Characters)) /\ Len(Chunks(m)) = n /\ Chunks(m)[i] = c
  BY ChunksAreBytes, HonestChunk
<1>2. i \in 1 .. n /\ i - 1 \in 0 .. n /\ i \in 0 .. n /\ n \in i .. n /\ n \in 0 .. n
  BY <1>1
<1> HIDE DEF n
<1>3. Joins(G, Chunks(m), Characters)
  BY DEF Encoded
<1>4. a \in Seq(Characters) /\ g \in Seq(Characters) /\ g = a \o c
  <2>1. i \in 1 .. Len(Chunks(m)) /\ i - 1 \in 0 .. Len(Chunks(m)) /\ i \in 0 .. Len(Chunks(m))
    BY <1>1, <1>2
  <2> QED
    BY <1>1, <1>3, <2>1 DEF Joins
<1>5. c \in Seq(Characters)
  <2>1. i \in 1 .. Len(Chunks(m))
    BY <1>1, <1>2
  <2>2. Chunks(m)[i] \in Seq(Characters)
    BY <1>1, <2>1
  <2> QED
    BY <1>1, <2>2
<1>6. /\ Len(g) <= Len(G[n]) /\ \A j \in 1 .. Len(g) : G[n][j] = g[j]
  BY <1>1, <1>2, <1>3, JoinsGrow
<1>7. /\ Len(G[n]) \in Nat /\ Len(B) = Len(G[n]) + 5
      /\ \A j \in 1 .. Len(G[n]) : B[j] = G[n][j]
  BY LastPlaced DEF n
<1> HIDE DEF a, c, g, B
<1>8. /\ Len(g) = Len(a) + Len(c) /\ Len(a) \in Nat /\ Len(c) \in Nat
      /\ \A j \in 1 .. Len(c) : g[Len(a) + j] = c[j]
  <2>1. a \in Seq(Characters) /\ c \in Seq(Characters) /\ g = a \o c
    BY <1>4, <1>5
  <2> QED
    BY <2>1, Appended
<1>9. ASSUME NEW j \in 1 .. Len(c) PROVE B[Len(a) + j] = c[j]
  <2>1. Len(a) + j \in 1 .. Len(g)
    BY <1>8
  <2>2. Len(a) + j \in 1 .. Len(G[n])
    BY <1>6, <1>7, <1>8, <2>1
  <2> QED
    BY <1>6, <1>7, <1>8, <2>1, <2>2
<1>10. Len(g) + 5 <= Len(B)
  BY <1>6, <1>7, <1>8
<1> QED
  BY <1>8, <1>9, <1>10 DEF Placed, a, c, g, B

\* What of the body was read
LEMMA WhatWasRead ==
  ASSUME NEW B \in Seq(Characters), NEW L \in 0 .. Len(B)
  PROVE  /\ SubSeq(B, 1, L) \in Seq(Characters) /\ Len(SubSeq(B, 1, L)) = L
         /\ \A q \in 1 .. L : SubSeq(B, 1, L)[q] = B[q]
  OBVIOUS

\* A chunk whose bytes were all read, and one more, is taken; no other is.
LEMMA ChunkTaken ==
  ASSUME NEW m \in Messages, m.honest, NEW G, Encoded(G, m), NEW i \in 1 .. Len(m.body),
         NEW L \in 0 .. Len(BodyBytes(m))
  PROVE  LET c == SubSeq(BodyBytes(m), 1, L)
             o == Len(G[i - 1])
         IN IF Len(G[i]) - 2 < L
            THEN ~NoMore(c, o) /\ ChunkAt(c, o) = TextsOf(m)[i] /\ NextAt(c, o) = Len(G[i])
            ELSE NoMore(c, o)
<1> DEFINE B == BodyBytes(m)
           c == SubSeq(B, 1, L)
           o == Len(G[i - 1])
           h == ChunkBytes(m.body[i])
           s == m.body[i].size
           b == m.body[i].bytes
           k == Len(s)
           l == Len(b)
           next == Len(G[i])
<1>1. B \in Seq(Characters) /\ L \in 0 .. Len(B) /\ Len(B) \in Nat
  BY BodyIsBytes
<1>2. /\ s \in Seq(DOMAIN HexDigits) /\ k <= 7 /\ l \in Nat \ {0} /\ HexValue(s) = l
      /\ s \in Seq(Characters) /\ b \in Seq(Characters) /\ TextsOf(m)[i] = b
  BY HonestChunk
<1>3. /\ Len(h) = k + l + 4
      /\ \A j \in 1 .. k : h[j] = s[j]
      /\ h[k + 1] = "CR"
      /\ \A j \in 1 .. l : h[k + 2 + j] = b[j]
  BY HonestParts, Zenon DEF HasParts
<1>4. /\ o \in Nat /\ next = o + Len(h) /\ next + 5 <= Len(B)
      /\ \A j \in 1 .. Len(h) : B[o + j] = h[j]
  <2>1. Placed(G, m, i)
    BY ChunkPlaced
  <2> QED
    BY <2>1, Zenon DEF Placed
<1>5. k \in Nat
  BY <1>2
<1> HIDE DEF B
<1>6. /\ c \in Seq(Characters) /\ Len(c) = L /\ L \in Nat
      /\ \A q \in 1 .. L : c[q] = B[q]
  BY <1>1, WhatWasRead
<1> HIDE DEF c, o, h, s, b, k, l, next
<1>7. /\ o \in Nat /\ k \in Nat /\ l \in Nat /\ L \in Nat /\ l > 0
      /\ next = o + k + l + 4 /\ Len(h) = k + l + 4
  <2>1. l \in Nat \ {0} /\ k \in Nat
    BY <1>2, <1>5
  <2>2. Len(h) = k + l + 4
    BY <1>3
  <2>3. o \in Nat /\ next = o + Len(h)
    BY <1>4
  <2>4. L \in Nat
    BY <1>6
  <2> QED
    BY <2>1, <2>2, <2>3, <2>4
<1>8. \A j \in 1 .. Len(h) : o + j <= L => c[o + j] = h[j]
  <2>1. \A j \in 1 .. Len(h) : o + j <= L => o + j \in 1 .. L
    BY <1>4, <1>6
  <2> QED
    BY <1>4, <1>6, <2>1
<1>9. SizeThere(c, o, s)
  <2>1. \A j \in 1 .. k : j \in 1 .. Len(h)
    BY <1>2, <1>3, <1>5
  <2>2. k + 1 \in 1 .. Len(h) /\ o + (k + 1) = o + k + 1
    BY <1>7
  <2> QED
    BY <1>3, <1>6, <1>8, <2>1, <2>2 DEF SizeThere, k
<1>10. /\ o + k < L => SizeAt(c, o) = HexValue(s) /\ DataAt(c, o) = o + k + 2
       /\ o + k >= L => NoMore(c, o)
  <2>1. Len(s) <= 7
    BY <1>2 DEF k
  <2>2. /\ o + Len(s) < Len(c) => SizeAt(c, o) = HexValue(s) /\ DataAt(c, o) = o + Len(s) + 2
        /\ o + Len(s) >= Len(c) => NoMore(c, o)
    BY <1>2, <1>4, <1>6, <1>9, <2>1, ReadSize
  <2> QED
    BY <1>6, <2>2 DEF k
<1>11. CASE next - 2 < L
  <2>1. o + k < L /\ o + k + 2 + l < L
    BY <1>7, <1>11
  <2>2. SizeAt(c, o) = l /\ DataAt(c, o) = o + k + 2
    BY <1>2, <1>10, <2>1
  <2>3. ~NoMore(c, o)
    BY <1>6, <1>7, <2>1, <2>2 DEF NoMore
  <2>4. NextAt(c, o) = next
    <3>1. NextAt(c, o) = o + k + 2 + l + 2
      BY <2>2 DEF NextAt
    <3> QED
      BY <1>7, <3>1
  <2>5. ChunkAt(c, o) = b
    <3> DEFINE d == o + k + 2
               t == SubSeq(c, d + 1, d + l)
    <3>1. d \in Nat /\ d + l < Len(c) /\ d + 1 \in 1 .. Len(c) /\ d + l \in 1 .. Len(c)
      <4>1. Len(c) = L
        BY <1>6
      <4> QED
        BY <1>7, <2>1, <4>1
    <3>2. ChunkAt(c, o) = t
      BY <2>2 DEF ChunkAt
    <3> HIDE DEF d
    <3>3. t \in Seq(Characters) /\ Len(t) = l /\ \A j \in 1 .. l : t[j] = c[d + j]
      BY <1>2, <1>6, <3>1
    <3>4. \A j \in 1 .. l : c[d + j] = b[j]
      <4>1. ASSUME NEW j \in 1 .. l
            PROVE  k + 2 + j \in 1 .. Len(h) /\ o + (k + 2 + j) = d + j /\ d + j <= L
        BY <1>2, <1>3, <1>4, <1>5, <1>6, <3>1 DEF d
      <4> QED
        BY <1>3, <1>8, <4>1
    <3> HIDE DEF t
    <3>5. t \in Seq(Characters) /\ b \in Seq(Characters) /\ Len(t) = Len(b) /\ \A j \in 1 .. Len(b) : t[j] = b[j]
      BY <1>2, <3>3, <3>4 DEF l
    <3>6. t = b
      BY <3>5
    <3> QED
      BY <3>2, <3>6
  <2> QED
    BY <1>2, <1>11, <2>3, <2>4, <2>5 DEF c, o, next, B
<1>12. CASE ~(next - 2 < L)
  <2>1. NoMore(c, o)
    <3>1. CASE o + k >= L
      BY <1>10, <3>1
    <3>2. CASE o + k < L
      <4>1. SizeAt(c, o) = l /\ DataAt(c, o) = o + k + 2
        BY <1>2, <1>10, <3>2
      <4>2. DataAt(c, o) + SizeAt(c, o) >= L
        <5>1. o + k + 2 + l >= L
          BY <1>7, <1>12
        <5> QED
          BY <4>1, <5>1
      <4> QED
        BY <1>6, <4>2 DEF NoMore
    <3> QED
      BY <1>4, <1>5, <1>6, <3>1, <3>2
  <2> QED
    BY <1>12, <2>1 DEF c, o, next, B
<1> QED
  BY <1>11, <1>12

\* The chunk of size zero ends the text.
LEMMA LastEnds ==
  ASSUME NEW m \in Messages, m.honest, NEW G, Encoded(G, m),
         NEW L \in 0 .. Len(BodyBytes(m))
  PROVE  NoMore(SubSeq(BodyBytes(m), 1, L), Len(G[Len(m.body)]))
<1> DEFINE B == BodyBytes(m)
           c == SubSeq(B, 1, L)
           o == Len(G[Len(m.body)])
           s == <<"0">>
<1>1. B \in Seq(Characters) /\ L \in 0 .. Len(B) /\ Len(B) \in Nat
  BY BodyIsBytes
<1>2. /\ o \in Nat /\ Len(B) = o + 5 /\ \A j \in 1 .. 5 : B[o + j] = LastBytes[j]
  BY LastPlaced
<1> HIDE DEF B
<1>3. /\ c \in Seq(Characters) /\ Len(c) = L /\ L \in Nat
      /\ \A q \in 1 .. L : c[q] = B[q]
  BY <1>1, WhatWasRead
<1> HIDE DEF c, o
<1>4. s \in Seq(DOMAIN HexDigits) /\ Len(s) = 1 /\ s[1] = "0"
  BY DigitValues
<1>5. HexValue(s) = 0
  BY <1>4, SizeIsNumber
<1>6. B[o + 1] = "0" /\ B[o + 2] = "CR"
  <2>1. 1 \in 1 .. 5 /\ 2 \in 1 .. 5 /\ LastBytes[1] = "0" /\ LastBytes[2] = "CR"
    BY DEF LastBytes
  <2> QED
    BY <1>2, <2>1
<1> HIDE DEF s
<1>7. SizeThere(c, o, s)
  <2>1. o + 1 <= L => c[o + 1] = "0"
    BY <1>2, <1>3, <1>6
  <2>2. o + 1 + 1 <= L => c[o + 1 + 1] = "CR"
    BY <1>2, <1>3, <1>6
  <2>3. \A j \in 1 .. Len(s) : j = 1
    BY <1>4
  <2> QED
    BY <1>3, <1>4, <2>1, <2>2, <2>3 DEF SizeThere
<1>8. /\ o + Len(s) < Len(c) => SizeAt(c, o) = HexValue(s) /\ DataAt(c, o) = o + Len(s) + 2
      /\ o + Len(s) >= Len(c) => NoMore(c, o)
  <2>1. Len(s) <= 7
    BY <1>4
  <2> QED
    BY <1>2, <1>3, <1>4, <1>7, <2>1, ReadSize
<1>9. NoMore(c, o)
  <2>1. o + Len(s) < Len(c) \/ o + Len(s) >= Len(c)
    BY <1>2, <1>3, <1>4
  <2> QED
    BY <1>5, <1>8, <2>1 DEF NoMore
<1> QED
  BY <1>9 DEF c, o, B

\* What the walk makes of a place where it ends and of one where it goes on.
LEMMA TextStep ==
  ASSUME NEW S, NEW c \in Seq(S), NEW f, IsText(c, f), NEW p \in Nat, p <= Len(c) + 2
  PROVE  f[p] = IF NoMore(c, p) THEN <<>> ELSE ChunkAt(c, p) \o f[NextAt(c, p)]
<1>1. p \in 0 .. Len(c) + 2
  OBVIOUS
<1>2. f[p] = TextAt(c, f, p)
  BY <1>1, Zenon DEF IsText
<1> QED
  BY <1>2, Zenon DEF TextAt

LEMMA ThreeJoined ==
  ASSUME NEW S, NEW a \in Seq(S), NEW b \in Seq(S), NEW c \in Seq(S)
  PROVE  a \o (b \o c) = (a \o b) \o c
OBVIOUS

\* The text of a body, as far as it was read, is the bytes of its first
\* chunks; that of a whole body is all of them.
LEMMA TextRead ==
  ASSUME NEW m \in Messages, m.honest, NEW L \in 0 .. Len(BodyBytes(m)),
         NEW c, c = SubSeq(BodyBytes(m), 1, L), NEW F, Joins(F, TextsOf(m), Characters)
  PROVE  \E i \in 0 .. Len(m.body) :
           Unchunked(c) = F[i] /\ (L = Len(BodyBytes(m)) => i = Len(m.body))
<1> DEFINE n == Len(m.body)
           B == BodyBytes(m)
           T == TextsOf(m)
<1>1. n \in Nat /\ T \in Seq(Seq(Characters)) /\ Len(T) = n
  BY ChunksAreBytes
<1>2. PICK G : Encoded(G, m)
  BY EncodedExists
<1> DEFINE At(i) == Len(G[i])
           Taken(i) == At(i) - 2 < L
           Ends(i) == i = n \/ ~Taken(i + 1)
<1>3. B \in Seq(Characters) /\ L \in 0 .. Len(B) /\ Len(B) \in Nat
  BY BodyIsBytes
<1>4. c \in Seq(Characters) /\ Len(c) = L /\ L \in Nat
  BY <1>3, WhatWasRead DEF B
<1>5. ASSUME NEW i \in 1 .. n
      PROVE  /\ At(i) \in Nat /\ At(i - 1) \in Nat /\ At(i) + 5 <= Len(B)
             /\ IF Taken(i) THEN ~NoMore(c, At(i - 1)) /\ ChunkAt(c, At(i - 1)) = T[i]
                                 /\ NextAt(c, At(i - 1)) = At(i)
                ELSE NoMore(c, At(i - 1))
  <2>1. Placed(G, m, i)
    BY <1>2, ChunkPlaced
  <2>2. At(i - 1) \in Nat /\ At(i) \in Nat /\ At(i) + 5 <= Len(B)
    <3> DEFINE h == Len(ChunkBytes(m.body[i]))
    <3>1. At(i - 1) \in Nat /\ h \in Nat /\ At(i) = At(i - 1) + h /\ At(i) + 5 <= Len(B)
      BY <2>1, Zenon DEF Placed
    <3> HIDE DEF At, B, h
    <3> QED
      BY <3>1
  <2>3. IF Taken(i) THEN ~NoMore(c, At(i - 1)) /\ ChunkAt(c, At(i - 1)) = T[i]
                         /\ NextAt(c, At(i - 1)) = At(i)
        ELSE NoMore(c, At(i - 1))
    BY <1>2, ChunkTaken
  <2> QED
    BY <2>2, <2>3
<1>6. NoMore(c, At(n)) /\ At(n) \in Nat
  BY <1>2, LastEnds, LastPlaced
<1>7. \A i \in 0 .. n : F[i] \in Seq(Characters)
  BY <1>1 DEF Joins
<1>8. F[0] = <<>> /\ \A i \in 1 .. n : F[i] = F[i - 1] \o T[i] /\ T[i] \in Seq(Characters)
  <2>1. F[0] = <<>>
    BY DEF Joins
  <2> HIDE DEF n
  <2>2. \A i \in 1 .. n : T[i] \in Seq(Characters)
    <3> HIDE DEF T
    <3> QED
      BY <1>1
  <2>3. \A i \in 1 .. n : F[i] = F[i - 1] \o T[i]
    BY <1>1, Zenon DEF Joins
  <2> QED
    BY <2>1, <2>2, <2>3
<1>9. At(0) = 0
  BY <1>2 DEF Encoded, Joins
<1> DEFINE f == CHOOSE g : IsText(c, g)
<1>10. IsText(c, f) /\ Unchunked(c) = f[0]
  <2>1. \E g : IsText(c, g)
    BY <1>4, TextExists
  <2> QED
    BY <2>1, UnchunkedWalks, Zenon
<1> HIDE DEF f, n, B, T, At
<1>11. PICK e \in 0 .. n : Ends(e) /\ \A i \in 0 .. n : i < e => ~Ends(i)
  <2> DEFINE E == {i \in 0 .. n : Ends(i)}
  <2>1. E \in SUBSET Nat /\ E # {}
    <3>1. n \in E
      BY <1>1
    <3>2. \A i \in E : i \in Nat
      BY <1>1
    <3> QED
      BY <3>1, <3>2
  <2>2. PICK e \in E : \A i \in E : e <= i
    <3> HIDE DEF E
    <3> QED
      BY <2>1, LeastNumber
  <2>3. \A i \in 0 .. n : i < e => ~(e <= i)
    BY <1>1, <2>2
  <2> QED
    BY <2>2, <2>3
<1>12. \A i \in 1 .. e : i \in 1 .. n /\ Taken(i)
  <2>1. \A i \in 1 .. e : i \in 1 .. n /\ i - 1 \in 0 .. n /\ i - 1 < e /\ (i - 1) + 1 = i
    BY <1>1, <1>11
  <2> QED
    BY <1>11, <2>1
<1>13. \A i \in 0 .. e : At(i) \in Nat /\ At(i) <= L + 2
  <2> TAKE i \in 0 .. e
  <2>1. CASE i = 0
    BY <1>4, <1>9, <2>1
  <2>2. CASE i # 0
    <3>1. i \in 1 .. e
      BY <1>1, <1>11, <2>2
    <3>2. At(i) \in Nat /\ At(i) - 2 < L
      BY <1>5, <1>12, <3>1
    <3> QED
      BY <1>4, <3>2
  <2> QED
    BY <2>1, <2>2
<1>14. f[At(e)] = <<>>
  <2>1. NoMore(c, At(e))
    <3>1. CASE e = n
      BY <1>6, <3>1
    <3>2. CASE e # n
      <4>1. e + 1 \in 1 .. n /\ (e + 1) - 1 = e
        BY <1>1, <1>11, <3>2
      <4>2. ~Taken(e + 1)
        BY <1>11, <3>2
      <4> QED
        BY <1>5, <4>1, <4>2
    <3> QED
      BY <3>1, <3>2
  <2>2. At(e) \in Nat /\ At(e) <= Len(c) + 2
    <3>1. e \in 0 .. e
      BY <1>1, <1>11
    <3> QED
      BY <1>4, <1>13, <3>1
  <2> QED
    BY <1>4, <1>10, <2>1, <2>2, TextStep
<1>15. ASSUME NEW i \in 1 .. e PROVE f[At(i - 1)] = T[i] \o f[At(i)]
  <2>1. i \in 1 .. n /\ Taken(i) /\ i - 1 \in 0 .. e
    BY <1>1, <1>11, <1>12
  <2>2. At(i - 1) \in Nat /\ At(i - 1) <= Len(c) + 2
    BY <1>4, <1>13, <2>1
  <2>3. ~NoMore(c, At(i - 1)) /\ ChunkAt(c, At(i - 1)) = T[i] /\ NextAt(c, At(i - 1)) = At(i)
    BY <1>5, <2>1
  <2>4. f[At(i - 1)] = ChunkAt(c, At(i - 1)) \o f[NextAt(c, At(i - 1))]
    BY <1>4, <1>10, <2>2, <2>3, TextStep
  <2> QED
    BY <2>3, <2>4
<1> DEFINE P(i) == f[At(i)] \in Seq(Characters) /\ F[i] \o f[At(i)] = F[e]
<1>16. P(e)
  <2>1. F[e] \in Seq(Characters)
    BY <1>7, <1>11
  <2>2. F[e] \o <<>> = F[e] /\ <<>> \in Seq(Characters)
    BY <2>1
  <2> QED
    BY <1>14, <2>2
<1>17. ASSUME NEW i \in 1 .. e, P(i) PROVE P(i - 1)
  <2>1. i \in 1 .. n /\ i - 1 \in 0 .. n
    BY <1>1, <1>12
  <2>2. F[i - 1] \in Seq(Characters) /\ T[i] \in Seq(Characters) /\ F[i] = F[i - 1] \o T[i]
    BY <1>7, <1>8, <2>1
  <2>3. f[At(i)] \in Seq(Characters) /\ F[i] \o f[At(i)] = F[e] /\ f[At(i - 1)] = T[i] \o f[At(i)]
    BY <1>15, <1>17
  <2> DEFINE a == F[i - 1]
             b == T[i]
             d == f[At(i)]
  <2>4. a \in Seq(Characters) /\ b \in Seq(Characters) /\ d \in Seq(Characters)
    BY <2>2, <2>3
  <2> HIDE DEF a, b, d
  <2>5. a \o (b \o d) = (a \o b) \o d
    BY <2>4, ThreeJoined
  <2>6. b \o d \in Seq(Characters)
    BY <2>4, Appended
  <2> QED
    BY <2>2, <2>3, <2>5, <2>6 DEF a, b, d
<1>18. P(0)
  <2> DEFINE Bad == {d \in 0 .. e : ~P(e - d)}
  <2>1. CASE Bad = {}
    <3>1. e \in 0 .. e /\ e - e = 0
      BY <1>1, <1>11
    <3> HIDE DEF P
    <3> QED
      BY <2>1, <3>1
  <2>2. CASE Bad # {}
    <3> HIDE DEF P
    <3>1. Bad \in SUBSET Nat
      BY <1>1, <1>11
    <3>2. PICK d \in Bad : \A x \in Bad : d <= x
      <4> HIDE DEF Bad
      <4> QED
        BY <2>2, <3>1, LeastNumber
    <3>3. d \in 0 .. e /\ ~P(e - d) /\ d # 0
      <4>1. e - 0 = e
        BY <1>1, <1>11
      <4> QED
        BY <1>16, <4>1
    <3>4. d - 1 \in 0 .. e /\ ~(d <= d - 1) /\ e - (d - 1) \in 1 .. e /\ (e - (d - 1)) - 1 = e - d
      BY <1>1, <1>11, <3>3
    <3>5. P(e - (d - 1))
      BY <3>2, <3>4
    <3> QED
      BY <1>17, <3>3, <3>4, <3>5
  <2> QED
    BY <2>1, <2>2
<1>19. Unchunked(c) = F[e]
  <2>1. f[0] \in Seq(Characters) /\ <<>> \o f[0] = F[e]
    BY <1>8, <1>9, <1>18
  <2>2. <<>> \o f[0] = f[0]
    BY <2>1
  <2> QED
    BY <1>10, <2>1, <2>2
<1>20. L = Len(B) => e = n
  <2> SUFFICES ASSUME L = Len(B), e # n PROVE FALSE
    OBVIOUS
  <2>1. e + 1 \in 1 .. n
    BY <1>1, <1>11
  <2>2. At(e + 1) \in Nat /\ At(e + 1) + 5 <= L
    BY <1>5, <2>1
  <2>3. ~(At(e + 1) - 2 < L)
    BY <1>11
  <2> QED
    BY <1>4, <2>2, <2>3
<1> QED
  BY <1>11, <1>19, <1>20 DEF n, B

-----------------------------------------------------------------------------
(* The response.                                                           *)

\* What the locals of the read loop hold once n bytes of m were read.
Locals(m, n, upgraded) ==
  IF n < 6 THEN Silent
  ELSE IF m.code = None THEN [Silent EXCEPT !.doneheaderat = 6, !.broken = TRUE]
  ELSE [doneheaderat |-> 6, contentlength |-> m.length, code |-> m.code,
        currentcontent |-> n - 6, ischunked |-> m.chunked, broken |-> m.code = 101 /\ upgraded]

\* The server's answer, as far as it was read
Reading ==
  /\ server.msg \in Messages /\ server.cut \in 0 .. Len(Wire(server.msg))
  /\ pos \in 0 .. server.cut
  /\ resp = Locals(server.msg, pos, is_websocket)

\* Until there is a connection nothing was read; then the locals say what was
\* read, however it was split; then the response is the one that belongs to it.
AnswerInv ==
  /\ pc \in Steps
  /\ pc \in {"call", "connect"} => server = None /\ pos = 0 /\ resp = Silent
  /\ pc \in {"read", "decode"} => Reading
  /\ pc = "decode" => ~More \/ pos = server.cut
  /\ pc \notin {"call", "connect", "read", "decode"} /\ server # None =>
       AnswerKept(server.msg, server.cut, ret)

LEMMA WireBytes ==
  ASSUME NEW m \in Messages
  PROVE  /\ Wire(m) \in Seq(Characters) /\ Len(HeaderBytes) = 6
         /\ Len(Wire(m)) = 6 + Len(BodyBytes(m)) /\ Len(BodyBytes(m)) \in Nat
         /\ \A q \in 1 .. 6 : Wire(m)[q] = HeaderBytes[q]
         /\ \A q \in 1 .. Len(BodyBytes(m)) : Wire(m)[6 + q] = BodyBytes(m)[q]
<1> DEFINE B == BodyBytes(m)
           H == HeaderBytes
           W == Wire(m)
<1>1. B \in Seq(Characters)
  BY BodyIsBytes
<1>2. H \in Seq(Characters) /\ Len(H) = 6
  <2>1. "h" \in Characters /\ "CR" \in Characters /\ "LF" \in Characters
    BY Zenon DEF Characters
  <2> QED
    BY <2>1 DEF HeaderBytes
<1>3. W = H \o B
  BY DEF Wire
<1> HIDE DEF B, H, W
<1>4. /\ W \in Seq(Characters) /\ Len(W) = Len(H) + Len(B) /\ Len(B) \in Nat
      /\ \A q \in 1 .. Len(H) : W[q] = H[q]
      /\ \A q \in 1 .. Len(B) : W[Len(H) + q] = B[q]
  <2>1. H \in Seq(Characters) /\ B \in Seq(Characters)
    BY <1>1, <1>2
  <2> QED
    BY <1>3, <2>1, Appended
<1> QED
  BY <1>2, <1>4 DEF B, H, W

LEMMA FourOfSix ==
  ASSUME NEW S, NEW s \in Seq(S), 6 <= Len(s),
         s[3] = "CR", s[4] = "LF", s[5] = "CR", s[6] = "LF"
  PROVE  SubSeq(s, 3, 6) = <<"CR", "LF", "CR", "LF">>
<1> DEFINE t == SubSeq(s, 3, 6)
           End == <<"CR", "LF", "CR", "LF">>
<1>1. t \in Seq(S) /\ Len(t) = 4 /\ \A q \in 1 .. 4 : t[q] = s[2 + q]
  OBVIOUS
<1>2. t[1] = "CR" /\ t[2] = "LF" /\ t[3] = "CR" /\ t[4] = "LF"
  BY <1>1
<1> HIDE DEF t
<1>3. \A q \in 1 .. 4 : q = 1 \/ q = 2 \/ q = 3 \/ q = 4
  OBVIOUS
<1>4. \A q \in 1 .. 4 : t[q] = End[q]
  BY <1>2, <1>3
<1>5. End \in Seq(Characters) /\ Len(End) = 4
  <2>1. "CR" \in Characters /\ "LF" \in Characters
    BY Zenon DEF Characters
  <2> QED
    BY <2>1
<1>6. t = End
  BY <1>1, <1>4, <1>5
<1> QED
  BY <1>6 DEF t

\* The blank line is found when its last byte has come, and not before.
LEMMA HeaderFound ==
  ASSUME server.msg \in Messages, NEW p \in 0 .. 5, NEW e \in p .. Len(Wire(server.msg))
  PROVE  HeaderEnd(p, e) = IF e >= 6 THEN 6 ELSE 0
<1> DEFINE W == Wire(server.msg)
           End == <<"CR", "LF", "CR", "LF">>
           ends == {k \in p .. e - 1 : k > 3 /\ SubSeq(W, k - 2, k + 1) = End}
<1>1. /\ W \in Seq(Characters) /\ Len(W) \in Nat /\ e <= Len(W)
      /\ \A q \in 1 .. 6 : q <= Len(W) => W[q] = HeaderBytes[q]
  BY WireBytes
<1>2. HeaderEnd(p, e) = IF ends = {} THEN 0 ELSE Min(ends) + 1
  BY DEF HeaderEnd
<1>3. /\ HeaderBytes[2] = "h" /\ HeaderBytes[3] = "CR" /\ HeaderBytes[4] = "LF"
      /\ HeaderBytes[5] = "CR" /\ HeaderBytes[6] = "LF"
  BY DEF HeaderBytes
<1>4. End[1] = "CR"
  OBVIOUS
<1> HIDE DEF W
<1>5. 4 \notin ends
  <2> SUFFICES ASSUME 4 \in p .. e - 1, SubSeq(W, 4 - 2, 4 + 1) = End PROVE FALSE
    OBVIOUS
  <2>1. 5 <= Len(W)
    BY <1>1
  <2>2. SubSeq(W, 2, 5)[1] = W[2]
    BY <1>1, <2>1
  <2>3. W[2] = "h"
    BY <1>1, <1>3, <2>1
  <2>4. 4 - 2 = 2 /\ 4 + 1 = 5
    OBVIOUS
  <2> QED
    BY <1>4, <2>2, <2>3, <2>4
<1>6. \A k \in ends : k \in Int /\ k >= 5
  BY <1>5
<1>7. CASE e >= 6
  <2>1. 6 <= Len(W)
    BY <1>1, <1>7
  <2>2. SubSeq(W, 5 - 2, 5 + 1) = End
    <3>1. W[3] = "CR" /\ W[4] = "LF" /\ W[5] = "CR" /\ W[6] = "LF"
      BY <1>1, <1>3, <2>1
    <3>2. SubSeq(W, 3, 6) = <<"CR", "LF", "CR", "LF">>
      <4>1. W \in Seq(Characters) /\ 6 <= Len(W)
        BY <1>1, <2>1
      <4> QED
        BY <3>1, <4>1, FourOfSix
    <3>3. 5 - 2 = 3 /\ 5 + 1 = 6
      OBVIOUS
    <3> QED
      BY <3>2, <3>3
  <2>3. 5 \in ends
    BY <1>1, <1>7, <2>2
  <2> HIDE DEF ends
  <2>4. Min(ends) = 5
    BY <1>6, <2>3 DEF Min
  <2> QED
    BY <1>2, <1>7, <2>3, <2>4
<1>8. CASE ~(e >= 6)
  <2>1. ends = {}
    BY <1>1, <1>6, <1>8
  <2> QED
    BY <1>2, <1>8, <2>1
<1> QED
  BY <1>7, <1>8

\* One turn of the read loop leaves the locals as the bytes read so far say.
LEMMA ReadKeeps ==
  ASSUME Reading, Read
  PROVE  Reading'
<1> DEFINE m == server.msg
<1>1. PICK n \in 1 .. Min({BLOCK, server.cut - pos}) : pos' = pos + n /\ resp' = Arrived(n)
  BY DEF Read
<1>2. server' = server /\ is_websocket' = is_websocket /\ More
  BY DEF Read
<1>3. /\ m \in Messages /\ server.cut \in 0 .. Len(Wire(m)) /\ pos \in 0 .. server.cut
      /\ resp = Locals(m, pos, is_websocket) /\ Len(Wire(m)) \in Nat
  BY WireBytes DEF Reading
<1> HIDE DEF m
<1>4. n \in Nat \ {0} /\ pos + n \in 0 .. server.cut /\ pos \in Nat
  <2>1. BLOCK \in Int /\ server.cut - pos \in Int
    BY <1>3, ClientAssumption
  <2>2. Min({BLOCK, server.cut - pos}) \in Int /\ Min({BLOCK, server.cut - pos}) <= server.cut - pos
    BY <2>1, MinOfTwo
  <2> DEFINE most == Min({BLOCK, server.cut - pos})
  <2>3. n \in 1 .. most /\ most \in Int /\ most <= server.cut - pos
    BY <2>2
  <2> HIDE DEF most
  <2> QED
    BY <1>3, <2>3
<1>5. Arrived(n) = Locals(m, pos + n, is_websocket)
  <2>1. CASE pos >= 6
    <3>1. m.code # None
      <4> SUFFICES ASSUME m.code = None PROVE FALSE
        OBVIOUS
      <4>1. resp = [Silent EXCEPT !.doneheaderat = 6, !.broken = TRUE]
        BY <1>3, <1>4, <2>1 DEF Locals
      <4>2. resp.broken = TRUE
        BY <4>1 DEF Silent
      <4> QED
        BY <1>2, <4>2 DEF More
    <3>2. resp = [doneheaderat |-> 6, contentlength |-> m.length, code |-> m.code,
                  currentcontent |-> pos - 6, ischunked |-> m.chunked,
                  broken |-> m.code = 101 /\ is_websocket]
      BY <1>3, <1>4, <2>1, <3>1 DEF Locals
    <3>3. resp.doneheaderat = 6 /\ resp.currentcontent = pos - 6
      BY <3>2
    <3>4. Arrived(n) = [resp EXCEPT !.currentcontent = @ + n]
      BY <3>3 DEF Arrived
    <3>5. Arrived(n) = [doneheaderat |-> 6, contentlength |-> m.length, code |-> m.code,
                        currentcontent |-> (pos - 6) + n, ischunked |-> m.chunked,
                        broken |-> m.code = 101 /\ is_websocket]
      BY <3>2, <3>4
    <3>6. (pos - 6) + n = (pos + n) - 6 /\ ~(pos + n < 6)
      BY <1>4, <2>1
    <3> QED
      BY <3>1, <3>5, <3>6 DEF Locals
  <2>2. CASE pos < 6
    <3>1. resp = Silent /\ resp.doneheaderat = 0
      BY <1>3, <2>2 DEF Locals, Silent
    <3>2. HeaderEnd(pos, pos + n) = IF pos + n >= 6 THEN 6 ELSE 0
      <4>1. pos \in 0 .. 5 /\ pos + n \in pos .. Len(Wire(m))
        BY <1>3, <1>4, <2>2
      <4> QED
        BY <1>3, <4>1, HeaderFound DEF m
    <3>3. CASE pos + n >= 6
      <4>1. Arrived(n) = Parsed(6, pos + n)
        BY <3>1, <3>2, <3>3 DEF Arrived
      <4>2. ~(pos + n < 6)
        BY <1>4, <3>3
      <4> QED
        BY <3>1, <4>1, <4>2 DEF Parsed, Locals, m
    <3>4. CASE ~(pos + n >= 6)
      <4>1. Arrived(n) = resp
        BY <3>1, <3>2, <3>4 DEF Arrived
      <4>2. pos + n < 6
        BY <1>4, <3>4
      <4> QED
        BY <3>1, <4>1, <4>2 DEF Locals
    <3> QED
      BY <3>3, <3>4
  <2> QED
    BY <1>4, <2>1, <2>2
<1> QED
  BY <1>1, <1>2, <1>3, <1>4, <1>5 DEF Reading, m

LEMMA NothingRead ==
  ASSUME NEW S, NEW s \in Seq(S), NEW d \in Nat
  PROVE  SubSeq(s, d + 1, d + 0) = <<>>
OBVIOUS

\* What follows the header of what was read is what was read of the body.
LEMMA AfterHeader ==
  ASSUME NEW S, NEW s \in Seq(S), NEW b \in Seq(S), Len(s) = 6 + Len(b),
         \A q \in 1 .. Len(b) : s[6 + q] = b[q],
         NEW p \in Nat, 6 <= p, p <= Len(s)
  PROVE  SubSeq(SubSeq(s, 1, p), 6 + 1, 6 + (p - 6)) = SubSeq(b, 1, p - 6)
<1> DEFINE r == SubSeq(s, 1, p)
           t == SubSeq(r, 7, p)
           u == SubSeq(b, 1, p - 6)
<1>1. r \in Seq(S) /\ Len(r) = p /\ \A q \in 1 .. p : r[q] = s[q]
  <2>1. s \in Seq(S) /\ p \in Nat /\ p <= Len(s)
    OBVIOUS
  <2> QED
    BY <2>1
<1> HIDE DEF r
<1>2. t \in Seq(S) /\ Len(t) = p - 6 /\ \A q \in 1 .. p - 6 : t[q] = r[6 + q]
  <2>1. r \in Seq(S) /\ p \in Nat /\ 6 <= p /\ p = Len(r)
    BY <1>1
  <2> QED
    BY <2>1
<1>3. u \in Seq(S) /\ Len(u) = p - 6 /\ \A q \in 1 .. p - 6 : u[q] = b[q]
  <2>1. b \in Seq(S) /\ p - 6 \in Nat /\ p - 6 <= Len(b)
    OBVIOUS
  <2> DEFINE k == p - 6
  <2> HIDE DEF k
  <2>2. k \in Nat /\ k <= Len(b)
    BY <2>1 DEF k
  <2>3. /\ SubSeq(b, 1, k) \in Seq(S) /\ Len(SubSeq(b, 1, k)) = k
        /\ \A q \in 1 .. k : SubSeq(b, 1, k)[q] = b[q]
    BY <2>1, <2>2
  <2> QED
    BY <2>3 DEF k
<1> HIDE DEF t, u
<1>4. ASSUME NEW q \in 1 .. p - 6 PROVE t[q] = u[q]
  <2>1. 6 + q \in 1 .. p /\ q \in 1 .. Len(b)
    OBVIOUS
  <2>2. t[q] = r[6 + q] /\ r[6 + q] = s[6 + q] /\ s[6 + q] = b[q] /\ u[q] = b[q]
    BY <1>1, <1>2, <1>3, <2>1
  <2> QED
    BY <2>2
<1>5. t = u
  <2>1. t \in Seq(S) /\ u \in Seq(S) /\ Len(t) = Len(u) /\ \A q \in 1 .. Len(t) : t[q] = u[q]
    BY <1>2, <1>3, <1>4
  <2> QED
    BY <2>1
<1>6. 6 + 1 = 7 /\ 6 + (p - 6) = p
  OBVIOUS
<1> QED
  BY <1>5, <1>6 DEF r, t, u

LEMMA StartIsPrefix ==
  ASSUME NEW S, NEW a \in Seq(S), NEW b \in Seq(S), Len(a) <= Len(b),
         \A q \in 1 .. Len(a) : b[q] = a[q]
  PROVE  IsPrefix(a, b)
<1> DEFINE k == Len(a)
           t == SubSeq(a, 1, k)
           u == SubSeq(b, 1, k)
<1>1. k \in Nat /\ k <= Len(b)
  OBVIOUS
<1>2. /\ t \in Seq(S) /\ Len(t) = k /\ \A q \in 1 .. k : t[q] = a[q]
      /\ u \in Seq(S) /\ Len(u) = k /\ \A q \in 1 .. k : u[q] = b[q]
  OBVIOUS
<1> HIDE DEF t, u
<1>3. t \in Seq(S) /\ u \in Seq(S) /\ Len(t) = Len(u) /\ \A q \in 1 .. Len(t) : t[q] = u[q]
  BY <1>1, <1>2
<1>4. t = u
  BY <1>3
<1> QED
  BY <1>1, <1>4 DEF IsPrefix, t, u

\* What Decode hands to Payload.
Content == SubSeq(Received, resp.doneheaderat + 1, resp.doneheaderat + resp.currentcontent)

\* Without a header, or with a status line that says nothing, there is no content.
LEMMA NoContent ==
  ASSUME Reading, ~More \/ pos = server.cut, pos < 6 \/ server.msg.code = None
  PROVE  AnswerKept(server.msg, server.cut, Payload(Content))
<1> DEFINE m == server.msg
<1>1. /\ m \in Messages /\ server.cut \in Nat /\ pos \in Nat /\ pos <= server.cut
      /\ server.cut <= Len(Wire(m)) /\ Len(Wire(m)) \in Nat /\ Wire(m) \in Seq(Characters)
      /\ resp = Locals(m, pos, is_websocket) /\ Len(HeaderBytes) = 6
  BY WireBytes DEF Reading
<1> HIDE DEF m
<1>2. /\ resp.doneheaderat \in {0, 6} /\ resp.currentcontent = 0 /\ resp.code = 2
      /\ resp.ischunked = FALSE
      /\ pos < 6 => resp = Silent
  <2>1. CASE pos < 6
    <3>1. resp = Silent
      BY <1>1, <2>1 DEF Locals
    <3> QED
      BY <3>1 DEF Silent
  <2>2. CASE ~(pos < 6)
    <3>1. m.code = None
      BY <2>2 DEF m
    <3>2. resp = [Silent EXCEPT !.doneheaderat = 6, !.broken = TRUE]
      BY <1>1, <2>2, <3>1 DEF Locals
    <3> QED
      BY <2>2, <3>2 DEF Silent
  <2> QED
    BY <2>1, <2>2
<1>3. Content = <<>>
  <2>1. Received \in Seq(Characters)
    <3>1. pos \in 0 .. Len(Wire(m)) /\ Wire(m) \in Seq(Characters)
      BY <1>1
    <3>2. SubSeq(Wire(m), 1, pos) \in Seq(Characters)
      BY <3>1, WhatWasRead
    <3> QED
      BY <3>2 DEF Received, m
  <2>2. resp.doneheaderat \in Nat
    BY <1>2
  <2>3. SubSeq(Received, resp.doneheaderat + 1, resp.doneheaderat + 0) = <<>>
    BY <2>1, <2>2, NothingRead
  <2> QED
    BY <1>2, <2>3 DEF Content
<1>4. Payload(Content) = [code |-> 2, payloadlen |-> 0, payload |-> <<>>]
  BY <1>2, <1>3 DEF Payload
<1>5. ~(server.cut >= 6 /\ m.code # None)
  <2> SUFFICES ASSUME m.code # None PROVE ~(server.cut >= 6)
    OBVIOUS
  <2>1. pos < 6
    BY DEF m
  <2>2. More
    <3>1. resp.contentlength = -1 /\ resp.broken = FALSE
      BY <1>2, <2>1 DEF Silent
    <3>2. pos < MAX_RESPONSE_LENGTH - BLOCK
      <4>1. BLOCK + 6 <= MAX_RESPONSE_LENGTH /\ BLOCK \in Nat /\ MAX_RESPONSE_LENGTH \in Nat
        BY <1>1, MessageAssumption, ClientAssumption
      <4> QED
        BY <1>1, <2>1, <4>1
    <3> QED
      BY <3>1, <3>2 DEF More
  <2> QED
    BY <1>1, <2>1, <2>2
<1> DEFINE r == Payload(Content)
<1>6. r.code = 2 /\ r.payloadlen = 0 /\ r.payload = <<>>
  BY <1>4
<1>7. ~(server.cut >= Len(HeaderBytes) /\ m.code # None)
  BY <1>1, <1>5
<1> HIDE DEF r
<1>8. AnswerKept(m, server.cut, r)
  BY <1>6, <1>7, Zenon DEF AnswerKept
<1> QED
  BY <1>8 DEF m, r

\* The loop ends before all that the server sends was read only at the limit,
\* or at the status that the protocol has changed.
LEMMA AllRead ==
  ASSUME Reading, ~More \/ pos = server.cut, pos >= 6, server.msg.code # None,
         server.msg.code # 101, Len(Wire(server.msg)) <= MAX_RESPONSE_LENGTH - BLOCK
  PROVE  pos = server.cut
<1> DEFINE m == server.msg
           w == Len(Wire(m))
           b == Len(BodyBytes(m))
<1>1. /\ m \in Messages /\ server.cut \in 0 .. w /\ pos \in 0 .. server.cut
      /\ resp = Locals(m, pos, is_websocket) /\ w \in Nat /\ w = 6 + b /\ b \in Nat
  BY WireBytes DEF Reading
<1>2. m.length \in Int /\ (m.length < 0 \/ m.length >= b)
  BY <1>1, MessageAssumption
<1>3. resp = [doneheaderat |-> 6, contentlength |-> m.length, code |-> m.code,
              currentcontent |-> pos - 6, ischunked |-> m.chunked,
              broken |-> m.code = 101 /\ is_websocket]
  BY <1>1 DEF Locals
<1>4. resp.broken = FALSE /\ resp.contentlength = m.length /\ resp.currentcontent = pos - 6
  BY <1>3
<1> SUFFICES ASSUME ~More PROVE pos = server.cut
  OBVIOUS
<1>5. \/ ~(pos < MAX_RESPONSE_LENGTH - BLOCK)
      \/ ~(m.length < 0) /\ ~(pos - 6 < m.length)
  BY <1>4 DEF More
<1>6. w <= MAX_RESPONSE_LENGTH - BLOCK /\ MAX_RESPONSE_LENGTH - BLOCK \in Int
  BY ClientAssumption
<1> HIDE DEF m, w, b
<1> QED
  BY <1>1, <1>2, <1>5, <1>6

\* The response that belongs to an answer whose header says something.
LEMMA ContentKept ==
  ASSUME Reading, ~More \/ pos = server.cut, pos >= 6, server.msg.code # None
  PROVE  AnswerKept(server.msg, server.cut, Payload(Content))
<1> DEFINE m == server.msg
           B == BodyBytes(m)
           L == pos - 6
           c == SubSeq(B, 1, L)
           T == TextsOf(m)
           n == Len(m.body)
           r == Payload(Content)
<1>1. /\ m \in Messages /\ server.cut \in Nat /\ pos \in Nat /\ pos <= server.cut
      /\ server.cut <= Len(Wire(m)) /\ Wire(m) \in Seq(Characters)
      /\ Len(Wire(m)) = 6 + Len(B) /\ Len(B) \in Nat
      /\ \A q \in 1 .. Len(B) : Wire(m)[6 + q] = B[q]
      /\ resp = Locals(m, pos, is_websocket) /\ Len(HeaderBytes) = 6
  BY WireBytes DEF Reading
<1>2. B \in Seq(Characters)
  BY <1>1, BodyIsBytes
<1>3. resp = [doneheaderat |-> 6, contentlength |-> m.length, code |-> m.code,
              currentcontent |-> L, ischunked |-> m.chunked,
              broken |-> m.code = 101 /\ is_websocket]
  BY <1>1 DEF Locals
<1>4. /\ resp.doneheaderat = 6 /\ resp.currentcontent = L /\ resp.code = m.code
      /\ resp.ischunked = m.chunked
  BY <1>3
<1>5. L \in 0 .. Len(B)
  BY <1>1
<1>6. Content = c
  <2>1. SubSeq(SubSeq(Wire(m), 1, pos), 6 + 1, 6 + (pos - 6)) = c
    <3>1. pos <= Len(Wire(m))
      BY <1>1
    <3> HIDE DEF B, m
    <3> QED
      BY <1>1, <1>2, <3>1, AfterHeader
  <2> QED
    BY <1>4, <2>1 DEF Content, Received
<1>7. c \in Seq(Characters) /\ Len(c) = L /\ \A q \in 1 .. L : c[q] = B[q]
  BY <1>2, <1>5, WhatWasRead
<1> DEFINE t == Unchunked(c)
           taken == m.chunked /\ Len(t) > 1
<1>8. /\ r.code = m.code
      /\ taken => r.payload = t /\ r.payloadlen = Len(t) - 1
      /\ ~taken => r.payload = c /\ r.payloadlen = L
  <2> HIDE DEF c, L
  <2>1. r = IF taken THEN [code |-> m.code, payloadlen |-> Len(t) - 1, payload |-> t]
            ELSE [code |-> m.code, payloadlen |-> L, payload |-> c]
    BY <1>4, <1>6 DEF Payload
  <2> HIDE DEF r, t, m
  <2> QED
    BY <2>1
<1>9. server.cut >= 6
  BY <1>1
<1> HIDE DEF r, B, L, c, t
<1> DEFINE whole == FlattenSeq([i \in DOMAIN m.body |-> m.body[i].bytes])
           fits == Len(Wire(m)) <= MAX_RESPONSE_LENGTH - BLOCK /\ m.code # 101
           sent == SubSeq(B, 1, server.cut - 6)
<1>10. fits => pos = server.cut
  BY AllRead
<1>11. fits /\ ~m.chunked => r.payload = sent /\ r.payloadlen = Len(sent)
  <2> SUFFICES ASSUME fits, ~m.chunked PROVE r.payload = sent /\ r.payloadlen = Len(sent)
    OBVIOUS
  <2>1. r.payload = c /\ r.payloadlen = L
    BY <1>8
  <2>2. sent = c
    BY <1>10 DEF c, L
  <2> QED
    BY <1>7, <2>1, <2>2
<1> DEFINE chunks == [i \in DOMAIN m.body |-> m.body[i].bytes]
<1>12. ASSUME m.honest
       PROVE  /\ \E i \in 0 .. n : t = FlattenSeq(SubSeq(chunks, 1, i))
              /\ L = Len(B) => t = whole
  <2>1. n \in Nat /\ T \in Seq(Seq(Characters)) /\ Len(T) = n /\ whole = FlattenSeq(T)
    BY <1>1, <1>12, ChunksAreBytes DEF TextsOf
  <2>2. PICK F : Joins(F, T, Characters) /\ FlattenSeq(T) = F[Len(T)]
    BY <2>1, FlattenJoins
  <2>3. PICK i \in 0 .. n : t = F[i] /\ (L = Len(B) => i = n)
    <3> HIDE DEF m
    <3> QED
      <4>1. m \in Messages /\ m.honest /\ L \in 0 .. Len(BodyBytes(m)) /\ Joins(F, TextsOf(m), Characters)
        BY <1>1, <1>5, <1>12, <2>2 DEF B
      <4>2. c = SubSeq(BodyBytes(m), 1, L)
        BY DEF c, B
      <4>3. \E i \in 0 .. Len(m.body) :
              Unchunked(c) = F[i] /\ (L = Len(BodyBytes(m)) => i = Len(m.body))
        BY <4>1, <4>2, TextRead
      <4> QED
        BY <4>3 DEF t, B
  <2> HIDE DEF n, T, whole
  <2>4. F[i] \in Seq(Characters) /\ F[n] \in Seq(Characters) /\ whole = F[n]
    BY <2>1, <2>2, <2>3 DEF Joins
  <2>5. F[i] = FlattenSeq(SubSeq(T, 1, i))
    <3>1. i \in 0 .. Len(T)
      BY <2>1, <2>3
    <3> QED
      BY <2>1, <2>2, <3>1, JoinsOfFirst
  <2>6. T = chunks
    BY DEF T, TextsOf
  <2> QED
    BY <2>3, <2>4, <2>5, <2>6
<1>13. fits /\ m.chunked /\ m.honest /\ Len(whole) > 1 /\ server.cut = Len(Wire(m))
         => r.payload = whole /\ r.payloadlen = Len(whole) - 1
  <2> SUFFICES ASSUME fits, m.chunked, m.honest, Len(whole) > 1, server.cut = Len(Wire(m))
               PROVE  r.payload = whole /\ r.payloadlen = Len(whole) - 1
    BY Zenon
  <2> HIDE DEF whole, fits
  <2>1. L = Len(B)
    BY <1>1, <1>10 DEF L
  <2>2. t = whole
    BY <1>12, <2>1
  <2> QED
    BY <1>8, <2>2
<1>14. m.chunked /\ m.honest =>
         \/ \E i \in 0 .. Len(m.body) : r.payload = FlattenSeq(SubSeq(chunks, 1, i))
         \/ IsPrefix(r.payload, B) /\ r.payloadlen = Len(r.payload)
  <2> SUFFICES ASSUME m.honest
               PROVE  \/ \E i \in 0 .. Len(m.body) : r.payload = FlattenSeq(SubSeq(chunks, 1, i))
                      \/ IsPrefix(r.payload, B) /\ r.payloadlen = Len(r.payload)
    OBVIOUS
  <2> HIDE DEF chunks
  <2>1. CASE taken
    BY <1>8, <1>12, <2>1
  <2>2. CASE ~taken
    <3>1. IsPrefix(c, B)
      <4>1. Len(c) <= Len(B) /\ \A q \in 1 .. Len(c) : B[q] = c[q]
        BY <1>1, <1>5, <1>7
      <4> QED
        BY <1>2, <1>7, <4>1, StartIsPrefix
    <3>2. r.payload = c /\ r.payloadlen = Len(c)
      BY <1>7, <1>8, <2>2
    <3> QED
      BY <3>1, <3>2
  <2> QED
    BY <2>1, <2>2
<1>15. server.cut >= Len(HeaderBytes) /\ Len(HeaderBytes) = 6 /\ m.code # None
  BY <1>1, <1>9
<1> HIDE DEF m, taken
<1>16. AnswerKept(m, server.cut, r)
  BY <1>8, <1>11, <1>13, <1>14, <1>15, Zenon DEF AnswerKept, B
<1> QED
  BY <1>16 DEF m, r

LEMMA AnswerStep ==
  ASSUME AnswerInv, [Next]_vars
  PROVE  AnswerInv'
<1> USE DEF AnswerInv, Steps
<1>1. CASE Transact
  BY <1>1 DEF Transact
<1>2. CASE ConnectFails
  BY <1>2 DEF ConnectFails
<1>3. CASE AttachFails
  BY <1>3 DEF AttachFails
<1>0. CASE RequestWild
  BY <1>0 DEF RequestWild
<1>4. CASE Connect
  <2>1. PICK m \in Messages, then \in {"close", "reset", "silence"} :
          \E cut \in 0 .. Len(Wire(m)) : server' = [msg |-> m, cut |-> cut, then |-> then]
    BY <1>4 DEF Connect
  <2>2. PICK cut \in 0 .. Len(Wire(m)) : server' = [msg |-> m, cut |-> cut, then |-> then]
    BY <2>1
  <2>3. pos' = 0 /\ resp' = Silent /\ is_websocket' = is_websocket /\ pc' = "read"
    BY <1>4 DEF Connect
  <2>4. server'.msg = m /\ server'.cut = cut
    BY <2>2
  <2>5. Len(Wire(m)) \in Nat
    BY WireBytes
  <2>6. Locals(m, 0, is_websocket) = Silent
    BY DEF Locals
  <2>7. 0 \in 0 .. cut
    BY <2>5
  <2>8. Reading'
    BY <2>3, <2>4, <2>6, <2>7 DEF Reading
  <2> QED
    BY <2>3, <2>8
<1>5. CASE Read
  <2>1. Reading' /\ pc' = "read"
    BY <1>5, ReadKeeps DEF Read
  <2> QED
    BY <2>1
<1>6. CASE ReadEnds
  <2>1. Reading /\ (~More \/ pos = server.cut) /\ pc' = "decode"
        /\ UNCHANGED <<server, pos, resp, is_websocket>>
    BY <1>6 DEF ReadEnds
  <2>2. Reading' /\ (More' <=> More) /\ server' = server /\ pos' = pos
    BY <2>1 DEF Reading, More
  <2> QED
    BY <2>1, <2>2
<1>7. CASE Decode
  <2>1. /\ Reading /\ (~More \/ pos = server.cut) /\ pc' = "returned" /\ server' = server
        /\ ret' = Payload(Content)
    BY <1>7 DEF Decode, Content
  <2>2. AnswerKept(server.msg, server.cut, Payload(Content))
    <3>1. pos < 6 \/ pos >= 6
      BY <2>1, WireBytes DEF Reading
    <3> QED
      BY <2>1, <3>1, NoContent, ContentKept
  <2>3. AnswerKept(server'.msg, server'.cut, ret')
    BY <2>1, <2>2
  <2> QED
    BY <2>1, <2>3
<1>8. CASE WSSend
  BY <1>8 DEF WSSend
<1>9. CASE WSRecv
  BY <1>9 DEF WSRecv
<1>10. CASE RecvReads
  BY <1>10 DEF RecvReads
<1>11. CASE RecvWild
  BY <1>11 DEF RecvWild
<1>12. CASE RecvCloses
  BY <1>12 DEF RecvCloses
<1>13. CASE Cleanup
  BY <1>13 DEF Cleanup
<1>14. CASE UNCHANGED vars
  BY <1>14 DEF vars, Reading, More
<1> QED
  BY <1>0, <1>1, <1>2, <1>3, <1>4, <1>5, <1>6, <1>7, <1>8, <1>9, <1>10, <1>11, <1>12, <1>13, <1>14
  DEF Next

\* Whatever the answer and however recv splits it, the response is the one that
\* belongs to it: the status, what was sent of the body, a chunked text whole; or one
\* that ends between two of its chunks, or as it was encoded, as ResponseFaithful says.
THEOREM AnswersAlwaysFaithful == Spec => []ResponseFaithful
<1>1. Init => AnswerInv
  BY DEF Init, AnswerInv, Steps
<1>2. AnswerInv /\ [Next]_vars => AnswerInv'
  BY AnswerStep
<1>3. AnswerInv => ResponseFaithful
  BY DEF AnswerInv, ResponseFaithful
<1> QED
  BY <1>1, <1>2, <1>3, PTL DEF Spec
=============================================================================
