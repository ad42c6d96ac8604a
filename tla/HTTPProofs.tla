------------------------------ MODULE HTTPProofs ------------------------------
(***************************************************************************)
(* Proofs about HTTPBSD for every table size, ring size, buffer size and   *)
(* set of descriptors and files: types, and the agreement of the two       *)
(* socket tables with each other, with the ring and with the open          *)
(* descriptors.                                                            *)
(***************************************************************************)
EXTENDS HTTPBSD, FiniteSetTheorems, TLAPS

-----------------------------------------------------------------------------
(* Types.                                                                  *)

\* The remainder stays below the divisor: the ring's head and the timeout.
LEMMA ModRange ==
  ASSUME NEW x \in Nat, NEW w \in Nat, w > 0
  PROVE  x % w \in 0 .. w - 1
  OBVIOUS

\* So does that of a negative number: curlen.
LEMMA IntModRange ==
  ASSUME NEW x \in Int, NEW w \in Nat, w > 0
  PROVE  x % w \in 0 .. w - 1
  OBVIOUS

\* A poll index lies in the table or one past its end.
LEMMA PollIndexInCells ==
  ASSUME polled \subseteq Slots, NEW i \in Slots
  PROVE  PollIndex(i) \in Cells
<1> DEFINE P == {j \in polled : j <= i}
<1>1. IsFiniteSet(Slots) /\ Cardinality(Slots) = HTTP_CONNECTIONS
  BY FS_Interval, TableAssumption DEF Slots
<1>2. P \subseteq Slots
  OBVIOUS
<1>3. IsFiniteSet(P) /\ Cardinality(P) <= Cardinality(Slots)
  BY <1>1, <1>2, FS_Subset
<1>4. Cardinality(P) \in Nat
  BY <1>3, FS_CardinalityType
<1> QED
  BY <1>1, <1>3, <1>4, TableAssumption DEF PollIndex, Cells

\* Storing a well-typed record keeps the tables well typed.
LEMMA UpdateType ==
  ASSUME TablesTypeOK, NEW i \in Slots, NEW h \in Connection, Update(i, h)
  PROVE  TablesTypeOK'
  BY DEF TablesTypeOK, Update, sockVars, fileVars, Slots

\* So does closing a connection.
LEMMA CloseType ==
  ASSUME TablesTypeOK, NEW i \in Slots, NEW h \in Connection, HTTPClose(i, h)
  PROVE  TablesTypeOK'
<1> DEFINE w == [h EXCEPT !.state = "WAIT_CLOSE"]
           t == [conn EXCEPT ![i] = w]
           users == {j \in Slots : bsd[j] = h.socket}
<1>1. w \in Connection
  BY DEF Connection, ConnStates
<1>2. t \in [Slots -> Connection]
  BY <1>1 DEF TablesTypeOK
<1>3. et_espconn_disconnect(t, h.socket)
  BY DEF HTTPClose
<1> HIDE DEF t, w
<1>4. conn' \in [Slots -> Connection]
  <2>1. \A c \in Connection : [c EXCEPT !.state = "NONE"] \in Connection
    BY DEF Connection, ConnStates
  <2> QED
    BY <1>2, <1>3, <2>1 DEF et_espconn_disconnect, http_disconnetcb
<1>5. bsd' \in [Slots -> Sockets \cup {NoSock, BadSock}]
  BY <1>3 DEF et_espconn_disconnect, TablesTypeOK
<1>6. ring' \in [0 .. DESTROY_SOCKETS_LIST - 1 -> Sockets \cup {NoSock, BadSock}]
  <2>1. h.socket \in Sockets \cup {NoSock, BadSock}
    BY DEF Connection
  <2> QED
    BY <1>3, <2>1 DEF et_espconn_disconnect, TablesTypeOK
<1>7. head' \in 0 .. DESTROY_SOCKETS_LIST - 1
  BY <1>3, ModRange, TableAssumption DEF et_espconn_disconnect, TablesTypeOK
<1>8. fds' \subseteq Sockets /\ intact' \subseteq streams' /\ streams' \subseteq Streams
  BY <1>3 DEF et_espconn_disconnect, http_disconnetcb, TablesTypeOK
<1> QED
  BY <1>4, <1>5, <1>6, <1>7, <1>8 DEF TablesTypeOK

\* A record whose flags, stage and state change stays a connection.
LEMMA FieldTypes ==
  ASSUME NEW h \in Connection
  PROVE  /\ \A s \in ConnStates : [h EXCEPT !.state = s] \in Connection
         /\ \A b \in BOOLEAN : /\ [h EXCEPT !.isdone = b] \in Connection
                               /\ [h EXCEPT !.is_dynamic = b] \in Connection
                               /\ [h EXCEPT !.is404 = b] \in Connection
         /\ \A d \in Nat : [h EXCEPT !.state_deets = d] \in Connection
  BY DEF Connection

\* The numbers and callbacks a connection's record holds.
LEMMA FieldRanges ==
  ASSUME NEW h \in Connection
  PROVE  /\ h.state_deets \in Nat
         /\ h.bytesleft \in 0 .. NoLength
         /\ h.timeout \in 0 .. TIMEOUT_WRAP - 1
         /\ h.rcb \in {"", "huge", "echo", "issue"}
  BY DEF Connection

\* A file's length and no length at all fit in bytesleft.
LEMMA Lengths == FileLengths \subseteq 0 .. NoLength /\ {0, NoLength} \subseteq 0 .. NoLength
  BY TableAssumption DEF NoLength

\* A connection's record is well typed.
LEMMA SlotType ==
  ASSUME TablesTypeOK, NEW i \in Slots
  PROVE  conn[i] \in Connection
  BY DEF TablesTypeOK

\* Starting a response keeps the tables well typed.
LEMMA StartType ==
  ASSUME TablesTypeOK, NEW i \in Slots, InternalStartHTTP(i)
  PROVE  TablesTypeOK'
<1>1. conn[i] \in Connection
  BY SlotType
<1>2. CASE StartFile(i)
  <2>1. PICK f \in Streams \ streams, n \in FileLengths :
          /\ conn' = [conn EXCEPT ![i] =
                        [Started(@) EXCEPT !.is404 = FALSE, !.is_dynamic = FALSE,
                                           !.file = f, !.bytesleft = n]]
          /\ streams' = streams \cup {f}
          /\ intact' \subseteq intact \cup {f}
    BY <1>2 DEF StartFile
  <2>2. [Started(conn[i]) EXCEPT !.is404 = FALSE, !.is_dynamic = FALSE,
                                 !.file = f, !.bytesleft = n] \in Connection
    <3>1. n \in 0 .. NoLength /\ f \in Streams
      BY Lengths
    <3> QED
      BY <1>1, <3>1 DEF Connection, Started, ConnStates
  <2>3. UNCHANGED sockVars
    BY <1>2 DEF StartFile
  <2> QED
    BY <2>1, <2>2, <2>3 DEF TablesTypeOK, sockVars
<1>3. CASE StartMissing(i)
  <2>1. [Started(conn[i]) EXCEPT !.is404 = TRUE, !.is_dynamic = FALSE,
                                 !.file = NoStream] \in Connection
    BY <1>1 DEF Connection, Started, ConnStates
  <2> QED
    BY <1>3, <2>1, UpdateType DEF StartMissing
<1>4. CASE StartDynamic(i)
  <2>1. \A cb \in {"", "huge", "echo", "issue"}, n \in {0, NoLength} :
          [Started(conn[i]) EXCEPT !.is404 = FALSE, !.is_dynamic = TRUE,
             !.isfirst = FALSE, !.rcb = cb, !.bytesleft = n,
             !.keep_alive = (n # NoLength)] \in Connection
    <3> SUFFICES ASSUME NEW cb \in {"", "huge", "echo", "issue"}, NEW n \in {0, NoLength}
                 PROVE  [Started(conn[i]) EXCEPT !.is404 = FALSE, !.is_dynamic = TRUE,
                           !.isfirst = FALSE, !.rcb = cb, !.bytesleft = n,
                           !.keep_alive = (n # NoLength)] \in Connection
      OBVIOUS
    <3> DEFINE k == n # NoLength
    <3>1. n \in 0 .. NoLength /\ k \in BOOLEAN
      BY Lengths
    <3> HIDE DEF k
    <3>2. [Started(conn[i]) EXCEPT !.is404 = FALSE, !.is_dynamic = TRUE,
             !.isfirst = FALSE, !.rcb = cb, !.bytesleft = n, !.keep_alive = k] \in Connection
      BY <1>1, <3>1 DEF Connection, Started, ConnStates
    <3> QED
      BY <3>2 DEF k
  <2>2. \A cb \in {"", "huge", "echo", "issue"}, n \in {0, NoLength} :
          HTTPCustomStart(i, cb, n) => TablesTypeOK'
    BY <2>1, UpdateType DEF HTTPCustomStart
  <2> QED
    BY <1>4, <2>2 DEF StartDynamic
<1> QED
  BY <1>2, <1>3, <1>4 DEF InternalStartHTTP

\* Leaving the tables alone does too.
LEMMA SkipType ==
  ASSUME TablesTypeOK, Skip
  PROVE  TablesTypeOK'
  BY DEF TablesTypeOK, Skip, sockVars, fileVars

\* Changing the state only does too.
LEMMA GotoType ==
  ASSUME TablesTypeOK, NEW i \in Slots, NEW s \in ConnStates, Goto(i, s)
  PROVE  TablesTypeOK'
  BY SlotType, FieldTypes, UpdateType DEF Goto

\* The end of an exchange, by a close or by waiting for another request.
LEMMA CloseOrKeepAliveType ==
  ASSUME TablesTypeOK, NEW i \in Slots, CloseOrKeepAlive(i)
  PROVE  TablesTypeOK'
<1>1. "WAIT_METHOD" \in ConnStates
  BY DEF ConnStates, RequestStates
<1> QED
  BY <1>1, SlotType, FieldTypes, UpdateType, CloseType DEF CloseOrKeepAlive

\* The counter and the flags of the chunk that is parsed.
RxTypeOK ==
  /\ curlen \in 0 .. CURLEN_WRAP - 1
  /\ beyond \in BOOLEAN /\ cork_binary_rx \in BOOLEAN

\* Taking a frame's payload off r bytes leaves the counter within its width.
LEMMA PayloadType ==
  ASSUME RxTypeOK, NEW i \in Slots, NEW r \in 0 .. CURLEN_WRAP - 1, NEW P \in SUBSET Nat,
         NEW past \in BOOLEAN, FramePayload(i, r, P, past)
  PROVE  RxTypeOK' /\ (Skip \/ Goto(i, "WAIT_CLOSE"))
<1> USE TableAssumption
<1>1. CASE \E p \in P :
             /\ p <= r
             /\ curlen' = r - p
             /\ beyond' = (past \/ (conn[i].rcbDat = "WSCommandData" /\ p > CNHTTP_MTU))
             /\ Skip
             /\ UNCHANGED cork_binary_rx
  <2>1. PICK p \in P :
          /\ p <= r
          /\ curlen' = r - p
          /\ beyond' = (past \/ (conn[i].rcbDat = "WSCommandData" /\ p > CNHTTP_MTU))
          /\ Skip
          /\ UNCHANGED cork_binary_rx
    BY <1>1
  <2>2. p \in Nat
    OBVIOUS
  <2>3. r - p \in 0 .. CURLEN_WRAP - 1
    BY <2>1, <2>2
  <2>4. beyond' \in BOOLEAN
    BY <2>1
  <2> QED
    BY <2>1, <2>3, <2>4 DEF RxTypeOK
<1>2. CASE /\ \E p \in P : p > r
           /\ curlen' = r
           /\ beyond' = past
           /\ cork_binary_rx' = TRUE
           /\ Goto(i, "WAIT_CLOSE")
  BY <1>2 DEF RxTypeOK
<1> QED
  BY <1>1, <1>2 DEF FramePayload

\* Every received byte keeps the tables and the chunk's counter well typed: the
\* counter by its width only, since it may wrap.
LEMMA GotByteType ==
  ASSUME TablesTypeOK, NEW i \in Slots, NEW c \in Bytes, curlen > 0, RxTypeOK,
         HTTPGotByte(i, c)
  PROVE  TablesTypeOK' /\ RxTypeOK'
<1> USE TableAssumption DEF RxTypeOK
<1>1. conn[i] \in Connection
  BY SlotType
<1>2. /\ {"WAIT_METHOD", "WAIT_PATH", "WAIT_FLAG", "WAIT_INFLAG", "WAIT_PROTO",
          "WAIT_CLOSE", "DATA_WEBSOCKET", "DATA_XFER"} \subseteq ConnStates
  BY DEF ConnStates, RequestStates
<1>3. CASE GotPlainByte(i, c)
  <2>1. RxTypeOK'
    BY <1>3 DEF GotPlainByte
  <2>2. CASE GotMethod(i, c)
    <3>1. [conn[i] EXCEPT !.state = "WAIT_PATH", !.state_deets = 0] \in Connection
      BY <1>1, <1>2 DEF Connection
    <3> QED
      BY <2>1, <2>2, <3>1, UpdateType, SkipType DEF GotMethod
  <2>3. CASE GotPath(i, c)
    <3> DEFINE next == conn[i].state_deets + 1
               d == IF next = MAX_HTTP_PATHLEN THEN MAX_HTTP_PATHLEN - 1 ELSE next
    <3>1. d \in Nat
      <4>1. conn[i].state_deets \in Nat
        BY <1>1, FieldRanges
      <4> QED
        BY <4>1, TableAssumption
    <3>2. [conn[i] EXCEPT !.state_deets = d] \in Connection
      BY <1>1, <3>1, FieldTypes
    <3>3. \A p \in PathKinds, s \in {"DATA_WEBSOCKET", "WAIT_PROTO"} :
            [conn[i] EXCEPT !.path = p, !.state_deets = 0, !.state = s] \in Connection
      BY <1>1, <1>2 DEF Connection
    <3>4. CASE c # "sp"
      BY <2>1, <2>3, <3>2, <3>4, UpdateType DEF GotPath
    <3>5. CASE c = "sp"
      BY <2>1, <2>3, <3>3, <3>5, UpdateType DEF GotPath
    <3> QED
      BY <3>4, <3>5
  <2>4. CASE GotProto(i, c)
    BY <1>2, <2>1, <2>4, GotoType, SkipType DEF GotProto
  <2>5. CASE GotFlag(i, c)
    BY <1>2, <2>1, <2>5, GotoType, SkipType, StartType DEF GotFlag
  <2>6. CASE GotInFlag(i, c)
    <3>1. [conn[i] EXCEPT !.state = "WAIT_FLAG", !.state_deets = 0] \in Connection
      BY <1>1, <1>2 DEF Connection
    <3> QED
      BY <2>1, <2>6, <3>1, UpdateType, SkipType DEF GotInFlag
  <2>7. CASE GotWhileClosing(i)
    BY <2>1, <2>7, CloseOrKeepAliveType DEF GotWhileClosing
  <2>8. CASE GotNothing(i)
    BY <2>1, <2>8, SkipType DEF GotNothing
  <2> QED
    BY <1>3, <2>1, <2>2, <2>3, <2>4, <2>5, <2>6, <2>7, <2>8 DEF GotPlainByte
<1>4. CASE GotDuringTransfer(i)
  BY <1>4, SkipType DEF GotDuringTransfer
<1>5. CASE WebSocketGotData(i, c)
  <2>1. CASE WebSocketKey(i)
    <3> DEFINE h == [conn[i] EXCEPT !.is_dynamic = TRUE]
    <3>1. h \in Connection
      BY <1>1, FieldTypes
    <3>2. [h EXCEPT !.state = "WAIT_CLOSE"] \in Connection
      BY <1>2, <3>1, FieldTypes
    <3>3. NewWebSocket(h) \in Connection
      <4>1. \A d \in {"WSEchoData", "WSCommandData"} :
              [h EXCEPT !.rcb = "", !.rcbDat = d] \in Connection
        BY <3>1 DEF Connection
      <4> QED
        BY <3>1, <4>1, FieldTypes DEF NewWebSocket
    <3>4. [NewWebSocket(h) EXCEPT !.state_deets = 1, !.bytesleft = 0] \in Connection
      BY <3>3, Lengths DEF Connection
    <3>5. RxTypeOK'
      BY <2>1 DEF WebSocketKey
    <3> QED
      BY <2>1, <3>2, <3>4, <3>5, UpdateType DEF WebSocketKey
  <2>2. CASE WebSocketHeader(i, c)
    <3> DEFINE d == conn[i].state_deets
               e == CASE d = 1 -> IF c = "lf" THEN 2 ELSE 1
                      [] d = 2 -> IF c = "cr" THEN 3 ELSE 1
                      [] d = 3 -> IF c = "lf" THEN 4 ELSE 1
                      [] d = 4 -> 4
    <3>1. e \in Nat
      BY <2>2 DEF WebSocketHeader
    <3>2. [conn[i] EXCEPT !.state_deets = e] \in Connection
      BY <1>1, <3>1, FieldTypes
    <3>3. Update(i, [conn[i] EXCEPT !.state_deets = e])
      BY <2>2 DEF WebSocketHeader
    <3> QED
      BY <2>2, <3>2, <3>3, UpdateType DEF WebSocketHeader
  <2>3. CASE WebSocketFrame(i)
    <3> DEFINE n == curlen - 1
    <3>1. n \in 0 .. CURLEN_WRAP - 2 /\ beyond \in BOOLEAN
      OBVIOUS
    <3>2. CASE n < 5 /\ curlen' = n /\ Skip /\ UNCHANGED <<beyond, cork_binary_rx>>
      BY <3>1, <3>2, SkipType
    <3>3. CASE /\ n >= 5 /\ curlen' = n - 1
               /\ Goto(i, "WAIT_CLOSE") /\ UNCHANGED <<beyond, cork_binary_rx>>
      BY <1>2, <3>1, <3>3, GotoType
    <3>4. CASE n >= 5 /\ FramePayload(i, n - 5, 0 .. 125, beyond)
      <4>1. n - 5 \in 0 .. CURLEN_WRAP - 1 /\ 0 .. 125 \in SUBSET Nat
        BY <3>1, <3>4
      <4>2. RxTypeOK' /\ (Skip \/ Goto(i, "WAIT_CLOSE"))
        BY <3>1, <3>4, <4>1, PayloadType
      <4> QED
        BY <1>2, <4>2, SkipType, GotoType
    <3>5. CASE FramePayload(i, (n - 7) % CURLEN_WRAP, 0 .. CURLEN_WRAP - 1, beyond \/ n < 7)
      <4> DEFINE r == (n - 7) % CURLEN_WRAP
                 past == beyond \/ n < 7
      <4>1. r \in 0 .. CURLEN_WRAP - 1
        BY <3>1, IntModRange
      <4>2. 0 .. CURLEN_WRAP - 1 \in SUBSET Nat /\ past \in BOOLEAN
        BY <3>1
      <4>3. FramePayload(i, r, 0 .. CURLEN_WRAP - 1, past)
        BY <3>5
      <4> HIDE DEF r, past
      <4>4. RxTypeOK' /\ (Skip \/ Goto(i, "WAIT_CLOSE"))
        BY <4>1, <4>2, <4>3, PayloadType
      <4> QED
        BY <1>2, <4>4, SkipType, GotoType
    <3> QED
      BY <2>3, <3>2, <3>3, <3>4, <3>5 DEF WebSocketFrame
  <2> QED
    BY <1>5, <2>1, <2>2, <2>3 DEF WebSocketGotData
<1> QED
  BY <1>3, <1>4, <1>5 DEF HTTPGotByte

\* Serving a slot keeps the tables well typed.
LEMMA DoHTTPType ==
  ASSUME TablesTypeOK, NEW i \in Slots, NEW b \in BOOLEAN, DoHTTP(i, b)
  PROVE  TablesTypeOK'
<1>1. conn[i] \in Connection
  BY SlotType
<1>2. "WAIT_CLOSE" \in ConnStates
  BY DEF ConnStates
<1>3. ASSUME RunCallback(i) PROVE TablesTypeOK'
  <2>1. conn[i].rcb \in {"", "huge", "echo", "issue"}
    BY <1>1 DEF Connection
  <2> QED
    BY <1>1, <1>2, <1>3, <2>1, FieldTypes, UpdateType, GotoType, SkipType DEF RunCallback
<1>4. ASSUME HTTPHandleInternalCallback(i) PROVE TablesTypeOK'
  <2>1. CASE FinishFile(i)
    BY <1>1, <2>1, CloseType DEF FinishFile
  <2>2. CASE Send404(i)
    BY <1>1, <2>2, FieldTypes, UpdateType DEF Send404
  <2>3. CASE SendHeader(i)
    <3>1. [conn[i] EXCEPT !.isfirst = FALSE,
             !.keep_alive = (conn[i].bytesleft # NoLength)] \in Connection
      BY <1>1 DEF Connection
    <3> QED
      BY <2>3, <3>1, UpdateType DEF SendHeader
  <2>4. CASE SendSectors(i)
    <3>1. PICK l \in MFSReadSector(conn[i], 2) :
            Update(i, [conn[i] EXCEPT !.bytesleft = l, !.isdone = (l = 0)])
      BY <2>4 DEF SendSectors
    <3>2. l \in 0 .. NoLength
      <4>1. conn[i].bytesleft \in 0 .. NoLength
        BY <1>1, FieldRanges
      <4>2. l \in 0 .. NoLength \/ (l = conn[i].bytesleft - 2 /\ ~(conn[i].bytesleft <= 2)) \/ l = 0
        BY <3>1 DEF MFSReadSector
      <4> QED
        BY <4>1, <4>2, TableAssumption DEF NoLength
    <3>3. [conn[i] EXCEPT !.bytesleft = l, !.isdone = (l = 0)] \in Connection
      BY <1>1, <3>2 DEF Connection
    <3> QED
      BY <3>1, <3>3, UpdateType
  <2> QED
    BY <1>4, <2>1, <2>2, <2>3, <2>4 DEF HTTPHandleInternalCallback
<1>5. CASE conn[i].state = "NONE" /\ Skip
  BY <1>5, SkipType
<1>6. CASE Blocked(i)
  BY <1>6, SkipType DEF Blocked
<1>7. CASE Serve(i)
  <2>1. ASSUME WebSocketTickInternal(i) PROVE TablesTypeOK'
    <3>1. [conn[i] EXCEPT !.state_deets = 5, !.keep_alive = FALSE] \in Connection
      BY <1>1 DEF Connection
    <3> QED
      BY <1>3, <2>1, <3>1, UpdateType, SkipType DEF WebSocketTickInternal
  <2> QED
    BY <1>3, <1>4, <1>7, <2>1, CloseOrKeepAliveType DEF Serve
<1>8. CASE CountTimeout(i, b)
  <2> DEFINE n == (conn[i].timeout + 1) % TIMEOUT_WRAP
  <2>1. n \in 0 .. TIMEOUT_WRAP - 1
    <3>1. conn[i].timeout \in 0 .. TIMEOUT_WRAP - 1
      BY <1>1, FieldRanges
    <3>2. conn[i].timeout + 1 \in Nat
      BY <3>1, TableAssumption
    <3> QED
      BY <3>2, TableAssumption, ModRange
  <2>2. [conn[i] EXCEPT !.timeout = n] \in Connection
    BY <1>1, <2>1 DEF Connection
  <2>3. \/ Skip
        \/ HTTPClose(i, [conn[i] EXCEPT !.timeout = n])
        \/ Update(i, [conn[i] EXCEPT !.timeout = n])
    BY <1>8 DEF CountTimeout
  <2> QED
    BY <2>2, <2>3, CloseType, UpdateType, SkipType
<1> QED
  BY <1>5, <1>6, <1>7, <1>8 DEF DoHTTP

\* Reading and rewriting only what does not belong to the tables.
LEMMA TablesUnchanged ==
  ASSUME TablesTypeOK, UNCHANGED <<conn, sockVars, fileVars>>
  PROVE  TablesTypeOK'
  BY DEF TablesTypeOK, sockVars, fileVars

\* Disconnecting one slot keeps the tables well typed.
LEMMA DropType ==
  ASSUME TablesTypeOK, NEW i \in Slots, Drop(i)
  PROVE  TablesTypeOK'
<1>1. \A c \in Connection : [c EXCEPT !.state = "NONE"] \in Connection
  BY DEF Connection, ConnStates
<1>2. conn' \in [Slots -> Connection]
  BY <1>1 DEF Drop, http_disconnetcb, TablesTypeOK
<1> QED
  BY <1>2 DEF Drop, http_disconnetcb, TablesTypeOK

\* Nothing, or -1 less than nothing, is a length like any other.
LEMMA ZeroFits == 0 \in 0 .. RECV_SIZE /\ 0 \in -1 .. RECV_SIZE
  BY BufferAssumption

\* Going on with the next socket keeps what is local to a turn well typed.
LEMMA NextSocketType ==
  ASSUME TypeOK, ToNextSocket, cur \in Slots, TablesTypeOK', corked' \in [Cells -> 0 .. RECV_SIZE],
         UNCHANGED <<timed, polled, listening>>
  PROVE  TypeOK' /\ ChunkFits'
<1>1. /\ pc' = "event" /\ cur' = cur + 1 /\ len' = 0 /\ dco' = 0 /\ beyond' = FALSE
      /\ UNCHANGED <<curlen, cork_binary_rx>>
  BY DEF ToNextSocket
<1>2. cur' \in 0 .. HTTP_CONNECTIONS
  BY <1>1, TableAssumption DEF Slots
<1>3. pc' \in Pcs /\ ChunkFits'
  BY <1>1 DEF Pcs, ChunkFits
<1> QED
  BY <1>1, <1>2, <1>3, ZeroFits DEF TypeOK

\* Every step of the loop keeps TypeOK and ChunkFits.
LEMMA TypeStep ==
  ASSUME TypeOK, ChunkFits, [Next]_vars
  PROVE  TypeOK' /\ ChunkFits'
<1> USE TableAssumption, BufferAssumption DEF Pcs, Stopped
<1>1. CASE Tick
  <2>1. TablesTypeOK'
    BY <1>1, DoHTTPType DEF Tick, TypeOK
  <2> QED
    BY <1>1, <2>1 DEF Tick, TypeOK, ChunkFits, Slots, rxVars
<1>2. CASE Poll
  <2>1. TablesTypeOK'
    BY <1>2, TablesUnchanged DEF Poll, TypeOK, httpVars, sockVars, fileVars, rxVars
  <2> QED
    BY <1>2, <2>1 DEF Poll, TypeOK, ChunkFits, httpVars, rxVars
<1>3. CASE ServerFault
  <2>1. TablesTypeOK'
    BY <1>3 DEF ServerFault, TypeOK, TablesTypeOK, fileVars
  <2>2. /\ pc' = "tick" /\ cur' = 0 /\ timed' \in BOOLEAN /\ polled' = {} /\ listening' = FALSE
        /\ UNCHANGED <<curlen, beyond, cork_binary_rx, len, dco, corked>>
    BY <1>3 DEF ServerFault, rxVars
  <2>3. 0 \in 0 .. HTTP_CONNECTIONS
    OBVIOUS
  <2>4. ChunkFits'
    BY <2>2 DEF ChunkFits
  <2> QED
    BY <2>1, <2>2, <2>3, <2>4 DEF TypeOK
<1>4. CASE NoConnection
  <2>1. TablesTypeOK'
    BY <1>4, TablesUnchanged DEF NoConnection, TypeOK, httpVars, sockVars, fileVars, rxVars
  <2> QED
    BY <1>4, <2>1 DEF NoConnection, TypeOK, ChunkFits, httpVars, rxVars
<1>5. CASE Accept
  <2>1. PICK s \in (Sockets \ fds) \cup {BadSock}, i \in Slots :
          /\ conn' = [conn EXCEPT ![i].socket = s, ![i].state = "WAIT_METHOD"]
          /\ bsd' = [bsd EXCEPT ![i] = s]
          /\ fds' = fds \cup ({s} \ {BadSock})
    BY <1>5 DEF Accept, httpserver_connectcb
  <2>2. [conn[i] EXCEPT !.socket = s, !.state = "WAIT_METHOD"] \in Connection
    <3>1. conn[i] \in Connection /\ s \in Sockets \cup {NoSock, BadSock}
      BY SlotType DEF TypeOK
    <3> QED
      BY <3>1 DEF Connection, ConnStates, RequestStates
  <2>3. TablesTypeOK'
    BY <1>5, <2>1, <2>2 DEF Accept, TypeOK, TablesTypeOK, fileVars
  <2> QED
    BY <1>5, <2>3 DEF Accept, TypeOK, ChunkFits, rxVars
<1>6. CASE Refuse
  <2>1. TablesTypeOK'
    BY <1>6, TablesUnchanged DEF Refuse, TypeOK, httpVars, sockVars, fileVars, rxVars
  <2> QED
    BY <1>6, <2>1 DEF Refuse, TypeOK, ChunkFits, httpVars, rxVars, Cells
<1>7. CASE NoEvent
  <2>1. TablesTypeOK'
    BY <1>7, TablesUnchanged DEF NoEvent, TypeOK, httpVars, sockVars, fileVars, rxVars
  <2> QED
    BY <1>7, <2>1 DEF NoEvent, TypeOK, ChunkFits, httpVars, rxVars, Slots
<1>8. CASE Disconnected
  <2>1. cur \in Slots
    BY <1>8 DEF Disconnected, HasEvent, TypeOK
  <2>2. TablesTypeOK'
    BY <1>8, <2>1, DropType DEF Disconnected, TypeOK
  <2> QED
    BY <1>8, <2>1, <2>2 DEF Disconnected, HasEvent, TypeOK, ChunkFits, Slots, rxVars
<1>9. CASE Received
  <2>1. cur \in Slots /\ cur \in polled
    BY <1>9 DEF Received, HasEvent, TypeOK
  <2>2. dco' = corked[PollIndex(cur)] /\ dco' \in 0 .. RECV_SIZE
    BY <1>9, <2>1, PollIndexInCells DEF Received, TypeOK
  <2>3. len' = -1 \/ (len' \in 1 .. RECV_SIZE /\ len' + dco' <= RECV_SIZE)
    BY <1>9 DEF Received
  <2>4. dco' + len' <= RECV_SIZE /\ len' \in -1 .. RECV_SIZE
    BY <2>2, <2>3
  <2>8. curlen' = (len' + dco') % CURLEN_WRAP /\ len' + dco' \in Int
    BY <1>9, <2>2, <2>4 DEF Received
  <2>9. curlen' \in 0 .. CURLEN_WRAP - 1
    BY <2>8, IntModRange
  <2>10. beyond' \in BOOLEAN /\ cork_binary_rx' \in BOOLEAN
    <3>1. beyond' = (len' + dco' < 0) /\ cork_binary_rx' = FALSE
      BY <1>9 DEF Received
    <3>2. (len' + dco' < 0) \in BOOLEAN
      BY <2>8
    <3> QED
      BY <3>1, <3>2
  <2>5. [conn[cur] EXCEPT !.timeout = 0] \in Connection
    <3>1. conn[cur] \in Connection /\ 0 \in 0 .. TIMEOUT_WRAP - 1
      BY <2>1, SlotType DEF TypeOK
    <3> QED
      BY <3>1 DEF Connection
  <2>6. TablesTypeOK'
    BY <1>9, <2>5 DEF Received, TypeOK, TablesTypeOK, sockVars, fileVars
  <2>7. PollIndex(cur)' = PollIndex(cur)
    BY <1>9 DEF Received, PollIndex
  <2> QED
    BY <1>9, <2>1, <2>2, <2>4, <2>6, <2>7, <2>9, <2>10 DEF Received, TypeOK, ChunkFits
<1>10. CASE Parse
  <2>1. cur \in Slots
    BY <1>10 DEF Parse, ChunkFits, TypeOK
  <2>2. curlen > 0 /\ RxTypeOK
    BY <1>10 DEF Parse, TypeOK, RxTypeOK
  <2>3. TablesTypeOK' /\ RxTypeOK'
    BY <1>10, <2>1, <2>2, GotByteType DEF Parse, TypeOK
  <2>4. PollIndex(cur)' = PollIndex(cur)
    BY <1>10 DEF Parse, loopVars, PollIndex
  <2> QED
    BY <1>10, <2>3, <2>4 DEF Parse, TypeOK, ChunkFits, loopVars, RxTypeOK
<1>11. CASE Exit \/ Overrun
  <2>1. TablesTypeOK'
    BY <1>11, TablesUnchanged DEF Exit, Overrun, TypeOK, httpVars, sockVars, fileVars, rxVars
  <2> QED
    BY <1>11, <2>1 DEF Exit, Overrun, TypeOK, ChunkFits, httpVars, rxVars
<1>12. CASE Uncork
  <2>1. cur \in Slots
    BY <1>12 DEF Uncork, ChunkFits, TypeOK
  <2>2. TablesTypeOK'
    BY <1>12, TablesUnchanged DEF Uncork, TypeOK
  <2>3. corked' \in [Cells -> 0 .. RECV_SIZE]
    BY <1>12, ZeroFits DEF Uncork, TypeOK
  <2> QED
    BY <1>12, <2>1, <2>2, <2>3, NextSocketType DEF Uncork
<1>13. CASE Cork
  <2>1. cur \in Slots /\ dco = corked[PollIndex(cur)] /\ dco + len <= RECV_SIZE
    BY <1>13 DEF Cork, Corking, ChunkFits, TypeOK
  <2>2. TablesTypeOK'
    BY <1>13, TablesUnchanged DEF Cork, TypeOK
  <2>3. dco + len \in 0 .. RECV_SIZE
    BY <1>13, <2>1 DEF TypeOK, Cork, TooMuchToCork
  <2>4. corked' \in [Cells -> 0 .. RECV_SIZE]
    BY <1>13, <2>1, <2>3 DEF Cork, TypeOK
  <2> QED
    BY <1>13, <2>1, <2>2, <2>4, NextSocketType DEF Cork
<1>14. CASE CorkOverflow
  <2>1. cur \in Slots
    BY <1>14 DEF CorkOverflow, Corking, ChunkFits, TypeOK
  <2>2. TablesTypeOK'
    BY <1>14, <2>1, DropType DEF CorkOverflow, TypeOK
  <2>3. corked' \in [Cells -> 0 .. RECV_SIZE]
    BY <1>14 DEF CorkOverflow, TypeOK
  <2> QED
    BY <1>14, <2>1, <2>2, <2>3, NextSocketType DEF CorkOverflow
<1>15. CASE LeavesTable
  <2>1. TablesTypeOK'
    BY <1>15, TablesUnchanged DEF LeavesTable, TypeOK, httpVars, sockVars, fileVars, rxVars
  <2> QED
    BY <1>15, <2>1 DEF LeavesTable, TypeOK, ChunkFits, httpVars, rxVars
<1>16. CASE NextRound
  <2>1. TablesTypeOK'
    BY <1>16, TablesUnchanged DEF NextRound, TypeOK, httpVars, sockVars, fileVars, rxVars
  <2> QED
    BY <1>16, <2>1 DEF NextRound, TypeOK, ChunkFits, httpVars, rxVars
<1>17. CASE Terminated \/ UNCHANGED vars
  <2>1. UNCHANGED vars
    BY <1>17 DEF Terminated
  <2> QED
    BY <2>1 DEF vars, httpVars, sockVars, fileVars, rxVars, loopVars, TypeOK, TablesTypeOK, ChunkFits, PollIndex
<1> QED
  BY <1>1, <1>2, <1>3, <1>4, <1>5, <1>6, <1>7, <1>8, <1>9, <1>10, <1>11, <1>12,
     <1>13, <1>14, <1>15, <1>16, <1>17 DEF Next

\* The zeroed tables the program starts with have the right types.
LEMMA TypeInit == Init => TypeOK /\ ChunkFits
<1> SUFFICES ASSUME Init PROVE TypeOK /\ ChunkFits
  OBVIOUS
<1> USE TableAssumption, BufferAssumption
<1>1. 0 \in 0 .. TIMEOUT_WRAP - 1 /\ 0 \in 0 .. NoLength
  BY DEF NoLength
<1>2. ZeroConnection \in Connection
  BY <1>1 DEF ZeroConnection, Connection, ConnStates
<1>3. TablesTypeOK
  BY <1>2 DEF Init, HttpInit, TablesTypeOK
<1> QED
  <2>1. 0 \in 0 .. RECV_SIZE /\ 0 \in 0 .. HTTP_CONNECTIONS /\ 0 \in -1 .. RECV_SIZE
        /\ 0 \in 0 .. CURLEN_WRAP - 1
    OBVIOUS
  <2>2. corked \in [Cells -> 0 .. RECV_SIZE]
    BY <2>1 DEF Init
  <2>3. pc \in Pcs /\ pc # "parse"
    BY DEF Init, Pcs
  <2> QED
    BY <1>3, <2>1, <2>2, <2>3 DEF Init, HttpInit, TypeOK, ChunkFits

\* Every variable keeps its type, and a chunk never outgrows the receive
\* buffer, whatever was corked before it.
THEOREM TypeCorrect == Spec => [](TypeOK /\ ChunkFits)
<1>1. TypeOK /\ ChunkFits /\ [Next]_vars => (TypeOK /\ ChunkFits)'
  BY TypeStep
<1> QED
  BY <1>1, TypeInit, PTL DEF Spec

-----------------------------------------------------------------------------
(* Descriptors.  For the socket tables there are four kinds of step: one   *)
(* that keeps every slot's socket and whether it is in use, HTTPClose, a   *)
(* slot dropped by the event loop, and an accepted connection.             *)

\* A record that takes the place of g without touching the socket tables.
SameUse(g, h) == h.socket = g.socket /\ (h.state = "NONE" <=> g.state = "NONE")

Kept == /\ \A j \in Slots : SameUse(conn[j], conn'[j])
        /\ UNCHANGED sockVars

\* The connection of slot i is closed, with every slot that has its socket.
ClosedWith(i) ==
  LET s == conn[i].socket IN
  /\ conn[i].state # "NONE"
  /\ \A j \in Slots : /\ conn'[j].socket = conn[j].socket
                      /\ conn'[j].state = "NONE" <=> bsd[j] = s \/ conn[j].state = "NONE"
  /\ bsd' = [j \in Slots |-> IF bsd[j] = s THEN NoSock ELSE bsd[j]]
  /\ fds' = fds \ {ring[head]}
  /\ ring' = [ring EXCEPT ![head] = s]

SocketInv == TablesAgree /\ NoSharedDescriptor /\ DescriptorsAccounted

\* Storing a record with the same use keeps the socket tables' meaning.
LEMMA UpdateKeeps ==
  ASSUME TablesTypeOK, NEW i \in Slots, NEW h, Update(i, h), SameUse(conn[i], h)
  PROVE  Kept
  BY DEF TablesTypeOK, Update, Kept, SameUse

LEMMA SkipKeeps ==
  ASSUME Skip
  PROVE  Kept
  BY DEF Skip, Kept, SameUse

\* HTTPClose, on a record with the same use, closes the connection.
LEMMA CloseCloses ==
  ASSUME TablesTypeOK, TablesAgree, NEW i \in Slots, NEW h \in Connection,
         HTTPClose(i, h), SameUse(conn[i], h), conn[i].state # "NONE"
  PROVE  ClosedWith(i)
<1> DEFINE w == [h EXCEPT !.state = "WAIT_CLOSE"]
           t == [conn EXCEPT ![i] = w]
           s == conn[i].socket
<1>1. w \in Connection /\ w.socket = s
  BY DEF Connection, ConnStates, SameUse
<1>2. /\ t \in [Slots -> Connection] /\ t[i] = w
      /\ \A j \in Slots \ {i} : t[j] = conn[j]
  BY <1>1 DEF TablesTypeOK
<1>3. et_espconn_disconnect(t, s)
  BY DEF HTTPClose, SameUse
<1> HIDE DEF t, w
<1>4. \A c \in Connection : /\ [c EXCEPT !.state = "NONE"].state = "NONE"
                            /\ [c EXCEPT !.state = "NONE"].socket = c.socket
  BY DEF Connection
<1>5. \A j \in Slots : conn'[j] = IF bsd[j] = s THEN [t[j] EXCEPT !.state = "NONE"] ELSE t[j]
  BY <1>3 DEF et_espconn_disconnect, http_disconnetcb
<1>6. bsd[i] = s
  BY DEF TablesAgree
<1>7. ASSUME NEW j \in Slots
      PROVE  /\ conn'[j].socket = conn[j].socket
             /\ conn'[j].state = "NONE" <=> bsd[j] = s \/ conn[j].state = "NONE"
  <2>1. t[j].socket = conn[j].socket /\ t[j] \in Connection
    BY <1>1, <1>2
  <2>2. CASE bsd[j] = s
    BY <1>4, <1>5, <2>1, <2>2
  <2>3. CASE bsd[j] # s
    BY <1>2, <1>5, <1>6, <2>3
  <2> QED
    BY <2>2, <2>3
<1> QED
  BY <1>3, <1>7 DEF et_espconn_disconnect, ClosedWith

\* The end of an exchange.
LEMMA CloseOrKeepAliveSockets ==
  ASSUME TablesTypeOK, TablesAgree, NEW i \in Slots, CloseOrKeepAlive(i),
         conn[i].state # "NONE"
  PROVE  Kept \/ ClosedWith(i)
<1>1. conn[i] \in Connection
  BY SlotType
<1>2. SameUse(conn[i], [conn[i] EXCEPT !.state = "WAIT_METHOD"]) /\ SameUse(conn[i], conn[i])
  BY <1>1 DEF Connection, SameUse
<1> QED
  BY <1>1, <1>2, UpdateKeeps, CloseCloses DEF CloseOrKeepAlive

\* Starting a response.
LEMMA StartKeeps ==
  ASSUME TablesTypeOK, NEW i \in Slots, InternalStartHTTP(i), conn[i].state # "NONE"
  PROVE  Kept
<1>1. conn[i] \in Connection
  BY SlotType
<1>2. CASE StartFile(i)
  <2>1. PICK f \in Streams \ streams, n \in FileLengths :
          conn' = [conn EXCEPT ![i] =
                     [Started(@) EXCEPT !.is404 = FALSE, !.is_dynamic = FALSE,
                                        !.file = f, !.bytesleft = n]]
    BY <1>2 DEF StartFile
  <2>2. SameUse(conn[i], [Started(conn[i]) EXCEPT !.is404 = FALSE, !.is_dynamic = FALSE,
                                                  !.file = f, !.bytesleft = n])
    BY <1>1 DEF Connection, Started, SameUse
  <2>3. UNCHANGED sockVars
    BY <1>2 DEF StartFile
  <2> QED
    BY <2>1, <2>2, <2>3 DEF TablesTypeOK, Kept, SameUse
<1>3. CASE StartMissing(i)
  <2>1. SameUse(conn[i], [Started(conn[i]) EXCEPT !.is404 = TRUE, !.is_dynamic = FALSE,
                                                  !.file = NoStream])
    BY <1>1 DEF Connection, Started, SameUse
  <2> QED
    BY <1>3, <2>1, UpdateKeeps DEF StartMissing
<1>4. CASE StartDynamic(i)
  <2>1. ASSUME NEW cb, NEW n, HTTPCustomStart(i, cb, n)
        PROVE  Kept
    <3> DEFINE k == n # NoLength
    <3> HIDE DEF k
    <3>1. SameUse(conn[i], [Started(conn[i]) EXCEPT !.is404 = FALSE, !.is_dynamic = TRUE,
                     !.isfirst = FALSE, !.rcb = cb, !.bytesleft = n, !.keep_alive = k])
      BY <1>1 DEF Connection, Started, SameUse
    <3> QED
      BY <2>1, <3>1, UpdateKeeps DEF HTTPCustomStart, k
  <2> QED
    BY <1>4, <2>1 DEF StartDynamic
<1> QED
  BY <1>2, <1>3, <1>4 DEF InternalStartHTTP

\* The changes a handler makes to a record in use that leave its use alone.
LEMMA SameUseTypes ==
  ASSUME NEW h \in Connection, h.state # "NONE"
  PROVE  /\ \A s : s # "NONE" => SameUse(h, [h EXCEPT !.state = s])
         /\ \A d : SameUse(h, [h EXCEPT !.state_deets = d])
         /\ \A s, d : s # "NONE" => SameUse(h, [h EXCEPT !.state = s, !.state_deets = d])
         /\ \A b : SameUse(h, [h EXCEPT !.isdone = b])
         /\ \A t : SameUse(h, [h EXCEPT !.timeout = t])
  BY DEF Connection, SameUse

LEMMA GotoKeeps ==
  ASSUME TablesTypeOK, NEW i \in Slots, NEW s, Goto(i, s), s # "NONE", conn[i].state # "NONE"
  PROVE  Kept
  BY SlotType, SameUseTypes, UpdateKeeps DEF Goto

\* A received byte.
LEMMA GotByteSockets ==
  ASSUME TablesTypeOK, TablesAgree, NEW i \in Slots, NEW c, HTTPGotByte(i, c)
  PROVE  Kept \/ ClosedWith(i)
<1>1. conn[i] \in Connection
  BY SlotType
<1>2. CASE conn[i].state = "NONE"
  <2>1. Skip
    BY <1>2 DEF HTTPGotByte, GotPlainByte, GotMethod, GotPath, GotProto, GotFlag,
                GotInFlag, GotWhileClosing, GotNothing, GotDuringTransfer, WebSocketGotData
  <2> QED
    BY <2>1, SkipKeeps
<1>3. CASE conn[i].state # "NONE" /\ GotPlainByte(i, c)
  <2>1. CASE GotMethod(i, c)
    BY <1>1, <1>3, <2>1, SameUseTypes, UpdateKeeps, SkipKeeps DEF GotMethod
  <2>2. CASE GotPath(i, c)
    <3>1. \A p, s : s # "NONE" =>
            SameUse(conn[i], [conn[i] EXCEPT !.path = p, !.state_deets = 0, !.state = s])
      BY <1>1, <1>3 DEF Connection, SameUse
    <3> QED
      BY <1>1, <1>3, <2>2, <3>1, SameUseTypes, UpdateKeeps DEF GotPath
  <2>3. CASE GotProto(i, c)
    BY <1>3, <2>3, GotoKeeps, SkipKeeps DEF GotProto
  <2>4. CASE GotFlag(i, c)
    BY <1>3, <2>4, GotoKeeps, SkipKeeps, StartKeeps DEF GotFlag
  <2>5. CASE GotInFlag(i, c)
    BY <1>1, <1>3, <2>5, SameUseTypes, UpdateKeeps, SkipKeeps DEF GotInFlag
  <2>6. CASE GotWhileClosing(i)
    BY <1>3, <2>6, CloseOrKeepAliveSockets DEF GotWhileClosing
  <2>7. CASE GotNothing(i)
    BY <2>7, SkipKeeps DEF GotNothing
  <2> QED
    BY <1>3, <2>1, <2>2, <2>3, <2>4, <2>5, <2>6, <2>7 DEF GotPlainByte
<1>4. CASE GotDuringTransfer(i)
  BY <1>4, SkipKeeps DEF GotDuringTransfer
<1>5. CASE conn[i].state # "NONE" /\ WebSocketGotData(i, c)
  <2>1. CASE WebSocketKey(i)
    <3> DEFINE h == [conn[i] EXCEPT !.is_dynamic = TRUE]
    <3>1. h \in Connection /\ SameUse(conn[i], h) /\ h.state # "NONE"
      <4>1. h \in Connection
        BY <1>1, FieldTypes
      <4>2. h.socket = conn[i].socket /\ h.state = conn[i].state
        BY <1>1 DEF Connection
      <4> QED
        BY <1>5, <4>1, <4>2 DEF SameUse
    <3>2. SameUse(conn[i], [h EXCEPT !.state = "WAIT_CLOSE"])
      BY <1>5, <3>1, SameUseTypes DEF SameUse
    <3> HIDE DEF h
    <3>3. SameUse(conn[i], [NewWebSocket(h) EXCEPT !.state_deets = 1, !.bytesleft = 0])
      BY <3>1 DEF NewWebSocket, SameUse, Connection
    <3> QED
      BY <2>1, <3>2, <3>3, UpdateKeeps DEF WebSocketKey, h
  <2>2. CASE WebSocketHeader(i, c)
    BY <1>1, <1>5, <2>2, SameUseTypes, UpdateKeeps DEF WebSocketHeader
  <2>3. CASE WebSocketFrame(i)
    <3>1. Skip \/ Goto(i, "WAIT_CLOSE")
      BY <2>3 DEF WebSocketFrame, FramePayload
    <3> QED
      BY <1>5, <3>1, GotoKeeps, SkipKeeps
  <2> QED
    BY <1>5, <2>1, <2>2, <2>3 DEF WebSocketGotData
<1> QED
  BY <1>2, <1>3, <1>4, <1>5 DEF HTTPGotByte

\* A slot's turn in HTTPTick.
LEMMA DoHTTPSockets ==
  ASSUME TablesTypeOK, TablesAgree, NEW i \in Slots, NEW b, DoHTTP(i, b)
  PROVE  Kept \/ ClosedWith(i)
<1>1. conn[i] \in Connection
  BY SlotType
<1>2. CASE conn[i].state = "NONE" \/ Blocked(i)
  <2>1. Skip
    BY <1>2 DEF DoHTTP, Blocked, Serve, CountTimeout, RequestStates
  <2> QED
    BY <2>1, SkipKeeps
<1>3. ASSUME RunCallback(i), conn[i].state # "NONE"
      PROVE  Kept
  <2>1. conn[i].rcb \in {"", "huge", "echo", "issue"}
    BY <1>1, FieldRanges
  <2> QED
    BY <1>1, <1>3, <2>1, SameUseTypes, UpdateKeeps, GotoKeeps, SkipKeeps DEF RunCallback
<1>4. ASSUME HTTPHandleInternalCallback(i), conn[i].state # "NONE"
      PROVE  Kept \/ ClosedWith(i)
  <2>1. CASE FinishFile(i)
    BY <1>1, <1>4, <2>1, CloseCloses DEF FinishFile, SameUse
  <2>2. CASE Send404(i)
    BY <1>1, <1>4, <2>2, SameUseTypes, UpdateKeeps DEF Send404
  <2>3. CASE SendHeader(i)
    <3>1. SameUse(conn[i], [conn[i] EXCEPT !.isfirst = FALSE,
                              !.keep_alive = (conn[i].bytesleft # NoLength)])
      BY <1>1 DEF Connection, SameUse
    <3> QED
      BY <2>3, <3>1, UpdateKeeps DEF SendHeader
  <2>4. CASE SendSectors(i)
    <3>1. PICK l \in MFSReadSector(conn[i], 2) :
            Update(i, [conn[i] EXCEPT !.bytesleft = l, !.isdone = (l = 0)])
      BY <2>4 DEF SendSectors
    <3>2. SameUse(conn[i], [conn[i] EXCEPT !.bytesleft = l, !.isdone = (l = 0)])
      BY <1>1 DEF Connection, SameUse
    <3> QED
      BY <3>1, <3>2, UpdateKeeps
  <2> QED
    BY <1>4, <2>1, <2>2, <2>3, <2>4 DEF HTTPHandleInternalCallback
<1>5. CASE Serve(i)
  <2>1. ASSUME WebSocketTickInternal(i), conn[i].state # "NONE" PROVE Kept
    <3>1. SameUse(conn[i], [conn[i] EXCEPT !.state_deets = 5, !.keep_alive = FALSE])
      BY <1>1 DEF Connection, SameUse
    <3> QED
      BY <1>3, <2>1, <3>1, UpdateKeeps, SkipKeeps DEF WebSocketTickInternal
  <2> QED
    BY <1>3, <1>4, <1>5, <2>1, CloseOrKeepAliveSockets DEF Serve
<1>6. CASE CountTimeout(i, b)
  <2> DEFINE n == (conn[i].timeout + 1) % TIMEOUT_WRAP
             h == [conn[i] EXCEPT !.timeout = n]
  <2>1. conn[i].state # "NONE"
    BY <1>6 DEF CountTimeout, RequestStates
  <2>2. n \in 0 .. TIMEOUT_WRAP - 1
    <3>1. conn[i].timeout \in 0 .. TIMEOUT_WRAP - 1
      BY <1>1, FieldRanges
    <3>2. conn[i].timeout + 1 \in Nat
      BY <3>1, TableAssumption
    <3> QED
      BY <3>2, TableAssumption, ModRange
  <2>3. Skip \/ HTTPClose(i, h) \/ Update(i, h)
    BY <1>6 DEF CountTimeout
  <2> HIDE DEF n
  <2>4. SameUse(conn[i], h) /\ h \in Connection
    BY <1>1, <2>1, <2>2, SameUseTypes DEF Connection
  <2> QED
    BY <2>1, <2>3, <2>4, UpdateKeeps, SkipKeeps, CloseCloses
<1> QED
  BY <1>2, <1>5, <1>6 DEF DoHTTP

\* A step that keeps every slot's use keeps the descriptors in order.
LEMMA KeptKeeps ==
  ASSUME SocketInv, Kept, listening' = listening
  PROVE  SocketInv'
  BY DEF SocketInv, Kept, SameUse, sockVars, TablesAgree, NoSharedDescriptor,
         DescriptorsAccounted

\* So does HTTPClose: the closed slots' descriptor moves to the ring, in the
\* place of the one the ring closes.
LEMMA ClosedKeeps ==
  ASSUME TablesTypeOK, SocketInv, NEW i \in Slots, ClosedWith(i), listening' = listening
  PROVE  SocketInv'
<1> DEFINE s == conn[i].socket
<1> USE DEF ClosedWith
<1>1. bsd[i] = s /\ s # NoSock /\ s \in Sockets \cup {BadSock}
  BY SlotType DEF SocketInv, TablesAgree, TablesTypeOK
<1>2. /\ \A j \in Slots : bsd'[j] = IF bsd[j] = s THEN NoSock ELSE bsd[j]
      /\ \A k \in DOMAIN ring : ring'[k] = IF k = head THEN s ELSE ring[k]
      /\ DOMAIN ring' = DOMAIN ring /\ head \in DOMAIN ring
  BY DEF TablesTypeOK
<1>3. TablesAgree'
  BY <1>1, <1>2 DEF SocketInv, TablesAgree
<1>4. NoSharedDescriptor'
  <2>1. \A k \in DOMAIN ring : ring[k] = s => s \notin Sockets
    BY <1>1 DEF SocketInv, NoSharedDescriptor
  <2> QED
    BY <1>1, <1>2, <2>1, SocketAssumption DEF SocketInv, NoSharedDescriptor
<1>5. ASSUME listening
      PROVE  fds = ({bsd[j] : j \in Slots} \cup {ring[k] : k \in DOMAIN ring}) \cap Sockets
  BY <1>5 DEF SocketInv, DescriptorsAccounted
<1>6. ASSUME listening
      PROVE  fds' = ({bsd'[j] : j \in Slots} \cup {ring'[k] : k \in DOMAIN ring'}) \cap Sockets
  <2>1. ASSUME NEW d \in fds'
        PROVE  d \in ({bsd'[j] : j \in Slots} \cup {ring'[k] : k \in DOMAIN ring'}) \cap Sockets
    <3>1. d \in fds /\ d # ring[head] /\ d \in Sockets
      BY <1>5, <1>6, <2>1
    <3>2. CASE \E j \in Slots : d = bsd[j]
      BY <1>1, <1>2, <3>1, <3>2
    <3>3. CASE \E k \in DOMAIN ring : d = ring[k]
      BY <1>2, <3>1, <3>3
    <3> QED
      BY <1>5, <1>6, <3>1, <3>2, <3>3
  <2>2. ASSUME NEW d \in ({bsd'[j] : j \in Slots} \cup {ring'[k] : k \in DOMAIN ring'}) \cap Sockets
        PROVE  d \in fds'
    <3>1. d \in fds
      <4>1. CASE \E j \in Slots : d = bsd'[j]
        BY <1>2, <1>5, <1>6, <2>2, <4>1, SocketAssumption
      <4>2. CASE \E k \in DOMAIN ring : d = ring'[k]
        BY <1>1, <1>2, <1>5, <1>6, <2>2, <4>2
      <4> QED
        BY <1>2, <2>2, <4>1, <4>2
    <3>2. d # ring[head]
      BY <1>1, <1>2, <2>2, SocketAssumption DEF SocketInv, NoSharedDescriptor
    <3> QED
      BY <3>1, <3>2
  <2> QED
    BY <2>1, <2>2
<1> QED
  BY <1>3, <1>4, <1>6 DEF SocketInv, DescriptorsAccounted

\* So does dropping a slot whose client is gone.
LEMMA DropKeeps ==
  ASSUME TablesTypeOK, SocketInv, NEW i \in Slots, Drop(i), listening' = listening
  PROVE  SocketInv'
<1>1. \A c \in Connection : /\ [c EXCEPT !.state = "NONE"].state = "NONE"
                            /\ [c EXCEPT !.state = "NONE"].socket = c.socket
  BY DEF Connection
<1>2. \A j \in Slots : conn'[j] = IF j = i THEN [conn[j] EXCEPT !.state = "NONE"] ELSE conn[j]
  BY DEF Drop, http_disconnetcb
<1>3. /\ \A j \in Slots : bsd'[j] = IF j = i THEN NoSock ELSE bsd[j]
      /\ ring' = ring /\ fds' = fds \ {bsd[i]}
  BY DEF Drop, TablesTypeOK
<1>4. TablesAgree'
  <2>1. conn[i] \in Connection
    BY SlotType
  <2>2. conn'[i].state = "NONE" /\ bsd'[i] = NoSock
    BY <1>1, <1>2, <1>3, <2>1
  <2>3. \A j \in Slots \ {i} : conn'[j] = conn[j] /\ bsd'[j] = bsd[j]
    BY <1>2, <1>3
  <2> QED
    BY <2>2, <2>3 DEF SocketInv, TablesAgree
<1>5. NoSharedDescriptor'
  BY <1>3, SocketAssumption DEF SocketInv, NoSharedDescriptor
<1>6. ASSUME listening
      PROVE  fds = ({bsd[j] : j \in Slots} \cup {ring[k] : k \in DOMAIN ring}) \cap Sockets
  BY <1>6 DEF SocketInv, DescriptorsAccounted
<1>7. ASSUME listening
      PROVE  fds' = ({bsd'[j] : j \in Slots} \cup {ring'[k] : k \in DOMAIN ring'}) \cap Sockets
  <2>1. \A d \in fds' : d \in {bsd'[j] : j \in Slots} \/ d \in {ring[k] : k \in DOMAIN ring}
    BY <1>3, <1>6, <1>7
  <2>2. \A d \in {bsd'[j] : j \in Slots} \cap Sockets : d \in fds'
    BY <1>3, <1>6, <1>7, SocketAssumption DEF SocketInv, NoSharedDescriptor
  <2>3. \A d \in {ring[k] : k \in DOMAIN ring} \cap Sockets : d \in fds'
    BY <1>3, <1>6, <1>7 DEF SocketInv, NoSharedDescriptor
  <2> QED
    BY <1>3, <1>6, <1>7, <2>1, <2>2, <2>3
<1> QED
  BY <1>4, <1>5, <1>7 DEF SocketInv, DescriptorsAccounted

\* So does accepting: the kernel hands out no descriptor that is still open,
\* and what the tables and the ring hold is open.
LEMMA AcceptKeeps ==
  ASSUME TypeOK, SocketInv, Accept
  PROVE  SocketInv'
<1>1. PICK s \in (Sockets \ fds) \cup {BadSock}, i \in Slots :
        /\ httpserver_connectcb(i, s)
        /\ bsd' = [bsd EXCEPT ![i] = s]
        /\ fds' = fds \cup ({s} \ {BadSock})
  BY DEF Accept
<1>2. TablesTypeOK /\ listening
  BY DEF Accept, TypeOK
<1>3. conn[i].state = "NONE" /\ bsd[i] = NoSock
  BY <1>1 DEF httpserver_connectcb, Free, SocketInv, TablesAgree
<1>4. \A j \in Slots : bsd'[j] = IF j = i THEN s ELSE bsd[j]
  BY <1>1, <1>2 DEF TablesTypeOK
<1>5. /\ conn'[i].socket = s /\ conn'[i].state = "WAIT_METHOD"
      /\ \A j \in Slots \ {i} : conn'[j] = conn[j]
  <2>1. conn[i] \in Connection
    BY <1>2, SlotType
  <2>2. /\ [conn[i] EXCEPT !.socket = s, !.state = "WAIT_METHOD"].socket = s
        /\ [conn[i] EXCEPT !.socket = s, !.state = "WAIT_METHOD"].state = "WAIT_METHOD"
    BY <2>1 DEF Connection
  <2> QED
    BY <1>1, <1>2, <2>2 DEF httpserver_connectcb, TablesTypeOK
<1>6. ring' = ring
  BY DEF Accept
<1>7. fds = ({bsd[j] : j \in Slots} \cup {ring[k] : k \in DOMAIN ring}) \cap Sockets
  BY <1>2 DEF SocketInv, DescriptorsAccounted
<1>8. TablesAgree'
  BY <1>1, <1>4, <1>5, SocketAssumption DEF SocketInv, TablesAgree
<1>9. NoSharedDescriptor'
  <2>1. s \in Sockets => s \notin {bsd[j] : j \in Slots} \cup {ring[k] : k \in DOMAIN ring}
    BY <1>1, <1>7, SocketAssumption
  <2> QED
    BY <1>4, <1>6, <2>1 DEF SocketInv, NoSharedDescriptor
<1>10. fds' = ({bsd'[j] : j \in Slots} \cup {ring'[k] : k \in DOMAIN ring'}) \cap Sockets
  <2>1. \A d \in fds' : d \in {bsd'[j] : j \in Slots} \cup {ring[k] : k \in DOMAIN ring}
                        /\ d \in Sockets
    BY <1>1, <1>3, <1>4, <1>7, SocketAssumption
  <2>2. \A d \in ({bsd'[j] : j \in Slots} \cup {ring[k] : k \in DOMAIN ring}) \cap Sockets :
          d \in fds'
    BY <1>1, <1>4, <1>7, SocketAssumption
  <2> QED
    BY <1>6, <1>7, <2>1, <2>2
<1> QED
  BY <1>8, <1>9, <1>10 DEF SocketInv, DescriptorsAccounted

\* A step that leaves the tables alone is one that keeps every slot's use.
LEMMA UnchangedKeeps ==
  ASSUME UNCHANGED <<conn, sockVars>>
  PROVE  Kept
  BY DEF Kept, SameUse

\* Every step of the loop keeps the descriptors in order.
LEMMA SocketStep ==
  ASSUME TypeOK, ChunkFits, SocketInv, [Next]_vars
  PROVE  SocketInv'
<1> USE DEF httpVars, sockVars
<1>1. CASE Tick
  <2>1. Kept \/ ClosedWith(cur)
    BY <1>1, DoHTTPSockets DEF Tick, TypeOK, SocketInv
  <2> QED
    BY <1>1, <2>1, KeptKeeps, ClosedKeeps DEF Tick, TypeOK
<1>2. CASE Parse
  <2>1. cur \in Slots
    BY <1>2 DEF Parse, ChunkFits, TypeOK
  <2>2. Kept \/ ClosedWith(cur)
    BY <1>2, <2>1, GotByteSockets DEF Parse, TypeOK, SocketInv
  <2>3. listening' = listening
    BY <1>2 DEF Parse, loopVars
  <2> QED
    BY <2>1, <2>2, <2>3, KeptKeeps, ClosedKeeps DEF TypeOK
<1>3. CASE Disconnected
  BY <1>3, DropKeeps DEF Disconnected, HasEvent, TypeOK
<1>4. CASE CorkOverflow
  BY <1>4, DropKeeps DEF CorkOverflow, Corking, ChunkFits, TypeOK
<1>5. CASE Accept
  BY <1>5, AcceptKeeps
<1>6. CASE ServerFault
  BY <1>6 DEF ServerFault, SocketInv, TablesAgree, NoSharedDescriptor, DescriptorsAccounted
<1>7. CASE Received
  <2>1. cur \in Slots
    BY <1>7 DEF Received, HasEvent, TypeOK
  <2>2. conn[cur] \in Connection
    BY <2>1, SlotType DEF TypeOK
  <2>3. SameUse(conn[cur], [conn[cur] EXCEPT !.timeout = 0])
    BY <2>2 DEF Connection, SameUse
  <2>4. Kept
    BY <1>7, <2>1, <2>3 DEF Received, Kept, SameUse, TypeOK, TablesTypeOK
  <2> QED
    BY <1>7, <2>4, KeptKeeps DEF Received, HasEvent
<1>8. CASE Poll \/ NoConnection \/ Refuse \/ NoEvent \/ Overrun \/ Exit \/ Uncork \/ Cork
           \/ LeavesTable \/ NextRound
  <2>1. UNCHANGED <<conn, sockVars, listening>>
    BY <1>8 DEF Poll, NoConnection, Refuse, NoEvent, Overrun, Exit, Uncork, Cork, LeavesTable,
                NextRound, Corking
  <2> QED
    BY <2>1, UnchangedKeeps, KeptKeeps
<1>9. CASE Terminated \/ UNCHANGED vars
  <2>1. UNCHANGED vars
    BY <1>9 DEF Terminated
  <2> QED
    BY <2>1 DEF vars, loopVars, SocketInv, TablesAgree, NoSharedDescriptor, DescriptorsAccounted
<1> QED
  BY <1>1, <1>2, <1>3, <1>4, <1>5, <1>6, <1>7, <1>8, <1>9 DEF Next

\* The empty tables agree.
LEMMA SocketInit == Init => SocketInv
<1> SUFFICES ASSUME Init PROVE SocketInv
  OBVIOUS
<1>1. \A i \in Slots : conn[i].state = "NONE" /\ bsd[i] = NoSock
  BY DEF Init, HttpInit, ZeroConnection
<1>2. \A k \in DOMAIN ring : ring[k] = NoSock
  BY DEF Init, HttpInit
<1> QED
  BY <1>1, <1>2, SocketAssumption
  DEF Init, HttpInit, SocketInv, TablesAgree, NoSharedDescriptor, DescriptorsAccounted

\* The table of connections, the table of sockets, the ring and the open
\* descriptors agree at every step, however connections come and go.
THEOREM DescriptorsInOrder ==
  Spec => [](TablesAgree /\ NoSharedDescriptor /\ DescriptorsAccounted)
<1> DEFINE Inv == TypeOK /\ ChunkFits /\ SocketInv
<1>1. Init => Inv
  BY TypeInit, SocketInit
<1>2. Inv /\ [Next]_vars => Inv'
  BY TypeStep, SocketStep
<1>3. Inv => TablesAgree /\ NoSharedDescriptor /\ DescriptorsAccounted
  BY DEF SocketInv
<1> QED
  BY <1>1, <1>2, <1>3, PTL DEF Spec

\* The two tables the loop and its callbacks each look at one of never differ.
THEOREM TablesAlwaysAgree == Spec => []TablesAgree
  BY DescriptorsInOrder, PTL

\* A descriptor is never in two places, so that closing or shutting down one
\* connection cannot reach another one's, nor one accepted later.
THEOREM DescriptorsNeverShared == Spec => []NoSharedDescriptor
  BY DescriptorsInOrder, PTL

\* Closing one connection never ends another one: only slots that share the
\* descriptor of a failed accept go together.
THEOREM OnlyCurrentConnectionEnds == Spec => OnlyCurrentEnds
<1> DEFINE Inv == TypeOK /\ ChunkFits /\ SocketInv
           Ends == \A i \in Slots :
                     conn[i].state # "NONE" /\ conn'[i].state = "NONE"
                       => i = cur \/ conn[i].socket = BadSock
<1>1. Init => Inv
  BY TypeInit, SocketInit
<1>2. Inv /\ [Next]_vars => Inv'
  BY TypeStep, SocketStep
<1>3. Inv /\ [Next]_vars => [Ends]_vars
  <2> SUFFICES ASSUME Inv, Next, NEW i \in Slots,
                      conn[i].state # "NONE", conn'[i].state = "NONE"
               PROVE  i = cur \/ conn[i].socket = BadSock
    BY DEF vars, httpVars
  <2>1. ASSUME Kept \/ UNCHANGED conn PROVE FALSE
    BY <2>1 DEF Kept, SameUse
  <2>2. ASSUME ClosedWith(cur), cur \in Slots PROVE i = cur \/ conn[i].socket = BadSock
    <3>1. bsd[i] = conn[i].socket /\ bsd[cur] = conn[cur].socket
      BY <2>2 DEF ClosedWith, SocketInv, TablesAgree
    <3>2. bsd[i] = bsd[cur] /\ bsd[i] # NoSock
      BY <2>2, <3>1 DEF ClosedWith, SocketInv, TablesAgree
    <3> QED
      BY <2>2, <3>1, <3>2 DEF SocketInv, NoSharedDescriptor, TypeOK, TablesTypeOK
  <2>3. CASE Tick
    BY <2>1, <2>2, <2>3, DoHTTPSockets DEF Tick, TypeOK, SocketInv
  <2>4. CASE Parse
    <3>1. cur \in Slots
      BY <2>4 DEF Parse, ChunkFits, TypeOK
    <3> QED
      BY <2>1, <2>2, <2>4, <3>1, GotByteSockets DEF Parse, TypeOK, SocketInv
  <2>5. CASE Disconnected \/ CorkOverflow
    <3>1. \A j \in Slots \ {cur} : conn'[j] = conn[j]
      BY <2>5 DEF Disconnected, CorkOverflow, Drop, http_disconnetcb
    <3> QED
      BY <3>1
  <2>6. CASE Accept
    <3>1. PICK s \in Sockets \cup {BadSock}, j \in Slots :
            conn' = [conn EXCEPT ![j].socket = s, ![j].state = "WAIT_METHOD"]
      BY <2>6 DEF Accept, httpserver_connectcb
    <3>2. conn[j] \in Connection
      BY SlotType DEF TypeOK
    <3>3. conn'[j].state = "WAIT_METHOD" /\ \A k \in Slots \ {j} : conn'[k] = conn[k]
      BY <3>1, <3>2 DEF TypeOK, TablesTypeOK, Connection
    <3> QED
      BY <3>3
  <2>7. CASE Received
    <3>1. \A j \in Slots \ {cur} : conn'[j] = conn[j]
      BY <2>7 DEF Received, HasEvent, TypeOK, TablesTypeOK
    <3> QED
      BY <3>1
  <2>8. CASE ServerFault \/ Poll \/ NoConnection \/ Refuse \/ NoEvent \/ Overrun \/ Exit
             \/ Uncork \/ Cork \/ LeavesTable \/ NextRound \/ Terminated
    <3>1. UNCHANGED conn
      BY <2>8 DEF ServerFault, Poll, NoConnection, Refuse, NoEvent, Overrun, Exit, Uncork,
                  Cork, LeavesTable, NextRound, Terminated, vars, httpVars
    <3> QED
      BY <2>1, <3>1
  <2> QED
    BY <2>3, <2>4, <2>5, <2>6, <2>7, <2>8 DEF Next
<1> QED
  BY <1>1, <1>2, <1>3, PTL DEF Spec, OnlyCurrentEnds
=============================================================================
