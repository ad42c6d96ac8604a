--------------------------- MODULE HTTPWireProofs ---------------------------
(***************************************************************************)
(* Proofs about HTTPBSD for every value of its constants: the server keeps *)
(* the promise of HTTPWire to the client of every slot, no open file is    *)
(* lost, and state_deets fits each of its uses.                            *)
(***************************************************************************)
EXTENDS HTTPProofs

-----------------------------------------------------------------------------
(* What holds of a record of the table besides its type.  A slot that a    *)
(* failed accept filled never gets past WAIT_METHOD, and what will be      *)
(* closed after its answer does not keep the connection alive.             *)

Static(h) == h.state = "DATA_XFER" /\ ~h.is_dynamic

RecordOK(h) ==
  /\ h.state = "WAIT_PATH" => h.state_deets < MAX_HTTP_PATHLEN
  /\ h.state = "DATA_WEBSOCKET" => h.state_deets <= 5
  /\ h.state = "DATA_WEBSOCKET" /\ h.state_deets = 5 => ~h.keep_alive
  /\ h.state = "DATA_XFER" /\ h.is_dynamic /\ h.rcb \in {"echo", "issue"} => ~h.keep_alive
  /\ h.state \notin {"NONE", "WAIT_METHOD"} => h.socket # BadSock

RecordsOK == \A i \in Slots : RecordOK(conn[i])

\* The slot that is parsed is not one of a failed accept, and once a frame
\* did not fit its chunk the connection is closing.
ParsedOK ==
  pc = "parse" => /\ conn[cur].state # "NONE" => conn[cur].socket # BadSock
                  /\ cork_binary_rx => PhaseOf(conn[cur]) \in {"closed", "closing"}

WireInv == RecordsOK /\ ParsedOK /\ FilesHeld

-----------------------------------------------------------------------------
(* One connection's record, from one step of its handlers to the next.     *)

\* The phase and what is left move the way HTTPWire allows, h after g, when
\* the files in S are intact.
Moves(g, h, S) ==
  LET p == PhaseOf(g)
      q == PhaseOf(h)
  IN \/ p = q /\ p \notin {"closed", "closing", "header", "body"}
     \/ p = "request"  /\ q = "header" /\ LeftOf(h, S) \in {Spoilt} \cup 0 .. MaxFile
     \/ p = "request"  /\ q \in {"404", "app", "upgrade"}
     \/ p = "header"   /\ q = "body" /\ LeftOf(h, S) = LeftOf(g, S)
     \/ p = "body"     /\ q = "body" /\ LeftOf(g, S) > 2 /\ LeftOf(h, S) = LeftOf(g, S) - 2
     \/ p = "body"     /\ q = "body" /\ LeftOf(g, S) = Spoilt /\ LeftOf(h, S) = Spoilt
     \/ p = "body"     /\ q = "sent" /\ LeftOf(g, S) \in {Spoilt} \cup 0 .. 2
     \/ p = "404"      /\ q = "sent"
     \/ p = "app"      /\ q = "closing"
     \/ p = "upgrade"  /\ q \in {"accepted", "closing", "again"}
     \/ p = "accepted" /\ q = "socket"
     \/ p = "socket"   /\ q = "closing"
     \/ p = "again"    /\ q = "request"

\* A handler has put h in the place of g.
Turned(g, h, S) ==
  /\ h \in Connection /\ h.socket = g.socket
  /\ g.state # "NONE" /\ h.state # "NONE"
  /\ RecordOK(h)
  /\ Static(g) => Static(h) /\ h.file = g.file
  /\ Moves(g, h, S)

\* What other transfers read stays what it was.
FilesKept ==
  \A j \in Slots : Static(conn[j]) => (conn[j].file \in intact' <=> conn[j].file \in intact)

\* Slot i goes on with its exchange, and the file it may have opened is its own.
Turns(i) ==
  \E h \in Connection :
    /\ Turned(conn[i], h, intact')
    /\ conn' = [conn EXCEPT ![i] = h]
    /\ streams' = streams \/ (Static(h) /\ streams' = streams \cup {h.file})
    /\ FilesKept

\* Slot i is closed at the end of its exchange, or before one began.
Hangs(i) ==
  \E h \in Connection :
    /\ HTTPClose(i, h)
    /\ conn[i].state # "NONE" /\ PhaseOf(conn[i]) \in {"request", "sent", "closing"}
    /\ h.socket = conn[i].socket /\ h.is_dynamic = conn[i].is_dynamic /\ h.file = conn[i].file

\* The phase of a record, by its fields.
LEMMA PhaseFields ==
  ASSUME NEW h \in Connection
  PROVE  /\ h.state = "NONE" => PhaseOf(h) = "closed"
         /\ h.state \in RequestStates => PhaseOf(h) = "request"
         /\ h.state = "WAIT_CLOSE" /\ h.keep_alive => PhaseOf(h) = "again"
         /\ h.state = "WAIT_CLOSE" /\ ~h.keep_alive => PhaseOf(h) = "closing"
         /\ h.state = "DATA_WEBSOCKET" /\ h.state_deets < 4 => PhaseOf(h) = "upgrade"
         /\ h.state = "DATA_WEBSOCKET" /\ h.state_deets = 4 => PhaseOf(h) = "accepted"
         /\ h.state = "DATA_WEBSOCKET" /\ h.state_deets > 4 => PhaseOf(h) = "socket"
         /\ h.state = "DATA_XFER" /\ h.is_dynamic => PhaseOf(h) = "app"
         /\ Static(h) /\ h.isdone => PhaseOf(h) = "sent"
         /\ Static(h) /\ ~h.isdone /\ h.is404 => PhaseOf(h) = "404"
         /\ Static(h) /\ ~h.isdone /\ ~h.is404 /\ h.isfirst => PhaseOf(h) = "header"
         /\ Static(h) /\ ~h.isdone /\ ~h.is404 /\ ~h.isfirst => PhaseOf(h) = "body"
<1>1. h.state_deets \in Nat
  BY DEF Connection
<1> QED
  BY <1>1 DEF PhaseOf, Static, RequestStates

\* Only a slot out of use is closed, and only the transfer of a file has a
\* header and a body.
LEMMA PhaseStates ==
  ASSUME NEW h \in Connection
  PROVE  /\ h.state # "NONE" => PhaseOf(h) # "closed"
         /\ PhaseOf(h) \in {"header", "body"} => Static(h)
<1>1. /\ h.state \in ConnStates /\ h.state_deets \in Nat
  BY DEF Connection
<1>2. CASE h.state \in RequestStates \cup {"NONE", "WAIT_CLOSE", "DATA_WEBSOCKET"}
  BY <1>1, <1>2, PhaseFields
<1>3. CASE h.state = "DATA_XFER"
  BY <1>3, PhaseFields DEF Static
<1> QED
  BY <1>1, <1>2, <1>3 DEF ConnStates

\* What is left to send of a record's file.
LEMMA LeftOfFile ==
  ASSUME NEW h \in Connection, NEW S
  PROVE  /\ PhaseOf(h) \in {"header", "body"} =>
              LeftOf(h, S) = IF h.file \in S THEN h.bytesleft ELSE Spoilt
         /\ PhaseOf(h) \notin {"header", "body"} => LeftOf(h, S) = 0
         /\ LeftOf(h, S) \in Int
<1>1. NoLength \in Nat
  BY TableAssumption DEF NoLength
<1>2. h.bytesleft \in Int
  <2>1. h.bytesleft \in 0 .. NoLength
    BY FieldRanges
  <2> QED
    BY <1>1, <2>1
<1> QED
  BY <1>2 DEF LeftOf, Spoilt

\* A record with the same transfer in the same phase.
LEMMA UpdateTurns ==
  ASSUME NEW i, NEW h, Update(i, h), Turned(conn[i], h, intact')
  PROVE  Turns(i)
  BY DEF Update, Turns, Turned, fileVars, FilesKept

\* The request is parsed: nothing of it shows on the wire.
LEMMA RequestTurned ==
  ASSUME NEW g \in Connection, NEW h \in Connection, NEW S,
         g.state \in RequestStates, h.state \in RequestStates,
         h.socket = g.socket,
         h.state = "WAIT_PATH" => h.state_deets < MAX_HTTP_PATHLEN,
         h.state # "WAIT_METHOD" => g.socket # BadSock
  PROVE  Turned(g, h, S)
  BY PhaseFields DEF Turned, RecordOK, Static, Moves, RequestStates

\* A request for a file, or for a file that is missing.
LEMMA AskedTurned ==
  ASSUME NEW g \in Connection, NEW h \in Connection, NEW S, g.state \in RequestStates,
         h.state = "DATA_XFER", ~h.is_dynamic, ~h.isdone, h.socket = g.socket,
         g.socket # BadSock,
         h.is404 \/ (h.isfirst /\ LeftOf(h, S) \in {Spoilt} \cup 0 .. MaxFile)
  PROVE  Turned(g, h, S)
BY PhaseFields DEF Turned, RecordOK, Static, Moves, RequestStates

\* A request for the application.
LEMMA DynamicTurned ==
  ASSUME NEW g \in Connection, NEW h \in Connection, NEW S, g.state \in RequestStates,
         h.state = "DATA_XFER", h.is_dynamic, h.socket = g.socket, g.socket # BadSock,
         h.rcb \in {"echo", "issue"} => ~h.keep_alive
  PROVE  Turned(g, h, S)
BY PhaseFields DEF Turned, RecordOK, Static, Moves, RequestStates

\* Starting a response.
LEMMA StartTurns ==
  ASSUME TablesTypeOK, NEW i \in Slots, InternalStartHTTP(i),
         conn[i].state = "WAIT_FLAG", conn[i].socket # BadSock
  PROVE  Turns(i)
<1>1. conn[i] \in Connection /\ conn[i].state \in RequestStates
  BY SlotType DEF RequestStates
<1>2. CASE StartFile(i)
  <2>1. PICK f \in Streams \ streams, n \in FileLengths, stays \in BOOLEAN :
          /\ stays => n <= MaxFile /\ ~ReadByOther(f)
          /\ conn' = [conn EXCEPT ![i] =
                        [Started(@) EXCEPT !.is404 = FALSE, !.is_dynamic = FALSE,
                                           !.file = f, !.bytesleft = n]]
          /\ streams' = streams \cup {f}
          /\ intact' = IF stays THEN intact \cup {f} ELSE intact
    BY <1>2 DEF StartFile
  <2> DEFINE h == [Started(conn[i]) EXCEPT !.is404 = FALSE, !.is_dynamic = FALSE,
                                           !.file = f, !.bytesleft = n]
  <2>2. n \in 0 .. NoLength /\ n \in Nat /\ MaxFile \in Nat
    BY TableAssumption DEF NoLength
  <2>3. /\ h \in Connection
        /\ h.state = "DATA_XFER" /\ ~h.is_dynamic /\ ~h.isdone /\ h.isfirst /\ ~h.is404
        /\ h.file = f /\ h.bytesleft = n /\ h.socket = conn[i].socket
    BY <1>1, <2>2 DEF Connection, Started, ConnStates
  <2>4. conn' = [conn EXCEPT ![i] = h]
    BY <2>1 DEF TablesTypeOK
  <2> HIDE DEF h
  <2>5. f \in intact' <=> stays
    BY <2>1 DEF TablesTypeOK
  <2>6. FilesKept
    BY <2>1 DEF FilesKept, Static, ReadByOther
  <2>7. PhaseOf(h) = "header"
    BY <2>3, PhaseFields DEF Static
  <2>8. LeftOf(h, intact') = IF stays THEN n ELSE Spoilt
    BY <2>3, <2>5, <2>7, LeftOfFile
  <2>9. LeftOf(h, intact') \in {Spoilt} \cup 0 .. MaxFile
    BY <2>1, <2>2, <2>8
  <2>10. Turned(conn[i], h, intact')
    BY <1>1, <2>3, <2>9, AskedTurned
  <2> QED
    BY <2>1, <2>3, <2>4, <2>6, <2>10 DEF Turns, Static
<1>3. CASE StartMissing(i)
  <2> DEFINE h == [Started(conn[i]) EXCEPT !.is404 = TRUE, !.is_dynamic = FALSE,
                                           !.file = NoStream]
  <2>1. /\ h \in Connection
        /\ h.state = "DATA_XFER" /\ ~h.is_dynamic /\ ~h.isdone /\ h.is404
        /\ h.socket = conn[i].socket
    BY <1>1 DEF Connection, Started, ConnStates
  <2>2. Update(i, h)
    BY <1>3 DEF StartMissing
  <2> HIDE DEF h
  <2> QED
    BY <1>1, <2>1, <2>2, AskedTurned, UpdateTurns
<1>4. CASE StartDynamic(i)
  <2>1. ASSUME NEW cb \in {"", "huge", "echo", "issue"}, NEW n \in {0, NoLength},
               cb \in {"echo", "issue"} => n = NoLength, HTTPCustomStart(i, cb, n)
        PROVE  Turns(i)
    <3> DEFINE k == n # NoLength
               h == [Started(conn[i]) EXCEPT !.is404 = FALSE, !.is_dynamic = TRUE,
                       !.isfirst = FALSE, !.rcb = cb, !.bytesleft = n, !.keep_alive = k]
    <3>1. k \in BOOLEAN /\ (cb \in {"echo", "issue"} => ~k)
      BY <2>1
    <3> HIDE DEF k
    <3>2. n \in 0 .. NoLength
      BY Lengths
    <3>3. h \in Connection
      BY <1>1, <3>1, <3>2 DEF Connection, Started, ConnStates
    <3>4. h.state = "DATA_XFER" /\ h.is_dynamic /\ h.socket = conn[i].socket
      BY <1>1 DEF Connection, Started
    <3>5. h.rcb = cb /\ (k \/ ~h.keep_alive)
      BY <1>1, <3>1 DEF Connection, Started
    <3>6. Update(i, h)
      BY <2>1 DEF HTTPCustomStart, k
    <3> HIDE DEF h
    <3> QED
      BY <1>1, <3>1, <3>3, <3>4, <3>5, <3>6, DynamicTurned, UpdateTurns
  <2> QED
    BY <1>4, <2>1 DEF StartDynamic
<1> QED
  BY <1>2, <1>3, <1>4 DEF InternalStartHTTP

\* The end of an exchange: the slot takes another request or is closed.
LEMMA CloseOrKeepAliveTurns ==
  ASSUME TablesTypeOK, RecordsOK, NEW i \in Slots, CloseOrKeepAlive(i),
         conn[i].state = "WAIT_CLOSE"
  PROVE  Turns(i) \/ Hangs(i)
<1>1. conn[i] \in Connection /\ RecordOK(conn[i])
  BY SlotType DEF RecordsOK
<1>2. CASE conn[i].keep_alive
  <2> DEFINE h == [conn[i] EXCEPT !.state = "WAIT_METHOD"]
  <2>1. h \in Connection /\ h.state = "WAIT_METHOD" /\ h.socket = conn[i].socket
    BY <1>1 DEF Connection, ConnStates, RequestStates
  <2>2. Update(i, h)
    BY <1>2 DEF CloseOrKeepAlive
  <2> HIDE DEF h
  <2>3. Turned(conn[i], h, intact')
    BY <1>1, <1>2, <2>1, PhaseFields DEF Turned, RecordOK, Static, Moves, RequestStates
  <2> QED
    BY <2>2, <2>3, UpdateTurns
<1>3. CASE ~conn[i].keep_alive
  <2>1. PhaseOf(conn[i]) = "closing"
    BY <1>1, <1>3, PhaseFields
  <2> QED
    BY <1>1, <1>3, <2>1 DEF CloseOrKeepAlive, Hangs
<1> QED
  BY <1>2, <1>3

\* A received byte that the request parser takes.
LEMMA PlainByteTurns ==
  ASSUME TablesTypeOK, RecordsOK, NEW i \in Slots, NEW c, GotPlainByte(i, c),
         conn[i].state # "NONE" => conn[i].socket # BadSock
  PROVE  Skip \/ Turns(i) \/ Hangs(i)
<1> DEFINE g == conn[i]
<1>1. g \in Connection /\ RecordOK(g) /\ g.state_deets \in Nat
  BY SlotType, FieldRanges DEF RecordsOK
<1> HIDE DEF g
<1>2. CASE GotMethod(i, c)
  <2> DEFINE h == [g EXCEPT !.state = "WAIT_PATH", !.state_deets = 0]
  <2>1. h \in Connection /\ h.state = "WAIT_PATH" /\ h.state_deets = 0 /\ h.socket = g.socket
    BY <1>1 DEF Connection, ConnStates, RequestStates
  <2>2. Skip \/ Update(i, h)
    BY <1>2 DEF GotMethod, g
  <2>3. g.state = "WAIT_METHOD" /\ g.socket # BadSock
    BY <1>2 DEF GotMethod, g
  <2> HIDE DEF h
  <2>4. Turned(g, h, intact')
    BY <1>1, <2>1, <2>3, TableAssumption, RequestTurned DEF RequestStates
  <2> QED
    BY <2>2, <2>4, UpdateTurns DEF g
<1>3. CASE GotPath(i, c)
  <2>1. g.state = "WAIT_PATH" /\ g.socket # BadSock /\ g.state_deets < MAX_HTTP_PATHLEN
    BY <1>1, <1>3 DEF GotPath, RecordOK, g
  <2>2. CASE c # "sp"
    <3> DEFINE d == IF g.state_deets + 1 = MAX_HTTP_PATHLEN THEN MAX_HTTP_PATHLEN - 1
                                                            ELSE g.state_deets + 1
               h == [g EXCEPT !.state_deets = d]
    <3>1. d \in Nat /\ d < MAX_HTTP_PATHLEN
      BY <1>1, <2>1, TableAssumption
    <3>2. Update(i, h)
      BY <1>3, <2>2 DEF GotPath, g
    <3> HIDE DEF d
    <3>3. h \in Connection /\ h.state = g.state /\ h.state_deets = d /\ h.socket = g.socket
      BY <1>1, <3>1 DEF Connection
    <3> HIDE DEF h
    <3>4. Turned(g, h, intact')
      BY <1>1, <2>1, <3>1, <3>3, RequestTurned DEF RequestStates
    <3> QED
      BY <3>2, <3>4, UpdateTurns DEF g
  <2>3. CASE c = "sp"
    <3> DEFINE h(p, s) == [g EXCEPT !.path = p, !.state_deets = 0, !.state = s]
    <3>1. PICK p \in PathKinds, s \in {"DATA_WEBSOCKET", "WAIT_PROTO"} : Update(i, h(p, s))
      BY <1>3, <2>3 DEF GotPath, g
    <3>2. /\ h(p, s) \in Connection /\ h(p, s).state = s
          /\ h(p, s).state_deets = 0 /\ h(p, s).socket = g.socket
      BY <1>1 DEF Connection, ConnStates, RequestStates
    <3> HIDE DEF h
    <3>3. Turned(g, h(p, s), intact')
      <4>1. CASE s = "WAIT_PROTO"
        BY <1>1, <2>1, <3>2, <4>1, RequestTurned DEF RequestStates
      <4>2. CASE s = "DATA_WEBSOCKET"
        <5>1. PhaseOf(g) = "request" /\ PhaseOf(h(p, s)) = "upgrade"
          BY <1>1, <2>1, <3>2, <4>2, PhaseFields DEF RequestStates
        <5> QED
          BY <2>1, <3>2, <4>2, <5>1 DEF Turned, RecordOK, Static, Moves
      <4> QED
        BY <4>1, <4>2
    <3> QED
      BY <3>1, <3>3, UpdateTurns DEF g
  <2> QED
    BY <2>2, <2>3
<1>4. ASSUME g.state \in RequestStates, g.socket # BadSock,
             NEW s \in RequestStates \ {"WAIT_PATH"}, Goto(i, s)
      PROVE  Turns(i)
  <2> DEFINE h == [g EXCEPT !.state = s]
  <2>1. h \in Connection /\ h.state = s /\ h.socket = g.socket
    BY <1>1 DEF Connection, ConnStates
  <2>2. Update(i, h)
    BY <1>4 DEF Goto, g
  <2> HIDE DEF h
  <2>3. Turned(g, h, intact')
    BY <1>1, <1>4, <2>1, RequestTurned
  <2> QED
    BY <2>2, <2>3, UpdateTurns DEF g
<1>5. CASE GotProto(i, c)
  BY <1>4, <1>5 DEF GotProto, g, RequestStates
<1>6. CASE GotFlag(i, c)
  BY <1>4, <1>6, StartTurns DEF GotFlag, g, RequestStates
<1>7. CASE GotInFlag(i, c)
  <2> DEFINE h == [g EXCEPT !.state = "WAIT_FLAG", !.state_deets = 0]
  <2>1. h \in Connection /\ h.state = "WAIT_FLAG" /\ h.socket = g.socket
    BY <1>1 DEF Connection, ConnStates, RequestStates
  <2>2. Skip \/ Update(i, h)
    BY <1>7 DEF GotInFlag, g
  <2>3. g.state = "WAIT_INFLAG" /\ g.socket # BadSock
    BY <1>7 DEF GotInFlag, g
  <2> HIDE DEF h
  <2>4. Turned(g, h, intact')
    BY <1>1, <2>1, <2>3, RequestTurned DEF RequestStates
  <2> QED
    BY <2>2, <2>4, UpdateTurns DEF g
<1>8. CASE GotWhileClosing(i)
  BY <1>8, CloseOrKeepAliveTurns DEF GotWhileClosing
<1>9. CASE GotNothing(i)
  BY <1>9 DEF GotNothing
<1> QED
  BY <1>2, <1>3, <1>5, <1>6, <1>7, <1>8, <1>9 DEF GotPlainByte

\* The websocket handlers move the stage, or ask for the close.
LEMMA SocketTurned ==
  ASSUME NEW g \in Connection, NEW h \in Connection, NEW S, RecordOK(g),
         g.state = "DATA_WEBSOCKET", h.socket = g.socket,
         \/ h.state = "DATA_WEBSOCKET" /\ g.state_deets < 4 /\ h.state_deets \in 1 .. 4
         \/ h.state = "DATA_WEBSOCKET" /\ g.state_deets = 4 /\ h.state_deets = 4
         \/ h.state = "DATA_WEBSOCKET" /\ g.state_deets = 4 /\ h.state_deets = 5 /\ ~h.keep_alive
         \/ h.state = "WAIT_CLOSE" /\ g.state_deets < 4
         \/ h.state = "WAIT_CLOSE" /\ g.state_deets = 5 /\ ~h.keep_alive
  PROVE  Turned(g, h, S)
<1>1. g.state_deets \in Nat /\ h.state_deets \in Nat
  BY DEF Connection
<1>3. RecordOK(h) /\ ~Static(g) /\ h.state # "NONE" /\ g.state # "NONE"
  BY <1>1 DEF RecordOK, Static
<1>4. Moves(g, h, S)
  BY <1>1, PhaseFields DEF Moves
<1> QED
  BY <1>3, <1>4 DEF Turned

\* A frame that cannot be taken closes the connection for good.
LEMMA FrameCloses ==
  ASSUME TablesTypeOK, RecordsOK, NEW i \in Slots, Goto(i, "WAIT_CLOSE"),
         conn[i].state = "DATA_WEBSOCKET", conn[i].state_deets = 5
  PROVE  Turns(i) /\ PhaseOf(conn'[i]) = "closing"
<1> DEFINE h == [conn[i] EXCEPT !.state = "WAIT_CLOSE"]
<1>1. conn[i] \in Connection /\ RecordOK(conn[i]) /\ ~conn[i].keep_alive
  BY SlotType DEF RecordsOK, RecordOK
<1>2. h \in Connection /\ h.state = "WAIT_CLOSE" /\ h.socket = conn[i].socket
  BY <1>1 DEF Connection, ConnStates
<1>3. ~h.keep_alive
  BY <1>1 DEF Connection
<1>4. Update(i, h)
  BY DEF Goto
<1> HIDE DEF h
<1>5. Turned(conn[i], h, intact')
  BY <1>1, <1>2, <1>3, SocketTurned
<1>6. conn'[i] = h
  BY <1>4 DEF Update, TablesTypeOK
<1> QED
  BY <1>2, <1>3, <1>4, <1>5, <1>6, UpdateTurns, PhaseFields

\* A received byte that WebSocketGotData takes.
LEMMA WebSocketTurns ==
  ASSUME TablesTypeOK, RecordsOK, NEW i \in Slots, NEW c, WebSocketGotData(i, c)
  PROVE  /\ Skip \/ Turns(i)
         /\ cork_binary_rx' = cork_binary_rx \/ PhaseOf(conn'[i]) = "closing"
<1> DEFINE g == conn[i]
<1>1. g \in Connection /\ RecordOK(g) /\ g.state_deets \in Nat /\ g.state = "DATA_WEBSOCKET"
  BY SlotType, FieldRanges DEF RecordsOK, WebSocketGotData
<1> HIDE DEF g
<1>2. CASE WebSocketKey(i)
  <2> DEFINE k == [g EXCEPT !.is_dynamic = TRUE]
             n == [NewWebSocket(k) EXCEPT !.state_deets = 1, !.bytesleft = 0]
             w == [k EXCEPT !.state = "WAIT_CLOSE"]
  <2>1. g.state_deets = 0 /\ cork_binary_rx' = cork_binary_rx /\ (Update(i, w) \/ Update(i, n))
    BY <1>2 DEF WebSocketKey, g
  <2>2. k \in Connection /\ k.state = "DATA_WEBSOCKET" /\ k.socket = g.socket
    BY <1>1 DEF Connection
  <2> HIDE DEF k
  <2>3. w \in Connection /\ w.state = "WAIT_CLOSE" /\ w.socket = g.socket
    BY <2>2 DEF Connection, ConnStates
  <2>4. /\ NewWebSocket(k) \in Connection
        /\ NewWebSocket(k).state = "DATA_WEBSOCKET" /\ NewWebSocket(k).socket = g.socket
    <3>1. CASE k.path = "/d/ws/echo"
      BY <2>2, <3>1 DEF Connection, NewWebSocket
    <3>2. CASE k.path = "/d/ws/issue"
      BY <2>2, <3>2 DEF Connection, NewWebSocket
    <3>3. CASE k.path \notin {"/d/ws/echo", "/d/ws/issue"}
      <4>1. NewWebSocket(k) = [k EXCEPT !.is404 = TRUE]
        BY <3>3 DEF NewWebSocket
      <4> QED
        BY <2>2, <4>1 DEF Connection
    <3> QED
      BY <3>1, <3>2, <3>3
  <2>5. n \in Connection /\ n.state = "DATA_WEBSOCKET" /\ n.state_deets = 1 /\ n.socket = g.socket
    BY <2>4, Lengths DEF Connection
  <2> HIDE DEF n, w
  <2> QED
    BY <1>1, <2>1, <2>3, <2>5, SocketTurned, UpdateTurns DEF g
<1>3. CASE WebSocketHeader(i, c)
  <2> DEFINE h(d) == [g EXCEPT !.state_deets = d]
  <2>1. PICK d \in 1 .. 4 : (g.state_deets = 4 => d = 4) /\ Update(i, h(d))
    BY <1>3 DEF WebSocketHeader, g
  <2>2. g.state_deets \in 1 .. 4 /\ cork_binary_rx' = cork_binary_rx
    BY <1>3 DEF WebSocketHeader, g
  <2>3. d \in Nat
    BY <2>1
  <2>4. /\ h(d) \in Connection /\ h(d).state = "DATA_WEBSOCKET"
        /\ h(d).state_deets = d /\ h(d).socket = g.socket
    BY <1>1, <2>3 DEF Connection
  <2> HIDE DEF h
  <2>5. Turned(g, h(d), intact')
    BY <1>1, <2>1, <2>2, <2>4, SocketTurned
  <2> QED
    BY <2>1, <2>2, <2>5, UpdateTurns DEF g
<1>4. CASE WebSocketFrame(i)
  <2>1. \/ Skip /\ cork_binary_rx' = cork_binary_rx
        \/ Goto(i, "WAIT_CLOSE")
    BY <1>4 DEF WebSocketFrame, FramePayload
  <2>2. g.state_deets = 5
    BY <1>4 DEF WebSocketFrame, g
  <2> QED
    BY <1>1, <2>1, <2>2, FrameCloses DEF g
<1> QED
  BY <1>2, <1>3, <1>4 DEF WebSocketGotData

\* A received byte.
LEMMA GotByteTurns ==
  ASSUME TablesTypeOK, RecordsOK, NEW i \in Slots, NEW c, HTTPGotByte(i, c),
         conn[i].state # "NONE" => conn[i].socket # BadSock
  PROVE  /\ Skip \/ Turns(i) \/ Hangs(i)
         /\ cork_binary_rx' = cork_binary_rx \/ PhaseOf(conn'[i]) = "closing"
<1>1. CASE GotPlainByte(i, c)
  BY <1>1, PlainByteTurns DEF GotPlainByte
<1>2. CASE GotDuringTransfer(i)
  BY <1>2 DEF GotDuringTransfer
<1>3. CASE WebSocketGotData(i, c)
  BY <1>3, WebSocketTurns
<1> QED
  BY <1>1, <1>2, <1>3 DEF HTTPGotByte

\* The application's callback sends its answer and asks for the close.
LEMMA CallbackTurns ==
  ASSUME TablesTypeOK, RecordsOK, NEW i \in Slots, RunCallback(i),
         \/ conn[i].state = "DATA_XFER" /\ conn[i].is_dynamic
         \/ conn[i].state = "DATA_WEBSOCKET" /\ conn[i].state_deets = 5 /\ conn[i].rcb # ""
  PROVE  Skip \/ Turns(i)
<1> DEFINE g == conn[i]
<1>1. g \in Connection /\ RecordOK(g) /\ g.rcb \in {"", "huge", "echo", "issue"}
  BY SlotType, FieldRanges DEF RecordsOK
<1>2. \/ g.state = "DATA_XFER" /\ g.is_dynamic
      \/ g.state = "DATA_WEBSOCKET" /\ g.state_deets = 5 /\ g.rcb # ""
  OBVIOUS
<1> HIDE DEF g
<1>3. CASE g.rcb \in {"echo", "issue"}
  <2> DEFINE h == [g EXCEPT !.state = "WAIT_CLOSE"]
  <2>1. ~g.keep_alive
    BY <1>1, <1>2, <1>3 DEF RecordOK
  <2>2. h \in Connection /\ h.state = "WAIT_CLOSE" /\ h.socket = g.socket
    BY <1>1 DEF Connection, ConnStates
  <2>3. ~h.keep_alive
    BY <1>1, <2>1 DEF Connection
  <2>4. Update(i, h)
    BY <1>3 DEF RunCallback, Goto, g
  <2> HIDE DEF h
  <2>5. Turned(g, h, intact')
    <3>1. CASE g.state = "DATA_XFER" /\ g.is_dynamic
      BY <1>1, <2>2, <2>3, <3>1, PhaseFields DEF Turned, RecordOK, Static, Moves
    <3>2. CASE g.state = "DATA_WEBSOCKET" /\ g.state_deets = 5
      BY <1>1, <2>2, <2>3, <3>2, SocketTurned
    <3> QED
      BY <1>2, <3>1, <3>2
  <2> QED
    BY <2>4, <2>5, UpdateTurns DEF g
<1>4. CASE g.rcb = "huge"
  BY <1>4 DEF RunCallback, g
<1>5. CASE g.rcb = ""
  <2> DEFINE h == [g EXCEPT !.isdone = TRUE]
  <2>1. /\ h \in Connection /\ h.state = g.state /\ h.socket = g.socket
        /\ h.rcb = g.rcb /\ (h.is_dynamic <=> g.is_dynamic)
    BY <1>1 DEF Connection
  <2>2. Update(i, h)
    BY <1>5 DEF RunCallback, g
  <2> HIDE DEF h
  <2>3. Turned(g, h, intact')
    BY <1>1, <1>2, <1>5, <2>1, PhaseFields DEF Turned, RecordOK, Static, Moves
  <2> QED
    BY <2>2, <2>3, UpdateTurns DEF g
<1> QED
  BY <1>1, <1>3, <1>4, <1>5

\* A transfer of a file or a 404 goes on, or has reached its end.
LEMMA TransferTurns ==
  ASSUME TablesTypeOK, RecordsOK, NEW i \in Slots, HTTPHandleInternalCallback(i),
         Static(conn[i])
  PROVE  Turns(i) \/ Hangs(i)
<1> DEFINE g == conn[i]
<1>1. /\ g \in Connection /\ RecordOK(g) /\ Static(g)
      /\ NoLength \in Nat /\ g.bytesleft \in 0 .. NoLength
  <2>1. g \in Connection /\ RecordOK(g)
    BY SlotType DEF RecordsOK
  <2>2. NoLength \in Nat
    BY TableAssumption DEF NoLength
  <2> QED
    BY <2>1, <2>2, FieldRanges
<1> HIDE DEF g
<1>2. ASSUME NEW h \in Connection, h.state = g.state, h.socket = g.socket, h.file = g.file,
             ~h.is_dynamic, Moves(g, h, intact')
      PROVE  Turned(g, h, intact')
  BY <1>1, <1>2 DEF Turned, Static, RecordOK
<1>3. CASE FinishFile(i)
  BY <1>1, <1>3, PhaseFields DEF FinishFile, Hangs, g, Static
<1>4. CASE Send404(i)
  <2> DEFINE h == [g EXCEPT !.isdone = TRUE]
  <2>1. /\ h \in Connection /\ h.state = g.state /\ h.socket = g.socket /\ h.file = g.file
        /\ ~h.is_dynamic /\ h.isdone
    BY <1>1 DEF Connection, Static
  <2>2. Update(i, h) /\ ~g.isdone /\ g.is404
    BY <1>4 DEF Send404, g
  <2> HIDE DEF h
  <2>3. Moves(g, h, intact')
    BY <1>1, <2>1, <2>2, PhaseFields DEF Moves, Static
  <2> QED
    BY <1>2, <2>1, <2>2, <2>3, UpdateTurns DEF g
<1>5. CASE SendHeader(i)
  <2> DEFINE k == g.bytesleft # NoLength
             h == [g EXCEPT !.isfirst = FALSE, !.keep_alive = k]
  <2>1. k \in BOOLEAN
    OBVIOUS
  <2>2. Update(i, h) /\ ~g.isdone /\ ~g.is404 /\ g.isfirst
    BY <1>5 DEF SendHeader, g
  <2> HIDE DEF k
  <2>3. /\ h \in Connection /\ h.state = g.state /\ h.socket = g.socket /\ h.file = g.file
        /\ h.bytesleft = g.bytesleft
    BY <1>1, <2>1 DEF Connection
  <2>4. ~h.is_dynamic /\ ~h.isdone /\ ~h.is404 /\ ~h.isfirst
    BY <1>1, <2>2 DEF Connection, Static
  <2> HIDE DEF h
  <2>5. Moves(g, h, intact')
    <3>1. PhaseOf(g) = "header" /\ PhaseOf(h) = "body"
      BY <1>1, <2>2, <2>3, <2>4, PhaseFields DEF Static
    <3>2. LeftOf(h, intact') = LeftOf(g, intact')
      BY <1>1, <2>3, <3>1, LeftOfFile
    <3> QED
      BY <3>1, <3>2 DEF Moves
  <2> QED
    BY <1>2, <2>2, <2>3, <2>4, <2>5, UpdateTurns DEF g
<1>6. CASE SendSectors(i)
  <2> DEFINE h(n, b) == [g EXCEPT !.bytesleft = n, !.isdone = b]
  <2>1. PICK n \in MFSReadSector(g, 2), b \in BOOLEAN : Update(i, h(n, b)) /\ (b <=> n = 0)
    BY <1>6 DEF SendSectors, g
  <2>2. ~g.isdone /\ ~g.is404 /\ ~g.isfirst
    BY <1>6 DEF SendSectors, g
  <2>3. n \in 0 .. NoLength
    BY <1>1, <2>1 DEF MFSReadSector
  <2>4. /\ h(n, b) \in Connection /\ h(n, b).state = g.state /\ h(n, b).socket = g.socket
        /\ h(n, b).file = g.file /\ h(n, b).bytesleft = n
    BY <1>1, <2>1, <2>3 DEF Connection
  <2>5. ~h(n, b).is_dynamic /\ ~h(n, b).is404 /\ ~h(n, b).isfirst /\ (h(n, b).isdone <=> b)
    BY <1>1, <2>1, <2>2 DEF Connection, Static
  <2> HIDE DEF h
  <2>6. intact' = intact
    BY <2>1 DEF Update, fileVars
  <2>7. PhaseOf(g) = "body" /\ PhaseOf(h(n, b)) = IF n = 0 THEN "sent" ELSE "body"
    BY <1>1, <2>1, <2>2, <2>4, <2>5, PhaseFields DEF Static
  <2>8. LeftOf(g, intact') = IF g.file \in intact THEN g.bytesleft ELSE Spoilt
    BY <1>1, <2>6, <2>7, LeftOfFile
  <2>9. n # 0 => LeftOf(h(n, b), intact') = IF g.file \in intact THEN n ELSE Spoilt
    BY <2>4, <2>6, <2>7, LeftOfFile
  <2>10. ASSUME g.file \in intact PROVE Moves(g, h(n, b), intact')
    <3>1. \/ n = 0 /\ g.bytesleft \in 0 .. 2
          \/ n = g.bytesleft - 2 /\ g.bytesleft > 2
      BY <1>1, <2>1, <2>10 DEF MFSReadSector
    <3>2. n # 0 => g.bytesleft > 2 /\ n = g.bytesleft - 2
      BY <3>1
    <3>3. n = 0 => g.bytesleft \in 0 .. 2
      BY <1>1, <3>1
    <3> QED
      BY <2>7, <2>8, <2>9, <2>10, <3>2, <3>3 DEF Moves
  <2>11. ASSUME g.file \notin intact PROVE Moves(g, h(n, b), intact')
    BY <2>7, <2>8, <2>9, <2>11 DEF Moves
  <2>12. Moves(g, h(n, b), intact')
    BY <2>10, <2>11
  <2> QED
    BY <1>2, <2>1, <2>4, <2>5, <2>12, UpdateTurns DEF g
<1> QED
  BY <1>3, <1>4, <1>5, <1>6 DEF HTTPHandleInternalCallback

\* A request that is still awaited, or given up.
LEMMA TimeoutTurns ==
  ASSUME TablesTypeOK, RecordsOK, NEW i \in Slots, NEW b, CountTimeout(i, b)
  PROVE  Skip \/ Turns(i) \/ Hangs(i)
<1> DEFINE g == conn[i]
           n == (g.timeout + 1) % TIMEOUT_WRAP
           h == [g EXCEPT !.timeout = n]
<1>1. g \in Connection /\ RecordOK(g) /\ g.state \in RequestStates
  BY SlotType DEF RecordsOK, CountTimeout
<1>2. n \in 0 .. TIMEOUT_WRAP - 1
  <2>1. g.timeout \in 0 .. TIMEOUT_WRAP - 1
    BY <1>1, FieldRanges
  <2>2. g.timeout + 1 \in Nat
    BY <2>1, TableAssumption
  <2> QED
    BY <2>2, TableAssumption, ModRange
<1>3. Skip \/ HTTPClose(i, h) \/ Update(i, h)
  BY DEF CountTimeout
<1>4. PhaseOf(g) = "request"
  BY <1>1, PhaseFields
<1> HIDE DEF g, n
<1>5. h \in Connection /\ h.state = g.state /\ h.socket = g.socket /\ h.file = g.file
  BY <1>1, <1>2 DEF Connection
<1>6. h.is_dynamic = g.is_dynamic /\ h.state_deets = g.state_deets
  BY <1>1 DEF Connection
<1>7. g.state # "NONE"
  BY <1>1 DEF RequestStates
<1> HIDE DEF h
<1>8. Turned(g, h, intact')
  BY <1>1, <1>5, <1>6, <1>7, RequestTurned DEF RecordOK
<1> QED
  BY <1>3, <1>4, <1>5, <1>6, <1>7, <1>8, UpdateTurns DEF Hangs, g

\* A slot's turn in HTTPTick.
LEMMA DoHTTPTurns ==
  ASSUME TablesTypeOK, RecordsOK, NEW i \in Slots, NEW b, DoHTTP(i, b)
  PROVE  Skip \/ Turns(i) \/ Hangs(i)
<1> DEFINE g == conn[i]
<1>1. g \in Connection /\ RecordOK(g) /\ g.state_deets \in Nat
  BY SlotType, FieldRanges DEF RecordsOK
<1>2. ASSUME WebSocketTickInternal(i), g.state = "DATA_WEBSOCKET"
      PROVE  Skip \/ Turns(i)
  <2> DEFINE h == [g EXCEPT !.state_deets = 5, !.keep_alive = FALSE]
  <2>1. \/ g.state_deets = 4 /\ Update(i, h)
        \/ g.state_deets = 5 /\ g.rcb # "" /\ RunCallback(i)
        \/ Skip
    BY <1>2 DEF WebSocketTickInternal
  <2> HIDE DEF g
  <2>2. /\ h \in Connection /\ h.state = g.state /\ h.state_deets = 5
        /\ ~h.keep_alive /\ h.socket = g.socket
    BY <1>1 DEF Connection
  <2> HIDE DEF h
  <2>3. g.state_deets = 4 => Turned(g, h, intact')
    BY <1>1, <1>2, <2>2, SocketTurned
  <2> QED
    BY <1>2, <2>1, <2>3, UpdateTurns, CallbackTurns DEF g
<1>3. CASE Serve(i)
  BY <1>2, <1>3, CallbackTurns, TransferTurns, CloseOrKeepAliveTurns DEF Serve, Static
<1> QED
  BY <1>3, TimeoutTurns DEF DoHTTP, Blocked

-----------------------------------------------------------------------------
(* What the three kinds of step do to the records, to the open files and   *)
(* to what the clients see.                                                *)

\* HTTPClose takes its slot, and those that share its socket, out of use with
\* their files, and leaves every other slot alone.
LEMMA HangsClosed ==
  ASSUME TablesTypeOK, TablesAgree, NEW i \in Slots, Hangs(i)
  PROVE  LET users == {j \in Slots : bsd[j] = conn[i].socket} IN
         /\ i \in users
         /\ \A j \in users : conn'[j].state = "NONE" /\ conn'[j].socket = conn[j].socket
         /\ \A j \in Slots \ users : conn'[j] = conn[j]
         /\ streams' \subseteq streams /\ intact' \subseteq intact
         /\ \A j \in users : ~conn[j].is_dynamic => conn[j].file \notin streams'
<1>1. PICK h \in Connection :
        /\ HTTPClose(i, h) /\ conn[i].state # "NONE" /\ h.socket = conn[i].socket
        /\ h.is_dynamic = conn[i].is_dynamic /\ h.file = conn[i].file
  BY DEF Hangs
<1> DEFINE w == [h EXCEPT !.state = "WAIT_CLOSE"]
           t == [conn EXCEPT ![i] = w]
           s == conn[i].socket
           users == {j \in Slots : bsd[j] = s}
<1>2. et_espconn_disconnect(t, s)
  BY <1>1 DEF HTTPClose
<1>3. i \in users
  BY <1>1 DEF TablesAgree
<1>4. /\ w \in Connection /\ w.socket = s
      /\ w.is_dynamic = conn[i].is_dynamic /\ w.file = conn[i].file
  BY <1>1 DEF Connection, ConnStates
<1>5. t[i] = w /\ t \in [Slots -> Connection] /\ \A j \in Slots \ {i} : t[j] = conn[j]
  BY <1>4 DEF TablesTypeOK
<1> HIDE DEF t, w
<1>6. \A j \in Slots : /\ t[j].socket = conn[j].socket /\ t[j].file = conn[j].file
                       /\ t[j].is_dynamic = conn[j].is_dynamic
  BY <1>4, <1>5
<1>7. \A j \in users : conn'[j] = [t[j] EXCEPT !.state = "NONE"]
  BY <1>2 DEF et_espconn_disconnect, http_disconnetcb
<1>8. \A j \in users : conn'[j].state = "NONE" /\ conn'[j].socket = conn[j].socket
  <2> DEFINE dropped(c) == [c EXCEPT !.state = "NONE"]
  <2>1. \A c \in Connection : dropped(c).state = "NONE" /\ dropped(c).socket = c.socket
    BY DEF Connection
  <2>2. \A j \in users : t[j] \in Connection /\ conn'[j] = dropped(t[j])
    BY <1>5, <1>7
  <2> HIDE DEF dropped
  <2> QED
    BY <1>6, <2>1, <2>2
<1>9. \A j \in Slots \ users : conn'[j] = conn[j]
  BY <1>2, <1>3, <1>5 DEF et_espconn_disconnect, http_disconnetcb
<1>10. streams' = streams \ {t[j].file : j \in {m \in users : ~t[m].is_dynamic}}
  BY <1>2 DEF et_espconn_disconnect, http_disconnetcb, ClosedStreams
<1>11. intact' \subseteq intact
  BY <1>2 DEF et_espconn_disconnect, http_disconnetcb
<1> QED
  BY <1>3, <1>6, <1>8, <1>9, <1>10, <1>11

\* A slot that goes on keeps its socket, and every open file its transfer.
LEMMA TurnsKeep ==
  ASSUME TablesTypeOK, RecordsOK, FilesHeld, NEW i \in Slots, Turns(i)
  PROVE  /\ RecordsOK' /\ FilesHeld'
         /\ conn'[i].socket = conn[i].socket /\ conn[i].state # "NONE"
<1>1. PICK h \in Connection :
        /\ Turned(conn[i], h, intact')
        /\ conn' = [conn EXCEPT ![i] = h]
        /\ streams' = streams \/ (Static(h) /\ streams' = streams \cup {h.file})
  BY DEF Turns
<1>2. conn'[i] = h /\ \A j \in Slots \ {i} : conn'[j] = conn[j]
  BY <1>1 DEF TablesTypeOK
<1>3. RecordsOK'
  BY <1>1, <1>2 DEF RecordsOK, RecordOK, Turned
<1>4. FilesHeld'
  <2> SUFFICES ASSUME NEW f \in streams'
               PROVE  \E j \in Slots : Static(conn'[j]) /\ conn'[j].file = f
    BY DEF FilesHeld, Static
  <2>1. CASE f \in streams
    <3>1. PICK j \in Slots : Static(conn[j]) /\ conn[j].file = f
      BY <2>1 DEF FilesHeld, Static
    <3>2. Static(conn'[j]) /\ conn'[j].file = f
      BY <1>1, <1>2, <3>1 DEF Turned
    <3> QED
      BY <3>2
  <2>2. CASE f \notin streams
    BY <1>1, <1>2, <2>2
  <2> QED
    BY <2>1, <2>2
<1> QED
  BY <1>1, <1>2, <1>3, <1>4 DEF Turned

\* A slot that is closed takes the file of its transfer with it.
LEMMA HangsKeep ==
  ASSUME TablesTypeOK, TablesAgree, RecordsOK, FilesHeld, NEW i \in Slots, Hangs(i)
  PROVE  RecordsOK' /\ FilesHeld' /\ conn'[i].state = "NONE"
<1> DEFINE users == {j \in Slots : bsd[j] = conn[i].socket}
<1>1. /\ i \in users
      /\ \A j \in users : conn'[j].state = "NONE"
      /\ \A j \in Slots \ users : conn'[j] = conn[j]
      /\ streams' \subseteq streams
      /\ \A j \in users : ~conn[j].is_dynamic => conn[j].file \notin streams'
  BY HangsClosed
<1>2. RecordsOK'
  <2> SUFFICES ASSUME NEW j \in Slots PROVE RecordOK(conn'[j])
    BY DEF RecordsOK, RecordOK
  <2>1. CASE j \in users
    BY <1>1, <2>1 DEF RecordOK
  <2>2. CASE j \notin users
    BY <1>1, <2>2 DEF RecordsOK
  <2> QED
    BY <2>1, <2>2
<1>3. FilesHeld'
  <2> SUFFICES ASSUME NEW f \in streams'
               PROVE  \E j \in Slots : Static(conn'[j]) /\ conn'[j].file = f
    BY DEF FilesHeld, Static
  <2>1. PICK j \in Slots : Static(conn[j]) /\ conn[j].file = f
    BY <1>1 DEF FilesHeld, Static
  <2>2. j \notin users
    BY <1>1, <2>1 DEF Static
  <2> QED
    BY <1>1, <2>1, <2>2
<1> QED
  BY <1>1, <1>2, <1>3

\* So does a slot that the event loop drops.
LEMMA DropRecords ==
  ASSUME TablesTypeOK, RecordsOK, FilesHeld, NEW i \in Slots, Drop(i)
  PROVE  /\ RecordsOK' /\ FilesHeld' /\ conn'[i].state = "NONE"
         /\ \A j \in Slots \ {i} : conn'[j] = conn[j]
<1>1. \A j \in Slots \ {i} : conn'[j] = conn[j]
  BY DEF Drop, http_disconnetcb
<1>2. conn'[i].state = "NONE"
  <2>1. conn'[i] = [conn[i] EXCEPT !.state = "NONE"]
    BY DEF Drop, http_disconnetcb
  <2> QED
    BY <2>1, SlotType DEF Connection
<1>3. streams' \subseteq streams /\ (~conn[i].is_dynamic => conn[i].file \notin streams')
  BY DEF Drop, http_disconnetcb, ClosedStreams
<1>4. RecordsOK'
  BY <1>1, <1>2 DEF RecordsOK, RecordOK
<1>5. FilesHeld'
  <2> SUFFICES ASSUME NEW f \in streams'
               PROVE  \E j \in Slots : Static(conn'[j]) /\ conn'[j].file = f
    BY DEF FilesHeld, Static
  <2>1. PICK j \in Slots : Static(conn[j]) /\ conn[j].file = f
    BY <1>3 DEF FilesHeld, Static
  <2>2. j # i
    BY <1>3, <2>1 DEF Static
  <2> QED
    BY <1>1, <2>1, <2>2
<1> QED
  BY <1>1, <1>2, <1>4, <1>5

\* Every step of the loop keeps the records, the slot that is parsed and the
\* open files as they should be.
LEMMA WireInvStep ==
  ASSUME TypeOK, ChunkFits, SocketInv, WireInv, [Next]_vars
  PROVE  WireInv'
<1> USE DEF WireInv
<1>1. TablesTypeOK /\ TablesAgree
  BY DEF TypeOK, SocketInv
<1>2. ASSUME Skip PROVE RecordsOK' /\ FilesHeld'
  BY <1>2 DEF Skip, fileVars, RecordsOK, RecordOK, FilesHeld
<1>3. CASE Tick
  <2>1. cur \in Slots /\ pc' # "parse" /\ DoHTTP(cur, timed)
    BY <1>3 DEF Tick
  <2>2. Skip \/ Turns(cur) \/ Hangs(cur)
    BY <1>1, <2>1, DoHTTPTurns
  <2> QED
    BY <1>1, <1>2, <2>1, <2>2, TurnsKeep, HangsKeep DEF ParsedOK
<1>4. CASE Parse
  <2>1. cur \in Slots /\ pc' = "parse" /\ cur' = cur /\ pc = "parse"
    BY <1>4 DEF Parse, ChunkFits, TypeOK, loopVars
  <2>2. PICK c \in Bytes : HTTPGotByte(cur, c)
    BY <1>4 DEF Parse
  <2>3. /\ Skip \/ Turns(cur) \/ Hangs(cur)
        /\ cork_binary_rx' = cork_binary_rx \/ PhaseOf(conn'[cur]) = "closing"
    BY <1>1, <2>1, <2>2, GotByteTurns DEF ParsedOK
  <2>4. CASE Skip
    <3>1. conn' = conn
      BY <2>4 DEF Skip
    <3>2. ParsedOK'
      BY <2>1, <2>3, <3>1 DEF ParsedOK
    <3> QED
      BY <1>2, <2>4, <3>2
  <2>5. CASE Turns(cur)
    <3>1. conn'[cur].socket # BadSock
      BY <1>1, <2>1, <2>5, TurnsKeep DEF ParsedOK
    <3>2. PhaseOf(conn[cur]) \notin {"closed", "closing"}
      BY <2>5 DEF Turns, Turned, Moves
    <3>3. ParsedOK'
      BY <2>1, <2>3, <3>1, <3>2 DEF ParsedOK
    <3> QED
      BY <1>1, <2>1, <2>5, <3>3, TurnsKeep
  <2>6. CASE Hangs(cur)
    <3>1. RecordsOK' /\ FilesHeld' /\ conn'[cur].state = "NONE"
      BY <1>1, <2>1, <2>6, HangsKeep
    <3>2. PhaseOf(conn'[cur]) = "closed"
      BY <2>1, <3>1, TypeStep, PhaseFields DEF TypeOK, TablesTypeOK
    <3> QED
      BY <2>1, <3>1, <3>2 DEF ParsedOK
  <2> QED
    BY <2>3, <2>4, <2>5, <2>6
<1>5. CASE Disconnected
  <2>1. cur \in Slots /\ pc' # "parse" /\ Drop(cur)
    BY <1>5 DEF Disconnected, HasEvent, TypeOK
  <2> QED
    BY <1>1, <2>1, DropRecords DEF ParsedOK
<1>6. CASE CorkOverflow
  <2>1. cur \in Slots /\ pc' # "parse" /\ Drop(cur)
    BY <1>6 DEF CorkOverflow, Corking, ChunkFits, TypeOK, ToNextSocket
  <2> QED
    BY <1>1, <2>1, DropRecords DEF ParsedOK
<1>7. CASE Accept
  <2>1. PICK s \in Sockets \cup {BadSock}, i \in Slots :
          /\ conn[i].state = "NONE"
          /\ conn' = [conn EXCEPT ![i].socket = s, ![i].state = "WAIT_METHOD"]
    BY <1>7 DEF Accept, httpserver_connectcb, Free
  <2>2. /\ conn'[i].state = "WAIT_METHOD"
        /\ \A j \in Slots \ {i} : conn'[j] = conn[j]
    BY <1>1, <2>1, SlotType DEF TablesTypeOK, Connection
  <2>3. RecordsOK'
    BY <2>2 DEF RecordsOK, RecordOK
  <2>4. FilesHeld'
    <3> SUFFICES ASSUME NEW f \in streams
                 PROVE  \E j \in Slots : Static(conn'[j]) /\ conn'[j].file = f
      BY <1>7 DEF Accept, fileVars, FilesHeld, Static
    <3>1. PICK j \in Slots : Static(conn[j]) /\ conn[j].file = f
      BY DEF FilesHeld, Static
    <3> QED
      BY <2>1, <2>2, <3>1 DEF Static
  <2> QED
    BY <1>7, <2>3, <2>4 DEF Accept, ParsedOK
<1>8. CASE Received
  <2>1. cur \in Slots /\ cur' = cur /\ ~cork_binary_rx' /\ bsd[cur] # BadSock
    BY <1>8 DEF Received, HasEvent, TypeOK
  <2> DEFINE h == [conn[cur] EXCEPT !.timeout = 0]
  <2>2. conn[cur] \in Connection /\ conn' = [conn EXCEPT ![cur] = h]
    BY <1>1, <1>8, <2>1, SlotType DEF Received, TablesTypeOK
  <2>3. /\ h.state = conn[cur].state /\ h.state_deets = conn[cur].state_deets
        /\ h.keep_alive = conn[cur].keep_alive /\ h.is_dynamic = conn[cur].is_dynamic
        /\ h.rcb = conn[cur].rcb /\ h.socket = conn[cur].socket /\ h.file = conn[cur].file
    BY <2>2 DEF Connection
  <2> HIDE DEF h
  <2>4. conn'[cur] = h /\ \A j \in Slots \ {cur} : conn'[j] = conn[j]
    BY <1>1, <2>1, <2>2 DEF TablesTypeOK
  <2>5. RecordsOK'
    BY <2>3, <2>4 DEF RecordsOK, RecordOK
  <2>6. FilesHeld'
    BY <1>8, <2>3, <2>4 DEF Received, fileVars, FilesHeld
  <2>7. ParsedOK'
    BY <1>1, <2>1, <2>3, <2>4 DEF ParsedOK, TablesAgree
  <2> QED
    BY <2>5, <2>6, <2>7
<1>9. CASE ServerFault \/ Poll \/ NoConnection \/ Refuse \/ NoEvent \/ Overrun \/ Exit
           \/ Uncork \/ Cork \/ LeavesTable \/ NextRound
  <2>1. UNCHANGED <<conn, streams>> /\ pc' # "parse"
    BY <1>9 DEF ServerFault, Poll, NoConnection, Refuse, NoEvent, Overrun, Exit, Uncork, Cork,
                LeavesTable, NextRound, httpVars, fileVars, ToNextSocket
  <2> QED
    BY <2>1 DEF RecordsOK, RecordOK, FilesHeld, ParsedOK
<1>10. CASE Terminated \/ UNCHANGED vars
  <2>1. UNCHANGED <<conn, streams, cork_binary_rx, pc, cur>>
    BY <1>10 DEF Terminated, vars, httpVars, fileVars, rxVars, loopVars
  <2> QED
    BY <2>1 DEF RecordsOK, RecordOK, FilesHeld, ParsedOK
<1> QED
  BY <1>3, <1>4, <1>5, <1>6, <1>7, <1>8, <1>9, <1>10 DEF Next

LEMMA WireInvInit == Init => WireInv
<1> SUFFICES ASSUME Init PROVE WireInv
  OBVIOUS
<1>1. \A i \in Slots : conn[i].state = "NONE"
  BY DEF Init, HttpInit, ZeroConnection
<1> QED
  BY <1>1 DEF Init, HttpInit, WireInv, RecordsOK, RecordOK, ParsedOK, FilesHeld

\* Whatever the clients send and whenever they hang up, every open file is
\* that of a transfer in progress: HTTPClose and the disconnect callback close
\* a file exactly when its transfer ends.
THEOREM FilesAlwaysHeld == Spec => []FilesHeld
<1> DEFINE Inv == TypeOK /\ ChunkFits /\ SocketInv /\ WireInv
<1>1. Init => Inv
  BY TypeInit, SocketInit, WireInvInit
<1>2. Inv /\ [Next]_vars => Inv'
  BY TypeStep, SocketStep, WireInvStep
<1>3. Inv => FilesHeld
  BY DEF WireInv
<1> QED
  BY <1>1, <1>2, <1>3, PTL DEF Spec

\* The one field that holds the length of a path and the stage of a websocket
\* never outgrows what the current state uses it for.
THEOREM StateDeetsAlwaysFits == Spec => []StateDeetsFits
<1> DEFINE Inv == TypeOK /\ ChunkFits /\ SocketInv /\ WireInv
<1>1. Init => Inv
  BY TypeInit, SocketInit, WireInvInit
<1>2. Inv /\ [Next]_vars => Inv'
  BY TypeStep, SocketStep, WireInvStep
<1>3. Inv => StateDeetsFits
  BY DEF WireInv, RecordsOK, RecordOK, StateDeetsFits
<1> QED
  BY <1>1, <1>2, <1>3, PTL DEF Spec

-----------------------------------------------------------------------------
(* HTTPBSD implements HTTPWire.                                            *)

Phase == [i \in Slots |-> IF listening THEN PhaseOf(conn[i]) ELSE "closed"]
LeftTo == [i \in Slots |-> IF listening THEN LeftOf(conn[i], intact) ELSE 0]
Serving == pc \notin {"accept", "event"}

\* A step as the clients see it, types aside.
Seen ==
  \/ Phase' = Phase /\ LeftTo' = LeftTo
  \/ Serving /\ \E c \in Slots : Wire!Serve(c)
  \/ Serving /\ \E S \in SUBSET Slots : Wire!GiveUp(S)
  \/ \E c \in Slots : Wire!Connect(c)
  \/ \E S \in SUBSET Slots : Wire!Cut(S)

\* The server listens before and after the step.
Listens == listening /\ listening'

\* A slot out of use is closed for its client, with nothing left to send.
LEMMA ClosedPhase ==
  ASSUME NEW h, h.state = "NONE", NEW S
  PROVE  PhaseOf(h) = "closed" /\ LeftOf(h, S) = 0
<1>1. PhaseOf(h) = "closed"
  BY DEF PhaseOf, RequestStates
<1> QED
  BY <1>1 DEF LeftOf

\* What is left to a client whose transfer still reads what it read.
LEMMA LeftKept ==
  ASSUME NEW h \in Connection, Static(h) => (h.file \in intact' <=> h.file \in intact)
  PROVE  LeftOf(h, intact') = LeftOf(h, intact)
<1>1. CASE PhaseOf(h) \in {"header", "body"}
  <2>1. h.file \in intact' <=> h.file \in intact
    BY <1>1, PhaseStates
  <2> QED
    BY <2>1 DEF LeftOf
<1>2. CASE PhaseOf(h) \notin {"header", "body"}
  BY <1>2, LeftOfFile
<1> QED
  BY <1>1, <1>2

\* A file closed under a transfer is spoilt.
LEMMA LeftOrSpoilt ==
  ASSUME NEW h \in Connection, intact' \subseteq intact
  PROVE  \/ LeftOf(h, intact') = LeftOf(h, intact)
         \/ PhaseOf(h) \in {"header", "body"} /\ LeftOf(h, intact') = Spoilt
  BY DEF LeftOf

\* A record of the table after a step.
LEMMA SlotTypeNext ==
  ASSUME TablesTypeOK', NEW i \in Slots
  PROVE  conn'[i] \in Connection
  BY DEF TablesTypeOK

\* What is seen is a step of HTTPWire.
LEMMA SeenNext ==
  ASSUME TablesTypeOK', Seen
  PROVE  Wire!Next
<1>1. LeftTo' \in [Slots -> Int]
  <2>1. \A i \in Slots : LeftOf(conn'[i], intact') \in Int
    BY SlotTypeNext, LeftOfFile
  <2> QED
    BY <2>1 DEF LeftTo
<1> QED
  BY <1>1 DEF Seen, Wire!Next, Phase, LeftTo, Serving

\* Slot i goes on: one action of HTTPWire, or nothing to be seen.
LEMMA TurnsSeen ==
  ASSUME TablesTypeOK, NEW i \in Slots, Turns(i), Serving, Listens
  PROVE  Seen
<1>1. PICK h \in Connection :
        Moves(conn[i], h, intact') /\ conn' = [conn EXCEPT ![i] = h] /\ FilesKept
  BY DEF Turns, Turned
<1> DEFINE p == PhaseOf(conn[i])
           q == PhaseOf(h)
           l == LeftOf(conn[i], intact')
           m == LeftOf(h, intact')
<1>2. conn'[i] = h /\ \A j \in Slots \ {i} : conn'[j] = conn[j]
  BY <1>1 DEF TablesTypeOK
<1>3. \A j \in Slots : LeftOf(conn[j], intact') = LeftOf(conn[j], intact)
  BY <1>1, SlotType, LeftKept DEF FilesKept
<1>4. Phase[i] = p /\ LeftTo[i] = l
  BY <1>3 DEF Phase, LeftTo, Listens
<1>5. Phase' = [Phase EXCEPT ![i] = q]
  BY <1>2 DEF Phase, Listens
<1>6. LeftTo' = [LeftTo EXCEPT ![i] = m]
  <2>1. LeftTo' = [j \in Slots |-> LeftOf(conn'[j], intact')]
    BY DEF LeftTo, Listens
  <2>2. \A j \in Slots \ {i} : LeftTo[j] = LeftOf(conn'[j], intact')
    BY <1>2, <1>3 DEF LeftTo, Listens
  <2>3. \A j \in Slots : LeftOf(conn'[j], intact') = IF j = i THEN m ELSE LeftTo[j]
    BY <1>2, <2>2
  <2> HIDE DEF m
  <2> QED
    BY <2>1, <2>3 DEF LeftTo
<1>7. m = l => LeftTo' = LeftTo
  BY <1>4, <1>6 DEF LeftTo
<1>8. /\ p \notin {"header", "body"} => l = 0
      /\ q \notin {"header", "body"} => m = 0
  BY DEF LeftOf
<1>9. \/ p = q /\ p \notin {"closed", "closing", "header", "body"}
      \/ p = "request"  /\ q = "header" /\ m \in {Spoilt} \cup 0 .. MaxFile
      \/ p = "request"  /\ q \in {"404", "app", "upgrade"}
      \/ p = "header"   /\ q = "body" /\ m = l
      \/ p = "body"     /\ q = "body" /\ l > 2 /\ m = l - 2
      \/ p = "body"     /\ q = "body" /\ l = Spoilt /\ m = Spoilt
      \/ p = "body"     /\ q = "sent" /\ l \in {Spoilt} \cup 0 .. 2
      \/ p = "404"      /\ q = "sent"
      \/ p = "app"      /\ q = "closing"
      \/ p = "upgrade"  /\ q \in {"accepted", "closing", "again"}
      \/ p = "accepted" /\ q = "socket"
      \/ p = "socket"   /\ q = "closing"
      \/ p = "again"    /\ q = "request"
  BY <1>1 DEF Moves
<1> HIDE DEF p, q, l, m
<1>10. CASE p = q /\ p \notin {"closed", "closing", "header", "body"}
  <2>1. Phase' = Phase
    BY <1>4, <1>5, <1>10 DEF Phase
  <2>2. m = l
    BY <1>8, <1>10
  <2> QED
    BY <1>7, <2>1, <2>2 DEF Seen
<1>11. CASE ~(p = q /\ p \notin {"closed", "closing", "header", "body"})
  <2>1. \A from : p \in from => Wire!Move(i, from, q)
    BY <1>4, <1>5 DEF Wire!Move, Phase
  <2>2. Wire!Left(i, m)
    BY <1>6 DEF Wire!Left, Wire!KeptOrSpoilt, LeftTo
  <2>3. m = l => Wire!Same
    BY <1>7 DEF Wire!Same, Wire!KeptOrSpoilt, LeftTo
  <2>4. [j \in Slots |-> IF listening THEN LeftOf(conn[j], intact) ELSE 0][i] = l
    BY <1>4 DEF LeftTo
  <2>5. Wire!Spoilt = Spoilt
    BY DEF Wire!Spoilt, Spoilt
  <2>6. Wire!Serve(i)
    <3>1. CASE p = "request" /\ q = "header" /\ m \in {Spoilt} \cup 0 .. MaxFile
      BY <2>1, <2>2, <2>5, <3>1 DEF Wire!AskFile, Wire!Serve
    <3>2. CASE p = "request" /\ q \in {"404", "app", "upgrade"}
      BY <1>8, <2>1, <2>3, <3>2 DEF Wire!AskOther, Wire!Serve
    <3>3. CASE p = "header" /\ q = "body" /\ m = l
      BY <2>1, <2>3, <3>3 DEF Wire!SendHeader, Wire!Serve
    <3>4. CASE p = "body" /\ q = "body" /\ l > 2 /\ m = l - 2
      BY <2>1, <2>2, <2>4, <3>4 DEF Wire!SendSectors, Wire!Serve
    <3>5. CASE p = "body" /\ q = "body" /\ l = Spoilt /\ m = Spoilt
      BY <2>1, <2>2, <2>4, <2>5, <3>5 DEF Wire!SendSpoilt, Wire!Serve
    <3>6. CASE p = "body" /\ q = "sent" /\ l = Spoilt
      BY <1>8, <2>1, <2>2, <2>4, <2>5, <3>6 DEF Wire!SendSpoilt, Wire!Serve
    <3>7. CASE p = "body" /\ q = "sent" /\ l \in 0 .. 2
      BY <1>8, <2>1, <2>2, <2>4, <3>7 DEF Wire!SendLast, Wire!Serve
    <3>8. CASE p = "404" /\ q = "sent"
      BY <1>8, <2>1, <2>3, <3>8 DEF Wire!Send404, Wire!Serve
    <3>9. CASE p = "app" /\ q = "closing"
      BY <1>8, <2>1, <2>3, <3>9 DEF Wire!Answer, Wire!Serve
    <3>10. CASE p = "upgrade" /\ q \in {"accepted", "closing", "again"}
      BY <1>8, <2>1, <2>3, <3>10 DEF Wire!HeaderEnds, Wire!FailUpgrade, Wire!Serve
    <3>11. CASE p = "accepted" /\ q = "socket"
      BY <1>8, <2>1, <2>3, <3>11 DEF Wire!Send101, Wire!Serve
    <3>12. CASE p = "socket" /\ q = "closing"
      BY <1>8, <2>1, <2>3, <3>12 DEF Wire!FailSocket, Wire!Serve
    <3>13. CASE p = "again" /\ q = "request"
      BY <1>8, <2>1, <2>3, <3>13 DEF Wire!Reopen, Wire!Serve
    <3> QED
      BY <1>9, <1>11, <3>1, <3>2, <3>3, <3>4, <3>5, <3>6, <3>7, <3>8, <3>9, <3>10, <3>11,
         <3>12, <3>13
  <2> QED
    BY <2>6 DEF Seen
<1> QED
  BY <1>10, <1>11

\* Slot i is closed: it hangs up, or gives up the request it waits for; with
\* slots that share its failed descriptor, which all wait for requests.
LEMMA HangsSeen ==
  ASSUME TypeOK, SocketInv, RecordsOK, NEW i \in Slots, Hangs(i), Serving, Listens
  PROVE  Seen
<1> DEFINE s == conn[i].socket
           users == {j \in Slots : bsd[j] = s}
<1>1. /\ i \in users
      /\ \A j \in users : conn'[j].state = "NONE"
      /\ \A j \in Slots \ users : conn'[j] = conn[j]
      /\ intact' \subseteq intact
  BY HangsClosed DEF TypeOK, SocketInv
<1>2. conn[i].state # "NONE" /\ PhaseOf(conn[i]) \in {"request", "sent", "closing"}
  BY DEF Hangs
<1>3. Phase' = [j \in Slots |-> IF j \in users THEN "closed" ELSE Phase[j]]
  BY <1>1, ClosedPhase DEF Phase, Listens
<1>4. ASSUME \A j \in users : PhaseOf(conn[j]) \notin {"header", "body"}
      PROVE  Wire!Same
  <2>1. \A j \in users : LeftOf(conn[j], intact) = 0 /\ LeftOf(conn'[j], intact') = 0
    BY <1>1, <1>4, ClosedPhase DEF LeftOf
  <2>2. \A j \in Slots \ users :
          \/ LeftOf(conn'[j], intact') = LeftOf(conn[j], intact)
          \/ PhaseOf(conn[j]) \in {"header", "body"} /\ LeftOf(conn'[j], intact') = Spoilt
    BY <1>1, SlotType, LeftOrSpoilt DEF TypeOK
  <2> QED
    BY <2>1, <2>2 DEF Wire!Same, Wire!KeptOrSpoilt, Wire!Spoilt, Spoilt, Listens
<1>5. CASE s = BadSock
  <2>1. \A j \in users : conn[j].state = "WAIT_METHOD"
    BY <1>5, SocketAssumption DEF RecordsOK, RecordOK, SocketInv, TablesAgree
  <2>2. \A j \in users : PhaseOf(conn[j]) = "request"
    BY <2>1, SlotType, PhaseFields DEF TypeOK, RequestStates
  <2>3. Wire!Same
    BY <1>4, <2>2
  <2>4. Wire!GiveUp(users)
    BY <1>3, <2>2, <2>3 DEF Wire!GiveUp, Phase, Listens
  <2>5. users \in SUBSET Slots
    OBVIOUS
  <2> QED
    BY <2>4, <2>5 DEF Seen
<1>6. CASE s # BadSock
  <2>1. s \in Sockets
    BY <1>1, <1>2, <1>6 DEF TypeOK, TablesTypeOK, SocketInv, TablesAgree
  <2>2. users = {i}
    BY <1>1, <2>1 DEF SocketInv, NoSharedDescriptor
  <2>3. Wire!Same
    BY <1>2, <1>4, <2>2
  <2>4. CASE PhaseOf(conn[i]) = "request"
    <3>1. Wire!GiveUp(users)
      BY <1>3, <2>2, <2>3, <2>4 DEF Wire!GiveUp, Phase, Listens
    <3>2. users \in SUBSET Slots
      OBVIOUS
    <3> QED
      BY <3>1, <3>2 DEF Seen
  <2>5. CASE PhaseOf(conn[i]) \in {"sent", "closing"}
    <3>1. Phase' = [Phase EXCEPT ![i] = "closed"]
      BY <1>3, <2>2 DEF Phase
    <3>2. Wire!HangUp(i)
      BY <2>3, <2>5, <3>1 DEF Wire!HangUp, Wire!Move, Phase, Listens
    <3> QED
      BY <3>2 DEF Wire!Serve, Seen
  <2> QED
    BY <1>2, <2>4, <2>5
<1> QED
  BY <1>5, <1>6

\* A slot that the event loop drops: its client is cut off, unless the
\* connection was closing already.
LEMMA DropSeen ==
  ASSUME TablesTypeOK, RecordsOK, FilesHeld, NEW i \in Slots, Drop(i), Listens,
         ~Serving \/ PhaseOf(conn[i]) = "closing"
  PROVE  Seen
<1>1. /\ conn'[i].state = "NONE" /\ \A j \in Slots \ {i} : conn'[j] = conn[j]
      /\ intact' \subseteq intact
  BY DropRecords DEF Drop, http_disconnetcb
<1>2. PhaseOf(conn'[i]) = "closed" /\ LeftOf(conn'[i], intact') = 0
  BY <1>1, ClosedPhase
<1>3. /\ Phase' = [Phase EXCEPT ![i] = "closed"]
      /\ Phase' = [j \in Slots |-> IF j \in {i} THEN "closed" ELSE Phase[j]]
  BY <1>1, <1>2 DEF Phase, Listens
<1>4. /\ LeftTo'[i] = 0
      /\ \A j \in Slots \ {i} : \/ LeftTo'[j] = LeftTo[j]
                                \/ Phase[j] \in {"header", "body"} /\ LeftTo'[j] = Spoilt
  <2>1. \A j \in Slots \ {i} :
          \/ LeftOf(conn'[j], intact') = LeftOf(conn[j], intact)
          \/ PhaseOf(conn[j]) \in {"header", "body"} /\ LeftOf(conn'[j], intact') = Spoilt
    BY <1>1, SlotType, LeftOrSpoilt
  <2> QED
    BY <1>2, <2>1 DEF Phase, LeftTo, Listens
<1>5. CASE ~Serving
  <2>1. Wire!Cut({i})
    BY <1>3, <1>4, <1>5
    DEF Wire!Cut, Wire!KeptOrSpoilt, Wire!Spoilt, Spoilt, Serving, Phase, LeftTo
  <2> QED
    BY <2>1 DEF Seen
<1>6. CASE PhaseOf(conn[i]) = "closing" /\ Serving
  <2>1. LeftTo[i] = 0
    BY <1>6 DEF LeftTo, LeftOf
  <2>2. Wire!Same
    BY <1>4, <2>1 DEF Wire!Same, Wire!KeptOrSpoilt, Wire!Spoilt, Spoilt, Phase, LeftTo
  <2>3. Wire!HangUp(i)
    BY <1>3, <1>6, <2>2 DEF Wire!HangUp, Wire!Move, Phase, Listens
  <2> QED
    BY <1>6, <2>3 DEF Wire!Serve, Seen
<1> QED
  BY <1>5, <1>6

\* Every step of the loop is one of HTTPWire, or is not seen.
LEMMA WireStep ==
  ASSUME TypeOK, ChunkFits, SocketInv, WireInv, [Next]_vars
  PROVE  [Wire!Next]_(Wire!vars)
<1> USE DEF WireInv
<1>1. TablesTypeOK /\ TablesTypeOK'
  BY TypeStep DEF TypeOK
<1> SUFFICES Seen
  BY <1>1, SeenNext
<1>2. ASSUME UNCHANGED <<conn, intact, listening>> PROVE Seen
  BY <1>2 DEF Phase, LeftTo, Seen
<1>3. CASE ServerFault
  <2>1. Listens \/ (listening /\ ~listening')
    BY <1>3 DEF ServerFault, Listens
  <2>2. ~Serving /\ ~listening'
    BY <1>3 DEF ServerFault, Serving
  <2>3. Wire!Cut(Slots)
    BY <2>2 DEF Wire!Cut, Wire!KeptOrSpoilt, Serving
  <2>4. Slots \in SUBSET Slots
    OBVIOUS
  <2> QED
    BY <2>3, <2>4 DEF Seen
<1>4. CASE ~ServerFault
  <2>1. listening' = listening
    BY <1>4 DEF Next, Tick, Poll, ServerFault, NoConnection, Accept, Refuse, NoEvent,
                Disconnected, Received, Parse, Overrun, Exit, Uncork, Cork, CorkOverflow,
                LeavesTable, NextRound, Terminated, vars, loopVars
  <2>2. CASE ~listening
    BY <2>1, <2>2 DEF Phase, LeftTo, Seen
  <2>3. CASE listening
    <3>1. Listens
      BY <2>1, <2>3 DEF Listens
    <3>2. CASE Tick
      <4>1. cur \in Slots /\ Serving /\ DoHTTP(cur, timed)
        BY <3>2 DEF Tick, Serving
      <4>2. Skip \/ Turns(cur) \/ Hangs(cur)
        BY <1>1, <4>1, DoHTTPTurns
      <4> QED
        BY <1>1, <1>2, <2>1, <3>1, <4>1, <4>2, TurnsSeen, HangsSeen DEF Skip, fileVars
    <3>3. CASE Parse
      <4>1. cur \in Slots /\ Serving /\ pc = "parse"
        BY <3>3 DEF Parse, ChunkFits, TypeOK, Serving
      <4>2. PICK c \in Bytes : HTTPGotByte(cur, c)
        BY <3>3 DEF Parse
      <4>3. Skip \/ Turns(cur) \/ Hangs(cur)
        BY <1>1, <4>1, <4>2, GotByteTurns DEF ParsedOK
      <4> QED
        BY <1>1, <1>2, <2>1, <3>1, <4>1, <4>3, TurnsSeen, HangsSeen DEF Skip, fileVars
    <3>4. CASE Disconnected
      <4>1. cur \in Slots /\ ~Serving /\ Drop(cur)
        BY <3>4 DEF Disconnected, HasEvent, TypeOK, Serving
      <4> QED
        BY <1>1, <3>1, <4>1, DropSeen
    <3>5. CASE CorkOverflow
      <4>1. /\ cur \in Slots /\ pc = "parse" /\ cork_binary_rx /\ Drop(cur)
            /\ bsd[cur] # NoSock
        BY <3>5 DEF CorkOverflow, Corking, ChunkFits, TypeOK
      <4>2. PhaseOf(conn[cur]) \in {"closed", "closing"} /\ conn[cur].state # "NONE"
        BY <4>1 DEF ParsedOK, SocketInv, TablesAgree
      <4>3. PhaseOf(conn[cur]) = "closing"
        BY <1>1, <4>1, <4>2, SlotType, PhaseStates
      <4> QED
        BY <1>1, <3>1, <4>1, <4>3, DropSeen
    <3>6. CASE Accept
      <4>1. PICK s \in Sockets \cup {BadSock}, i \in Slots :
              /\ conn[i].state = "NONE"
              /\ conn' = [conn EXCEPT ![i].socket = s, ![i].state = "WAIT_METHOD"]
        BY <3>6 DEF Accept, httpserver_connectcb, Free
      <4>2. conn'[i].state = "WAIT_METHOD" /\ \A j \in Slots \ {i} : conn'[j] = conn[j]
        BY <1>1, <4>1, SlotType DEF TablesTypeOK, Connection
      <4>3. PhaseOf(conn[i]) = "closed" /\ LeftOf(conn[i], intact) = 0
        BY <4>1, ClosedPhase
      <4>4. PhaseOf(conn'[i]) = "request"
        BY <1>1, <4>2, SlotTypeNext, PhaseFields DEF RequestStates
      <4>5. LeftOf(conn'[i], intact) = 0
        BY <4>4 DEF LeftOf
      <4>6. intact' = intact /\ ~Serving
        BY <3>6 DEF Accept, fileVars, Serving
      <4>7. Phase' = [Phase EXCEPT ![i] = "request"] /\ LeftTo' = LeftTo
        BY <3>1, <4>2, <4>3, <4>4, <4>5, <4>6 DEF Phase, LeftTo, Listens
      <4>8. Wire!Connect(i)
        BY <3>1, <4>3, <4>6, <4>7
        DEF Wire!Connect, Wire!Move, Wire!Same, Wire!KeptOrSpoilt, Serving, Phase, LeftTo, Listens
      <4> QED
        BY <4>8 DEF Seen
    <3>7. CASE Received
      <4>1. cur \in Slots /\ intact' = intact
        BY <3>7 DEF Received, HasEvent, TypeOK, fileVars
      <4> DEFINE h == [conn[cur] EXCEPT !.timeout = 0]
      <4>2. conn[cur] \in Connection /\ conn' = [conn EXCEPT ![cur] = h]
        BY <1>1, <3>7, <4>1, SlotType DEF Received, TablesTypeOK
      <4>3. /\ h.state = conn[cur].state /\ h.state_deets = conn[cur].state_deets
            /\ h.keep_alive = conn[cur].keep_alive /\ h.is_dynamic = conn[cur].is_dynamic
            /\ h.isdone = conn[cur].isdone /\ h.is404 = conn[cur].is404
            /\ h.isfirst = conn[cur].isfirst /\ h.bytesleft = conn[cur].bytesleft
            /\ h.file = conn[cur].file
        BY <4>2 DEF Connection
      <4> HIDE DEF h
      <4>4. conn'[cur] = h /\ \A j \in Slots \ {cur} : conn'[j] = conn[j]
        BY <1>1, <4>1, <4>2 DEF TablesTypeOK
      <4>5. PhaseOf(h) = PhaseOf(conn[cur])
        BY <4>3 DEF PhaseOf
      <4>6. LeftOf(h, intact) = LeftOf(conn[cur], intact)
        BY <4>3, <4>5 DEF LeftOf
      <4>7. Phase' = Phase /\ LeftTo' = LeftTo
        BY <2>1, <4>1, <4>4, <4>5, <4>6 DEF Phase, LeftTo
      <4> QED
        BY <4>7 DEF Seen
    <3>8. CASE Poll \/ NoConnection \/ Refuse \/ NoEvent \/ Overrun \/ Exit \/ Uncork \/ Cork
               \/ LeavesTable \/ NextRound \/ Terminated
      <4>1. UNCHANGED <<conn, intact>>
        BY <3>8 DEF Poll, NoConnection, Refuse, NoEvent, Overrun, Exit, Uncork, Cork,
                    LeavesTable, NextRound, Terminated, vars, httpVars, fileVars
      <4> QED
        BY <1>2, <2>1, <4>1
    <3>9. CASE UNCHANGED vars
      BY <1>2, <2>1, <3>9 DEF vars, httpVars, fileVars
    <3> QED
      BY <1>4, <3>2, <3>3, <3>4, <3>5, <3>6, <3>7, <3>8, <3>9 DEF Next
  <2> QED
    BY <2>2, <2>3
<1> QED
  BY <1>3, <1>4

LEMMA WireInit == Init => Wire!Init
<1> SUFFICES ASSUME Init PROVE Wire!Init
  OBVIOUS
<1>1. \A i \in Slots : conn[i].state = "NONE"
  BY DEF Init, HttpInit, ZeroConnection
<1>2. Phase = [i \in Slots |-> "closed"] /\ LeftTo = [i \in Slots |-> 0] /\ Serving
  BY <1>1, ClosedPhase DEF Phase, LeftTo, Serving, Init
<1> QED
  BY <1>2 DEF Wire!Init, Phase, LeftTo, Serving

\* The server keeps its promise to every client: whole answers, in order, and
\* no hang-up of its own before they are sent, whatever chunks the requests
\* arrive in and however the connections of other slots come and go.
THEOREM ServerImplementsWire == Spec => ImplementsWire
<1> DEFINE Inv == TypeOK /\ ChunkFits /\ SocketInv /\ WireInv
<1>1. Init => Inv
  BY TypeInit, SocketInit, WireInvInit
<1>2. Inv /\ [Next]_vars => Inv'
  BY TypeStep, SocketStep, WireInvStep
<1>3. Inv /\ [Next]_vars => [Wire!Next]_(Wire!vars)
  BY WireStep
<1> QED
  BY <1>1, <1>2, <1>3, WireInit, PTL DEF Spec, ImplementsWire, Wire!Spec
=============================================================================
