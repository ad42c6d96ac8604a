------------------------------- MODULE CNHTTP -------------------------------
(***************************************************************************)
(* The connection table of http/cnhttp.c and the handlers that work on it: *)
(* the request parser (HTTPGotData), the response pump (DoHTTP), the       *)
(* websocket upgrade, the table's connect and disconnect callbacks, and    *)
(* what they call: the open files of mfs.c, the socket table and the       *)
(* delayed-close ring of http_bsd.c, the callbacks of httptest.c.          *)
(*                                                                         *)
(* Data is abstracted to what the handlers branch on.  A received byte is  *)
(* a space, CR, LF or something else; a path is one of the kinds the code  *)
(* tells apart; the length of a file is a number of 256-byte sectors.      *)
(* send_pending only chooses how long poll() sleeps and need_resend,       *)
(* bytessofar and ccb are never read, so these fields are left out.        *)
(***************************************************************************)
EXTENDS Integers, FiniteSets

CONSTANTS
  HTTP_CONNECTIONS,      \* slots in the connection table
  HTTP_SERVER_TIMEOUT,   \* timed ticks a silent request may last
  TIMEOUT_WRAP,          \* 2^16: HTTPConnection.timeout is a uint16_t
  MAX_HTTP_PATHLEN,      \* bytes in pathbuffer
  DESTROY_SOCKETS_LIST,  \* length of the delayed-close ring
  Sockets,               \* descriptors accept() may return
  NoSock,                \* 0, "no socket" in the table and in the ring
  BadSock,               \* -1, what a failing accept() returns
  Streams, NoStream,     \* FILE objects, and the null pointer
  PathKinds,             \* the kinds of path clients ask for
  MaxFile,               \* longest file, in sectors
  FileLengths,           \* lengths measured when a file, or a directory, is opened
  CURLEN_WRAP,           \* 2^16: curlen is a uint16_t
  CNHTTP_MTU             \* bytes of the buffer WSCommandData copies a frame to

StaticPaths  == {"file", "missing"}
DynamicPaths == {"/d/huge", "/d/echo?", "/d/issue?", "/d/exit", "/d/other"}
SocketPaths  == {"/d/ws/echo", "/d/ws/issue", "/d/ws/other"}

ASSUME TableAssumption ==
  /\ HTTP_CONNECTIONS \in Nat \ {0}
  /\ DESTROY_SOCKETS_LIST \in Nat \ {0}
  /\ HTTP_SERVER_TIMEOUT \in Nat
  /\ TIMEOUT_WRAP \in Nat /\ TIMEOUT_WRAP > HTTP_SERVER_TIMEOUT + 1
  /\ MAX_HTTP_PATHLEN \in Nat /\ MAX_HTTP_PATHLEN > 1
  /\ MaxFile \in Nat /\ FileLengths \subseteq 0 .. MaxFile + 1
  /\ CURLEN_WRAP \in Nat \ {0}
  /\ CNHTTP_MTU \in Nat

ASSUME SocketAssumption ==
  /\ NoSock \notin Sockets /\ BadSock \notin Sockets /\ NoSock # BadSock
  /\ NoStream \notin Streams
  /\ PathKinds \subseteq StaticPaths \cup DynamicPaths \cup SocketPaths

VARIABLES
  conn,            \* HTTPConnections: slot -> struct HTTPConnection
  bsd,             \* http_bsd_sockets: slot -> descriptor
  ring, head,      \* destroy_sockets, destroy_socket_head
  fds,             \* descriptors accepted and not yet closed
  streams,         \* FILE objects that are open
  intact,          \* those that read to the length measured when opened
  curlen,          \* bytes of the current chunk still to parse
  beyond,          \* curlen counts bytes that are not there, or a buffer overran
  cork_binary_rx   \* set when a websocket frame came in pieces

sockVars == <<bsd, ring, head, fds>>
fileVars == <<streams, intact>>
rxVars   == <<curlen, beyond, cork_binary_rx>>
httpVars == <<conn, sockVars, fileVars, rxVars>>

Slots == 0 .. HTTP_CONNECTIONS - 1
Bytes == {"sp", "cr", "lf", "ch"}

\* 0xfffffffe and 0xffffffff in bytesleft, the latter also measured of a
\* directory: no length is announced.
NoLength == MaxFile + 1

RequestStates == {"WAIT_METHOD", "WAIT_PATH", "WAIT_PROTO", "WAIT_FLAG", "WAIT_INFLAG"}
ConnStates == RequestStates \cup {"NONE", "DATA_XFER", "DATA_WEBSOCKET", "WAIT_CLOSE"}

Connection ==
  [state : ConnStates, state_deets : Nat, path : PathKinds \cup {""},
   is_dynamic : BOOLEAN, timeout : 0 .. TIMEOUT_WRAP - 1,
   file : Streams \cup {NoStream}, bytesleft : 0 .. NoLength,
   rcb : {"", "huge", "echo", "issue"}, rcbDat : {"", "WSEchoData", "WSCommandData"},
   is404 : BOOLEAN, isdone : BOOLEAN, isfirst : BOOLEAN, keep_alive : BOOLEAN,
   socket : Sockets \cup {NoSock, BadSock}]

\* Static storage: every byte of the table is zero.
ZeroConnection ==
  [state |-> "NONE", state_deets |-> 0, path |-> "", is_dynamic |-> FALSE,
   timeout |-> 0, file |-> NoStream, bytesleft |-> 0, rcb |-> "", rcbDat |-> "",
   is404 |-> FALSE, isdone |-> FALSE, isfirst |-> FALSE, keep_alive |-> FALSE,
   socket |-> NoSock]

HttpInit ==
  /\ conn = [i \in Slots |-> ZeroConnection]
  /\ bsd = [i \in Slots |-> NoSock]
  /\ ring = [k \in 0 .. DESTROY_SOCKETS_LIST - 1 |-> NoSock]
  /\ head = 0
  /\ fds = {}
  /\ streams = {} /\ intact = {}
  /\ curlen = 0 /\ beyond = FALSE
  /\ cork_binary_rx = FALSE

\* The types of the table and of what hangs off it.
TablesTypeOK ==
  /\ conn \in [Slots -> Connection]
  /\ bsd \in [Slots -> Sockets \cup {NoSock, BadSock}]
  /\ ring \in [0 .. DESTROY_SOCKETS_LIST - 1 -> Sockets \cup {NoSock, BadSock}]
  /\ head \in 0 .. DESTROY_SOCKETS_LIST - 1
  /\ fds \subseteq Sockets
  /\ intact \subseteq streams /\ streams \subseteq Streams

-----------------------------------------------------------------------------
(* Connecting and disconnecting.                                           *)

Free == {i \in Slots : conn[i].state = "NONE"}

\* The first free slot takes the socket.  Nothing else in it is reset.
httpserver_connectcb(i, s) ==
  /\ i \in Free /\ \A j \in Free : i <= j
  /\ conn' = [conn EXCEPT ![i].socket = s, ![i].state = "WAIT_METHOD"]

\* Mutant: only a transfer that reached its end closes its file.
ClosedStreams_WhenDone(t, S) == {t[j].file : j \in {m \in S : t[m].isdone}}

\* What MFSClose() closes when the slots in S of table t are disconnected:
\* the handle of a slot that is not dynamic, open or not, and it is kept.
ClosedStreams(t, S) == {t[j].file : j \in {m \in S : ~t[m].is_dynamic}}

http_disconnetcb(t, S) ==
  /\ conn' = [j \in Slots |-> IF j \in S THEN [t[j] EXCEPT !.state = "NONE"] ELSE t[j]]
  /\ streams' = streams \ ClosedStreams(t, S)
  /\ intact' = intact \ ClosedStreams(t, S)

\* Mutant: the head of the ring is not wrapped.
et_espconn_disconnect_NoWrap(t, s) ==
  LET users == {j \in Slots : bsd[j] = s} IN
  /\ http_disconnetcb(t, users)
  /\ bsd' = [j \in Slots |-> IF j \in users THEN NoSock ELSE bsd[j]]
  /\ fds' = fds \ {ring[head]}
  /\ ring' = [ring EXCEPT ![head] = s]
  /\ head' = head + 1

\* Mutant: the socket is closed at once and put in the ring all the same.
et_espconn_disconnect_AtOnce(t, s) ==
  LET users == {j \in Slots : bsd[j] = s} IN
  /\ http_disconnetcb(t, users)
  /\ bsd' = [j \in Slots |-> IF j \in users THEN NoSock ELSE bsd[j]]
  /\ fds' = fds \ {ring[head], s}
  /\ ring' = [ring EXCEPT ![head] = s]
  /\ head' = (head + 1) % DESTROY_SOCKETS_LIST

\* Shut the socket down, free every slot that uses it, and put it in the ring
\* in the place of the oldest one, which is closed.
et_espconn_disconnect(t, s) ==
  LET users == {j \in Slots : bsd[j] = s} IN
  /\ http_disconnetcb(t, users)
  /\ bsd' = [j \in Slots |-> IF j \in users THEN NoSock ELSE bsd[j]]
  /\ fds' = fds \ {ring[head]}
  /\ ring' = [ring EXCEPT ![head] = s]
  /\ head' = (head + 1) % DESTROY_SOCKETS_LIST

\* h is slot i's record as the caller leaves it.
HTTPClose(i, h) ==
  et_espconn_disconnect([conn EXCEPT ![i] = [h EXCEPT !.state = "WAIT_CLOSE"]], h.socket)

Update(i, h) == /\ conn' = [conn EXCEPT ![i] = h]
                /\ UNCHANGED <<sockVars, fileVars>>

CloseOrKeepAlive(i) ==
  IF conn[i].keep_alive
  THEN Update(i, [conn[i] EXCEPT !.state = "WAIT_METHOD"])
  ELSE HTTPClose(i, conn[i])

-----------------------------------------------------------------------------
(* Starting a response: InternalStartHTTP, with MFSOpenFile and the        *)
(* application's HTTPCustomStart.                                          *)

Started(h) == [h EXCEPT !.state = "DATA_XFER", !.isfirst = TRUE, !.isdone = FALSE]

\* A transfer whose FILE another slot's second fclose() closed still reads f.
ReadByOther(f) ==
  \E j \in Slots : conn[j].state = "DATA_XFER" /\ ~conn[j].is_dynamic /\ conn[j].file = f

\* fopen() may return any FILE object that is not in use.  Its length is
\* measured here; what will be read may be another one: a directory cannot be
\* read, a file may be truncated or grow meanwhile, another slot may read it.
StartFile(i) ==
  /\ conn[i].path = "file"
  /\ \E f \in Streams \ streams, n \in FileLengths, stays \in BOOLEAN :
       /\ stays => n <= MaxFile /\ ~ReadByOther(f)
       /\ conn' = [conn EXCEPT ![i] =
                     [Started(@) EXCEPT !.is404 = FALSE, !.is_dynamic = FALSE,
                                        !.file = f, !.bytesleft = n]]
       /\ streams' = streams \cup {f}
       /\ intact' = IF stays THEN intact \cup {f} ELSE intact
  /\ UNCHANGED sockVars

StartMissing(i) ==
  /\ conn[i].path = "missing"
  /\ Update(i, [Started(conn[i]) EXCEPT !.is404 = TRUE, !.is_dynamic = FALSE,
                                        !.file = NoStream])

\* HTTPCustomStart ends in HTTPHandleInternalCallback, which sends the header
\* at once; keep_alive says whether that header announced a length.
HTTPCustomStart(i, cb, n) ==
  Update(i, [Started(conn[i]) EXCEPT !.is404 = FALSE, !.is_dynamic = TRUE,
               !.isfirst = FALSE, !.rcb = cb, !.bytesleft = n, !.keep_alive = (n # NoLength)])

StartDynamic(i) ==
  \/ conn[i].path = "/d/huge"   /\ HTTPCustomStart(i, "huge", NoLength)
  \/ conn[i].path = "/d/echo?"  /\ HTTPCustomStart(i, "echo", NoLength)
  \/ conn[i].path = "/d/issue?" /\ HTTPCustomStart(i, "issue", NoLength)
  \/ conn[i].path = "/d/other"  /\ HTTPCustomStart(i, "", 0)

\* "/d/exit" ends the process: see HTTPBSD!Exit.
InternalStartHTTP(i) == StartFile(i) \/ StartMissing(i) \/ StartDynamic(i)

-----------------------------------------------------------------------------
(* HTTPGotData, one byte c of slot i's chunk at a time.                    *)

Goto(i, s) == Update(i, [conn[i] EXCEPT !.state = s])
Skip == UNCHANGED <<conn, sockVars, fileVars>>

GotMethod(i, c) ==
  /\ conn[i].state = "WAIT_METHOD"
  /\ IF c = "sp" THEN Update(i, [conn[i] EXCEPT !.state = "WAIT_PATH", !.state_deets = 0])
                 ELSE Skip

\* The byte is stored at state_deets, which stays below MAX_HTTP_PATHLEN.
\* The space that ends the path decides what kind of path it was.
GotPath(i, c) ==
  LET next == conn[i].state_deets + 1 IN
  /\ conn[i].state = "WAIT_PATH"
  /\ IF c # "sp"
     THEN Update(i, [conn[i] EXCEPT !.state_deets =
                       IF next = MAX_HTTP_PATHLEN THEN MAX_HTTP_PATHLEN - 1 ELSE next])
     ELSE \E p \in PathKinds :
            Update(i, [conn[i] EXCEPT !.path = p, !.state_deets = 0,
                         !.state = IF p \in SocketPaths THEN "DATA_WEBSOCKET" ELSE "WAIT_PROTO"])

GotProto(i, c) ==
  /\ conn[i].state = "WAIT_PROTO"
  /\ IF c = "lf" THEN Goto(i, "WAIT_FLAG") ELSE Skip

\* A header line starts here; an empty one starts the response.
GotFlag(i, c) ==
  /\ conn[i].state = "WAIT_FLAG"
  /\ \/ c = "lf" /\ InternalStartHTTP(i)
     \/ c = "cr" /\ Skip
     \/ c \in {"sp", "ch"} /\ Goto(i, "WAIT_INFLAG")

GotInFlag(i, c) ==
  /\ conn[i].state = "WAIT_INFLAG"
  /\ IF c = "lf" THEN Update(i, [conn[i] EXCEPT !.state = "WAIT_FLAG", !.state_deets = 0])
                 ELSE Skip

GotWhileClosing(i) == conn[i].state = "WAIT_CLOSE" /\ CloseOrKeepAlive(i)

\* Bytes for a slot that was closed earlier in the chunk are ignored.
GotNothing(i) == conn[i].state = "NONE" /\ Skip

\* One byte and no more of the chunk is used.
GotPlainByte(i, c) ==
  /\ \/ GotMethod(i, c) \/ GotPath(i, c) \/ GotProto(i, c) \/ GotFlag(i, c)
     \/ GotInFlag(i, c) \/ GotWhileClosing(i) \/ GotNothing(i)
  /\ curlen' = curlen - 1
  /\ UNCHANGED <<beyond, cork_binary_rx>>

\* Anything received during a transfer is thrown away with its chunk.
GotDuringTransfer(i) ==
  /\ conn[i].state = "DATA_XFER"
  /\ curlen' = 0
  /\ Skip
  /\ UNCHANGED <<beyond, cork_binary_rx>>

-----------------------------------------------------------------------------
(* WebSocketGotData.                                                       *)

NewWebSocket(h) ==
  CASE h.path = "/d/ws/echo"  -> [h EXCEPT !.rcb = "", !.rcbDat = "WSEchoData"]
    [] h.path = "/d/ws/issue" -> [h EXCEPT !.rcb = "", !.rcbDat = "WSCommandData"]
    [] OTHER                  -> [h EXCEPT !.is404 = TRUE]

\* state_deets 0: the key is looked for in what is left of this chunk only.
WebSocketKey(i) ==
  LET h == [conn[i] EXCEPT !.is_dynamic = TRUE] IN
  /\ conn[i].state_deets = 0
  /\ \/ \* no key, an invalid key, or one that is too long
        /\ Update(i, [h EXCEPT !.state = "WAIT_CLOSE"])
        /\ curlen' \in 0 .. curlen - 1
     \/ \* a key, and at least two more bytes
        /\ Update(i, [NewWebSocket(h) EXCEPT !.state_deets = 1, !.bytesleft = 0])
        /\ curlen' \in 2 .. curlen - 2
  /\ UNCHANGED <<beyond, cork_binary_rx>>

\* Mutant: the stage is counted on past the blank line.
WebSocketHeader_CountsOn(i, c) ==
  LET d == conn[i].state_deets IN
  /\ d \in 1 .. 4
  /\ Update(i, [conn[i] EXCEPT !.state_deets =
       CASE d = 1 -> IF c = "lf" THEN 2 ELSE 1
         [] d = 2 -> IF c = "cr" THEN 3 ELSE 1
         [] d = 3 -> IF c = "lf" THEN 4 ELSE 1
         [] d = 4 -> IF c = "lf" THEN 6 ELSE 4])
  /\ curlen' = curlen - 1
  /\ UNCHANGED <<beyond, cork_binary_rx>>

\* state_deets 1 to 4: a blank line ends the header.
WebSocketHeader(i, c) ==
  LET d == conn[i].state_deets IN
  /\ d \in 1 .. 4
  /\ Update(i, [conn[i] EXCEPT !.state_deets =
       CASE d = 1 -> IF c = "lf" THEN 2 ELSE 1
         [] d = 2 -> IF c = "cr" THEN 3 ELSE 1
         [] d = 3 -> IF c = "lf" THEN 4 ELSE 1
         [] d = 4 -> 4])
  /\ curlen' = curlen - 1
  /\ UNCHANGED <<beyond, cork_binary_rx>>

\* The rest of the chunk, r bytes after the header, either holds a payload of a
\* length in P, which the application takes, or does not: the connection is
\* to be closed.  What the application answers changes no state kept here.
FramePayload(i, r, P, past) ==
  \/ \E p \in P :
       /\ p <= r
       /\ curlen' = r - p
       /\ beyond' = (past \/ (conn[i].rcbDat = "WSCommandData" /\ p > CNHTTP_MTU))
       /\ Skip
       /\ UNCHANGED cork_binary_rx
  \/ /\ \E p \in P : p > r
     /\ curlen' = r
     /\ beyond' = past
     /\ cork_binary_rx' = TRUE
     /\ Goto(i, "WAIT_CLOSE")

\* Mutant: bytes that are too few to interpret are waited for.
WebSocketFrame_Waits(i) ==
  LET n == curlen - 1 IN
  /\ conn[i].state_deets = 5
  /\ \/ /\ n < 5
        /\ curlen' = curlen
        /\ Skip
        /\ UNCHANGED <<beyond, cork_binary_rx>>
     \/ /\ n >= 5
        /\ FramePayload(i, n - 5, 0 .. 125, beyond)

\* state_deets 5: a frame.  n bytes follow the one at hand: one of length,
\* perhaps two of a longer length, and four of mask.  Only n < 5 is tested, so
\* with n = 5 or 6 a longer length takes more off curlen than there is.  Memory
\* is taken to end before curlen wraps a second time within a chunk.
WebSocketFrame(i) ==
  LET n == curlen - 1 IN
  /\ conn[i].state_deets = 5
  /\ \/ \* too short to interpret
        /\ n < 5
        /\ curlen' = n
        /\ Skip
        /\ UNCHANGED <<beyond, cork_binary_rx>>
     \/ \* unmasked, or a length of eight bytes
        /\ n >= 5
        /\ curlen' = n - 1
        /\ Goto(i, "WAIT_CLOSE")
        /\ UNCHANGED <<beyond, cork_binary_rx>>
     \/ \* the length in one byte
        /\ n >= 5
        /\ FramePayload(i, n - 5, 0 .. 125, beyond)
     \/ \* the length in two more bytes
        /\ n >= IF beyond THEN 7 ELSE 5
        /\ FramePayload(i, (n - 7) % CURLEN_WRAP, 0 .. CURLEN_WRAP - 1, beyond \/ n < 7)

WebSocketGotData(i, c) ==
  /\ conn[i].state = "DATA_WEBSOCKET"
  /\ WebSocketKey(i) \/ WebSocketHeader(i, c) \/ WebSocketFrame(i)

HTTPGotByte(i, c) ==
  GotPlainByte(i, c) \/ GotDuringTransfer(i) \/ WebSocketGotData(i, c)

-----------------------------------------------------------------------------
(* DoHTTP, the part of HTTPTick that serves slot i.                        *)

\* HTTPHandleInternalCallback, one alternative per early return.
FinishFile(i) == conn[i].isdone /\ HTTPClose(i, conn[i])

Send404(i) ==
  /\ ~conn[i].isdone /\ conn[i].is404
  /\ Update(i, [conn[i] EXCEPT !.isdone = TRUE])

SendHeader(i) ==
  /\ ~conn[i].isdone /\ ~conn[i].is404 /\ conn[i].isfirst
  /\ Update(i, [conn[i] EXCEPT !.isfirst = FALSE,
                               !.keep_alive = (conn[i].bytesleft # NoLength)])

\* fread() of up to n sectors: what is left goes down by what was read.  Of a
\* FILE that is not intact any number of bytes may come, none at all (what is
\* left stays as it is) or more than were left (the uint32_t wraps).
MFSReadSector(h, n) ==
  IF h.bytesleft = 0 \/ h.file \in intact
  THEN {IF h.bytesleft <= n THEN 0 ELSE h.bytesleft - n}
  ELSE 0 .. NoLength

\* Mutant: done one sector too early.
SendSectors_Early(i) ==
  /\ ~conn[i].isdone /\ ~conn[i].is404 /\ ~conn[i].isfirst
  /\ \E left \in MFSReadSector(conn[i], 2) :
       Update(i, [conn[i] EXCEPT !.bytesleft = left, !.isdone = (left <= 1)])

\* Mutant: what is left of the file is not stored.
SendSectors_Again(i) ==
  /\ ~conn[i].isdone /\ ~conn[i].is404 /\ ~conn[i].isfirst
  /\ Update(i, [conn[i] EXCEPT !.isdone = (conn[i].bytesleft = 0)])

SendSectors(i) ==
  /\ ~conn[i].isdone /\ ~conn[i].is404 /\ ~conn[i].isfirst
  /\ \E left \in MFSReadSector(conn[i], 2) :
       Update(i, [conn[i] EXCEPT !.bytesleft = left, !.isdone = (left = 0)])

HTTPHandleInternalCallback(i) ==
  FinishFile(i) \/ Send404(i) \/ SendHeader(i) \/ SendSectors(i)

\* The application's rcb: echo and issue answer once and ask for the close,
\* huge sends for ever, and without one isdone is set, which nobody reads.
RunCallback(i) ==
  CASE conn[i].rcb \in {"echo", "issue"} -> Goto(i, "WAIT_CLOSE")
    [] conn[i].rcb = "huge"              -> Skip
    [] conn[i].rcb = ""                  -> Update(i, [conn[i] EXCEPT !.isdone = TRUE])

WebSocketTickInternal(i) ==
  CASE conn[i].state_deets = 4 ->
         Update(i, [conn[i] EXCEPT !.state_deets = 5, !.keep_alive = FALSE])
    [] conn[i].state_deets = 5 /\ conn[i].rcb # "" -> RunCallback(i)
    [] OTHER -> Skip

\* What happens when TCPCanSend or TCPDoneSend says yes.
Serve(i) ==
  \/ /\ conn[i].state = "DATA_XFER"
     /\ IF conn[i].is_dynamic THEN RunCallback(i) ELSE HTTPHandleInternalCallback(i)
  \/ conn[i].state = "WAIT_CLOSE" /\ CloseOrKeepAlive(i)
  \/ conn[i].state = "DATA_WEBSOCKET" /\ WebSocketTickInternal(i)

Blocked(i) == conn[i].state \in {"DATA_XFER", "WAIT_CLOSE", "DATA_WEBSOCKET"} /\ Skip

\* Mutant: the limit is one that the counter cannot exceed.
CountTimeout_Never(i, timed) ==
  LET h == [conn[i] EXCEPT !.timeout = (@ + 1) % TIMEOUT_WRAP] IN
  /\ conn[i].state \in RequestStates
  /\ \/ ~timed /\ Skip
     \/ timed /\ conn[i].timeout > TIMEOUT_WRAP /\ HTTPClose(i, h)
     \/ timed /\ conn[i].timeout <= TIMEOUT_WRAP /\ Update(i, h)

CountTimeout(i, timed) ==
  LET h == [conn[i] EXCEPT !.timeout = (@ + 1) % TIMEOUT_WRAP] IN
  /\ conn[i].state \in RequestStates
  /\ \/ ~timed /\ Skip
     \/ timed /\ conn[i].timeout > HTTP_SERVER_TIMEOUT /\ HTTPClose(i, h)
     \/ timed /\ conn[i].timeout <= HTTP_SERVER_TIMEOUT /\ Update(i, h)

DoHTTP(i, timed) ==
  \/ conn[i].state = "NONE" /\ Skip
  \/ Blocked(i)
  \/ Serve(i)
  \/ CountTimeout(i, timed)
=============================================================================
