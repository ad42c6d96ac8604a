---------------------------- MODULE CNHTTPClient ----------------------------
(***************************************************************************)
(* The HTTP client of ssl/cnhttpclient.c over the connections of           *)
(* ssl/cnsslclient.c: CNHTTPClientTransact from the request to the         *)
(* response it returns, then CNHTTPClientWSSend, CNHTTPClientWSRecv and    *)
(* CNHTTPClientCleanup in the order ssl/clienttest.c calls them.           *)
(*                                                                         *)
(* The server's answer is a message of Messages, of which it sends `cut'   *)
(* bytes before it closes or resets the connection or falls silent; recv   *)
(* may split those bytes in any way.  A byte is a one-character string, CR *)
(* or LF; the header is one line of the character h.  A URL is a sequence  *)
(* of parts, <<kind, value, bytes>>: a scheme, a colon, a slash, a number  *)
(* or any other text, whose value only says which it is.  A host is one    *)
(* text.  Of other headers only the lengths are kept.                      *)
(* underlying_connection of the answer is conn.                            *)
(***************************************************************************)
EXTENDS Integers, Sequences, SequencesExt, FiniteSetsExt

CONSTANTS
  Requests,             \* the requests the program makes
  Messages,             \* the answers the server may give
  None,                 \* a string pointer that is 0
  BLOCK,                \* bytes read at once (8192)
  MAX_RESPONSE_LENGTH,  \* bytes of the longest response (25000000)
  FRAME_MIN,            \* bytes before a frame is looked at (10)
  RECV_LENGTH,          \* size of the buffer the program passes to WSRecv
  MAX_RECV,             \* calls of WSRecv: a bound of the model
  Frames,               \* <<bytes before the payload, its length>> received
  SEND_LENGTHS,         \* lengths of what the program sends
  SERVER_CHUNK,         \* bytes the server reads at once (8192)
  PIECES                \* how many bytes of a frame the server may read first

ASSUME ClientAssumption ==
  /\ BLOCK \in Nat \ {0} /\ MAX_RESPONSE_LENGTH \in Nat /\ FRAME_MIN \in Nat
  /\ RECV_LENGTH \in Nat /\ MAX_RECV \in Nat
  /\ Frames \subseteq {2, 4, 6, 8, 10, 14} \X Int
  /\ SEND_LENGTHS \subseteq Nat
  /\ SERVER_CHUNK \in Nat /\ SERVER_CHUNK <= 65535 /\ PIECES \subseteq Nat \ {0}

Colon == <<"colon", 0, 1>>
Slash == <<"slash", 0, 1>>
Texts == {"text"} \X Nat \X (Nat \ {0})
Parts == {"text", "number", "colon", "slash"} \X Nat \X (Nat \ {0})
Schemes == {"ws", "wss", "http", "https"}

\* A request and the names that its URL is made of
ASSUME RequestAssumption ==
  /\ None \notin Nat /\ None \notin Schemes /\ None \notin Texts /\ None \notin Seq(Parts)
  /\ \A r \in Requests :
       /\ r.is_secure \in BOOLEAN /\ r.port \in Nat /\ r.host \in Texts \cup {None}
       /\ r.origin \in Nat /\ r.added \in Nat
       /\ r.Proxy # None => r.Proxy.host \in Texts /\ r.Proxy.port \in Nat \cup {None}
       /\ r.names.scheme \in Schemes \cup {None}
       /\ r.names.host \in Texts /\ r.names.port \in Nat \cup {None}
       /\ r.names.path \in Seq(Parts)
       /\ r.names.scheme # None => r.names.path = <<>> \/ Head(r.names.path) = Slash

VARIABLES
  pc,      \* the step the program is at
  req,     \* the request, None once it was sent
  is_websocket,
  server,  \* [msg, cut, then]: then is close, reset or silence
  pos,     \* bytes of the answer that were read: responselength
  resp,    \* the locals of the read loop
  ret,     \* the response that is returned
  conn,    \* struct cnsslinternal: none, live, freed or twice (freed twice)
  socks,   \* descriptors that are open
  ws       \* [sent, piece, calls, frame, got, result]: the frame WSSend wrote, WSRecv

vars == <<pc, req, is_websocket, server, pos, resp, ret, conn, socks, ws>>

-----------------------------------------------------------------------------
\* Which host to connect to

\* Bytes of "%d"
Digits(n) == Cardinality({d \in 1 .. 9 : 10 ^ d <= n}) + 1

SchemeBytes == [ws |-> 5, wss |-> 6, http |-> 7, https |-> 8]
HostPort(host, port) ==
  <<host>> \o (IF port = None THEN <<>> ELSE <<Colon, <<"number", port, Digits(port)>>>>)

\* What the program passes as URL; without a scheme it is the path.
URL(r) ==
  LET n == r.names
  IN IF n.scheme = None THEN n.path
     ELSE <<<<"scheme", n.scheme, SchemeBytes[n.scheme]>>>> \o HostPort(n.host, n.port) \o n.path

\* Where parts of a kind are, and what is before a place
Places(kinds, u) == {i \in DOMAIN u : u[i][1] \in kinds}
Before(u, i) == SubSeq(u, 1, i - 1)

\* atoi
Number(u, i) == IF i \in Places({"number"}, u) THEN u[i][2] ELSE 0

\* is_http_string, and urlptr after it
HasScheme(r) == r.Proxy = None /\ URL(r) # <<>> /\ Head(URL(r))[1] = "scheme"
Scheme(r)    == IF HasScheme(r) THEN Head(URL(r))[2] ELSE None
Rest(r)      == IF HasScheme(r) THEN Tail(URL(r)) ELSE URL(r)
Secure(r)    == r.is_secure \/ Scheme(r) \in {"wss", "https"}
WebSocket(r) == Scheme(r) \in {"ws", "wss"}

\* The path starts at the first slash.  Up to there a colon or the slash ends a
\* host, and a colon that is not the first character starts a port.
PathAt(u) == Min(Places({"slash"}, u) \cup {Len(u) + 1})
Marks(u)  == {i \in Places({"colon", "slash"}, u) : i <= PathAt(u)}

\* Mutant: the search goes on behind the slash.
Colons_Path(u) == {i \in Places({"colon"}, u) : 1 < i}
Colons(u) == {i \in Places({"colon"}, u) : 1 < i /\ i < PathAt(u)}

\* Proxy as it is written, and the colons in it
ProxyText(r) == HostPort(r.Proxy.host, r.Proxy.port)
ProxyColons(r) == Places({"colon"}, ProxyText(r))

\* The host ends at the first mark of the URL; without one it is missed.
SelHost(r) ==
  CASE r.Proxy # None -> Before(ProxyText(r), Min(ProxyColons(r) \cup {Len(ProxyText(r)) + 1}))
    [] r.Proxy = None /\ r.host # None -> <<r.host>>
    [] r.Proxy = None /\ r.host = None ->
         IF HasScheme(r) /\ Marks(Rest(r)) # {} THEN Before(Rest(r), Min(Marks(Rest(r)))) ELSE None

SelPort(r) ==
  CASE r.Proxy # None ->
         IF ProxyColons(r) = {} THEN 80 ELSE Number(ProxyText(r), Max(ProxyColons(r)) + 1)
    [] r.Proxy = None /\ r.port # 0 -> r.port
    [] r.Proxy = None /\ r.port = 0 /\ HasScheme(r) ->
         IF Colons(Rest(r)) # {} THEN Number(Rest(r), Max(Colons(Rest(r))) + 1)
         ELSE IF Secure(r) THEN 443 ELSE 80
    [] r.Proxy = None /\ r.port = 0 /\ ~HasScheme(r) -> 0

\* What stands after Host: ends at the last mark.
ReqHost(r) ==
  IF HasScheme(r) /\ Marks(Rest(r)) # {} THEN Before(Rest(r), Max(Marks(Rest(r))))
  ELSE IF r.host # None THEN <<r.host>> ELSE SelHost(r)

Path(r) == IF HasScheme(r) THEN SubSeq(Rest(r), PathAt(Rest(r)), Len(Rest(r))) ELSE URL(r)

\* strlen
Bytes(u) ==
  LET bytes[k \in 0 .. Len(u)] == IF k = 0 THEN 0 ELSE bytes[k - 1] + u[k][3]
  IN bytes[Len(u)]

\* The path is copied to encodeduri, which has room for three bytes each; the
\* zero byte that ends a string counts too.
EncodedLength(r) == Bytes(Path(r)) + 1
EncodedSize(r)   == 3 * Bytes(Path(r))

\* The fixed text of the upgrade request is 183 bytes, of the plain one 42 and
\* the blank line.
HeaderLength(r) ==
  IF WebSocket(r) THEN Bytes(Path(r)) + Bytes(ReqHost(r)) + 183 + r.origin + r.added + 1
  ELSE 42 + Bytes(Path(r)) + Bytes(ReqHost(r)) + (IF r.post = None THEN 0 ELSE 1 + 18 + Digits(r.post))
          + (IF r.added > 0 THEN r.added + 2 ELSE 0) + 2 + 1

\* sizeof full_header
HeaderSize(r) ==
  IF WebSocket(r) THEN Bytes(Path(r)) + 300 + Bytes(ReqHost(r))
  ELSE Bytes(Path(r)) + 30 + Bytes(ReqHost(r)) + r.added + 50

\* What is printed stays within its two buffers.
Fits(r) == EncodedLength(r) <= EncodedSize(r) /\ HeaderLength(r) <= HeaderSize(r)

-----------------------------------------------------------------------------
\* What the server sends

\* What each hexadecimal digit stands for
HexDigits ==
  LET lower == <<"0", "1", "2", "3", "4", "5", "6", "7", "8", "9", "a", "b", "c", "d", "e", "f">>
      upper == <<"0", "1", "2", "3", "4", "5", "6", "7", "8", "9", "A", "B", "C", "D", "E", "F">>
  IN [c \in ToSet(lower) \cup ToSet(upper) |-> CHOOSE i \in 0 .. 15 : c \in {lower[i + 1], upper[i + 1]}]

\* The number that digits stand for
HexValue(digits) ==
  LET value[k \in 0 .. Len(digits)] ==
        IF k = 0 THEN 0 ELSE 16 * value[k - 1] + HexDigits[digits[k]]
  IN value[Len(digits)]

HeaderBytes == <<"h", "h", "CR", "LF", "CR", "LF">>

\* A chunk is the digits of its size, a line end, its bytes, a line end.
ChunkBytes(c) == c.size \o <<"CR", "LF">> \o c.bytes \o <<"CR", "LF">>

BodyBytes(m) ==
  IF m.honest THEN FlattenSeq([i \in DOMAIN m.body |-> ChunkBytes(m.body[i])])
                   \o <<"0", "CR", "LF", "CR", "LF">>
  ELSE FlattenSeq(m.body)

Wire(m) == HeaderBytes \o BodyBytes(m)

\* A server sends no more than the length it announces; the body of an honest
\* answer is in chunks of the size they say, in up to seven digits, as eight
\* need not fit an int.  There is room for more than a header.
ASSUME MessageAssumption ==
  /\ BLOCK + Len(HeaderBytes) <= MAX_RESPONSE_LENGTH
  /\ None \notin [msg : Messages, cut : Nat, then : {"close", "reset", "silence"}]
  /\ \A m \in Messages :
       /\ m.chunked \in BOOLEAN /\ m.honest \in BOOLEAN
       /\ m.length \in Int /\ (m.length < 0 \/ m.length >= Len(BodyBytes(m)))
       /\ ~m.honest => m.body \in Seq(Seq(STRING))
       /\ m.honest =>
            /\ m.body \in Seq([size : Seq(DOMAIN HexDigits), bytes : Seq(STRING)])
            /\ \A i \in DOMAIN m.body :
                 /\ Len(m.body[i].size) <= 7 /\ m.body[i].bytes # <<>>
                 /\ HexValue(m.body[i].size) = Len(m.body[i].bytes)

Received == SubSeq(Wire(server.msg), 1, pos)

-----------------------------------------------------------------------------
Silent  == [doneheaderat |-> 0, contentlength |-> -1, currentcontent |-> 0, code |-> 2,
            ischunked |-> FALSE, broken |-> FALSE]
NoRet   == [code |-> 0, payloadlen |-> 0, payload |-> <<>>]
NoRecv  == [sent |-> <<>>, piece |-> 0, calls |-> 0, frame |-> <<0, 0>>, got |-> 0, result |-> 0]

Init ==
  /\ pc = "call" /\ req \in Requests /\ is_websocket = FALSE /\ server = None /\ pos = 0 /\ resp = Silent
  /\ ret = NoRet /\ conn = "none" /\ socks = 0 /\ ws = NoRecv

\* CNHTTPClientTransact up to the connection: refused without a host or a port
Transact ==
  /\ pc = "call"
  /\ IF SelPort(req) = 0 \/ SelHost(req) = None
     THEN pc' = "returned" /\ ret' = [NoRet EXCEPT !.code = 1]
     ELSE pc' = "connect" /\ UNCHANGED ret
  /\ is_websocket' = WebSocket(req)
  /\ UNCHANGED <<req, server, pos, resp, conn, socks, ws>>

\* CNSSLMakeClient without a socket, an address or a server that answers
ConnectFails ==
  /\ pc = "connect" /\ pc' = "returned"
  /\ UNCHANGED <<req, is_websocket, server, pos, resp, ret, conn, socks, ws>>

\* SSL_connect fails: the structure is freed, the socket stays open.
AttachFails ==
  /\ pc = "connect" /\ Secure(req) /\ pc' = "returned" /\ socks' = socks + 1
  /\ UNCHANGED <<req, is_websocket, server, pos, resp, ret, conn, ws>>

\* Connected, but a request that does not fit its buffers may end the program.
RequestWild ==
  /\ pc = "connect" /\ ~Fits(req) /\ pc' = "wild" /\ conn' = "live" /\ socks' = socks + 1
  /\ UNCHANGED <<req, is_websocket, server, pos, resp, ret, ws>>

\* Connected, the request is written, and the server will answer in its way.
Connect ==
  /\ pc = "connect" /\ pc' = "read" /\ conn' = "live" /\ socks' = socks + 1
  /\ \E m \in Messages, then \in {"close", "reset", "silence"} :
       \E cut \in 0 .. Len(Wire(m)) : server' = [msg |-> m, cut |-> cut, then |-> then]
  /\ req' = None
  /\ UNCHANGED <<is_websocket, pos, resp, ret, ws>>

-----------------------------------------------------------------------------
\* The read loop

\* Mutant: the bytes before this read are not looked at again.
HeaderEnd_ThisRead(k0, k1) ==
  LET ends == {k \in k0 .. k1 - 1 : k > k0 + 3 /\ SubSeq(Wire(server.msg), k - 2, k + 1)
                                       = <<"CR", "LF", "CR", "LF">>}
  IN IF ends = {} THEN 0 ELSE Min(ends) + 1

\* doneheaderat once bytes k0 .. k1-1 have arrived
HeaderEnd(k0, k1) ==
  LET ends == {k \in k0 .. k1 - 1 : k > 3 /\ SubSeq(Wire(server.msg), k - 2, k + 1)
                                       = <<"CR", "LF", "CR", "LF">>}
  IN IF ends = {} THEN 0 ELSE Min(ends) + 1

\* What the header says; a status line without a blank ends the loop at once.
Parsed(done, length) ==
  LET m == server.msg
  IN IF m.code = None THEN [resp EXCEPT !.doneheaderat = done, !.broken = TRUE]
     ELSE [doneheaderat |-> done, contentlength |-> m.length, code |-> m.code,
           currentcontent |-> length - done, ischunked |-> m.chunked,
           broken |-> m.code = 101 /\ is_websocket]

Arrived(n) ==
  LET done == HeaderEnd(pos, pos + n)
  IN CASE resp.doneheaderat > 0 -> [resp EXCEPT !.currentcontent = @ + n]
       [] resp.doneheaderat = 0 /\ done > 0 -> Parsed(done, pos + n)
       [] resp.doneheaderat = 0 /\ done = 0 -> resp

\* Mutant: an answer with a length is read on until the server closes.
More_Forever == pos < MAX_RESPONSE_LENGTH - BLOCK /\ ~resp.broken

More ==
  /\ pos < MAX_RESPONSE_LENGTH - BLOCK /\ ~resp.broken
  /\ resp.contentlength < 0 \/ resp.currentcontent < resp.contentlength

Read ==
  /\ pc = "read" /\ More
  /\ \E n \in 1 .. Min({BLOCK, server.cut - pos}) : pos' = pos + n /\ resp' = Arrived(n)
  /\ UNCHANGED <<pc, req, is_websocket, server, ret, conn, socks, ws>>

\* rc <= 0 once the server has closed or reset, or the loop's condition has failed
ReadEnds ==
  /\ pc = "read" /\ (~More \/ (pos = server.cut /\ server.then # "silence")) /\ pc' = "decode"
  /\ UNCHANGED <<req, is_websocket, server, pos, resp, ret, conn, socks, ws>>

-----------------------------------------------------------------------------
\* The payload

\* The content is read chunk by chunk: text[p] is what follows offset p.  Up to
\* ten digits are a length; what ends them and one byte more are skipped.  Bytes
\* past the content are not set: no chunk that reaches them is kept.
Unchunked(content) ==
  LET size == Len(content)
      Digit(i) == i < size /\ content[i + 1] \in DOMAIN HexDigits
      text[p \in 0 .. size + 2] ==
        LET digits == Min({i \in 0 .. 10 : i = 10 \/ ~Digit(p + i)})
            chunklen == HexValue(SubSeq(content, p + 1, p + digits))
            data == p + digits + (IF digits = 10 THEN 1 ELSE 2)
        IN IF chunklen = 0 \/ data + chunklen >= size THEN <<>>
           ELSE SubSeq(content, data + 1, data + chunklen) \o text[data + chunklen + 2]
  IN text[0]

\* A chunked text is counted one byte short; when that leaves nothing, the raw
\* content takes its place.
Payload(content) ==
  LET text == Unchunked(content)
  IN IF resp.ischunked /\ Len(text) > 1 THEN [code |-> resp.code, payloadlen |-> Len(text) - 1,
                                               payload |-> text]
     ELSE [code |-> resp.code, payloadlen |-> resp.currentcontent, payload |-> content]

\* Mutant: the connection is closed although the answer keeps it.
Decode_Closes ==
  /\ pc = "decode" /\ pc' = "returned"
  /\ ret' = Payload(SubSeq(Received, resp.doneheaderat + 1, resp.doneheaderat + resp.currentcontent))
  /\ conn' = "freed" /\ socks' = socks - 1
  /\ UNCHANGED <<req, is_websocket, server, pos, resp, ws>>

\* The response is built; CNSSLClose, unless a WebSocket keeps the connection
Decode ==
  /\ pc = "decode" /\ pc' = "returned"
  /\ ret' = Payload(SubSeq(Received, resp.doneheaderat + 1, resp.doneheaderat + resp.currentcontent))
  /\ IF is_websocket THEN UNCHANGED <<conn, socks>> ELSE conn' = "freed" /\ socks' = socks - 1
  /\ UNCHANGED <<req, is_websocket, server, pos, resp, ws>>

-----------------------------------------------------------------------------
\* The WebSocket

\* Mutant: 126 bytes still go into the short form.
LengthBytes_126(length) ==
  IF length > 65535 THEN <<255, 0, 0, 0, 0, length \div 2 ^ 24, (length \div 2 ^ 16) % 256,
                           (length \div 256) % 256, length % 256>>
  ELSE IF length > 126 THEN <<254, length \div 256, length % 256>>
  ELSE <<128 + length>>

\* The length in its shortest form, with the bit that says there is a mask
LengthBytes(length) ==
  IF length > 65535 THEN <<255, 0, 0, 0, 0, length \div 2 ^ 24, (length \div 2 ^ 16) % 256,
                           (length \div 256) % 256, length % 256>>
  ELSE IF length > 125 THEN <<254, length \div 256, length % 256>>
  ELSE <<128 + length>>

\* The bytes before the payload: the mask is always zero.
FrameHead(length) == <<129>> \o LengthBytes(length) \o <<0, 0, 0, 0>>

\* What http/cnhttp.c makes of it if the first piece it reads has k bytes; n of
\* them follow the first.  It skips a piece that is too short to look at, drops
\* the connection when a length has eight bytes or the payload is not there, and
\* reads beyond the piece when that ends in a longer length or its mask: curlen,
\* an uint16_t, is then more than 65533.
ServerReads(head, k) ==
  LET n == k - 1
      code == head[2] % 128
      length == IF code = 126 THEN 256 * head[3] + head[4] ELSE code
      at == IF code = 126 THEN 8 ELSE 6
      Outcome(what) == [what |-> what, at |-> at, length |-> length]
  IN CASE n < 5 -> Outcome("skipped")
       [] n >= 5 /\ (head[2] < 128 \/ code = 127) -> Outcome("refused")
       [] n >= 5 /\ head[2] >= 128 /\ code < 127 ->
            IF k < at THEN Outcome("beyond")
            ELSE IF k - at < length THEN Outcome("refused") ELSE Outcome("read")

\* The program goes on once the upgrade was answered.
WSSend ==
  /\ pc = "returned" /\ is_websocket /\ ret.code = 101 /\ ws.result >= 0 /\ ws.calls < MAX_RECV
  /\ \E length \in SEND_LENGTHS :
       \E k \in PIECES \cap 1 .. Min({SERVER_CHUNK, Len(FrameHead(length)) + length}) :
         ws' = [ws EXCEPT !.sent = FrameHead(length), !.piece = k]
  /\ pc' = "sent"
  /\ UNCHANGED <<req, is_websocket, server, pos, resp, ret, conn, socks>>

\* The header of the frame that comes is any; masked or not, its first ten bytes
\* say where the payload starts and how long it is.
WSRecv ==
  /\ pc = "sent" /\ pc' = "recv"
  /\ \E frame \in Frames :
       ws' = [NoRecv EXCEPT !.calls = ws.calls + 1, !.frame = frame]
  /\ UNCHANGED <<req, is_websocket, server, pos, resp, ret, conn, socks>>

\* With got bytes there, a call gives up a frame that is too long, and returns
\* when what it has is no more than the frame.
TooLong(got) == got > FRAME_MIN /\ ws.frame[2] > MAX_RESPONSE_LENGTH
Returns(got) == got > FRAME_MIN /\ ~TooLong(got) /\ ws.frame[1] + ws.frame[2] >= got

\* Before it returns it writes the payload, in words, behind the header, whether
\* there is room for it or not, and reads as much after that, and of the buffer
\* of the program before.
Words == 4 * ((ws.frame[2] + 3) \div 4)
Overruns(got) == ws.frame[2] < 0 \/ ws.frame[1] + Words > got + BLOCK
Overreads(got) ==
  Words > RECV_LENGTH \/ ws.frame[1] + Words + Min({ws.frame[2], RECV_LENGTH}) > got + BLOCK

RecvReads ==
  /\ pc = "recv"
  /\ \E n \in 1 .. Min({BLOCK, server.cut - pos}) :
       LET got == ws.got + n IN
       /\ pos' = pos + n
       /\ ~TooLong(got)
       /\ IF Returns(got)
          THEN ~Overruns(got) /\ pc' = "returned"
               /\ ws' = [NoRecv EXCEPT !.calls = ws.calls, !.result = Min({ws.frame[2], RECV_LENGTH})]
          ELSE pc' = "recv" /\ ws' = [ws EXCEPT !.got = got]
  /\ UNCHANGED <<req, is_websocket, server, resp, ret, conn, socks>>

\* Memory that is not there is written or read.  A later read of a call may also
\* put ws.got bytes more into the buffer than it has room for; and an error, -1,
\* is taken for 65535 bytes.
RecvWild ==
  /\ pc = "recv" /\ pc' = "wild"
  /\ \/ \E n \in 1 .. Min({BLOCK, server.cut - pos}) :
          Returns(ws.got + n) /\ (Overruns(ws.got + n) \/ Overreads(ws.got + n))
     \/ ws.got > 0 /\ server.cut - pos > BLOCK
     \/ pos = server.cut /\ server.then = "reset"
  /\ UNCHANGED <<req, is_websocket, server, pos, resp, ret, conn, socks, ws>>

\* The connection is closed at its end, or for a frame that is too long.
RecvCloses ==
  /\ pc = "recv" /\ pc' = "returned"
  /\ \/ pos = server.cut /\ server.then = "close" /\ UNCHANGED pos
     \/ \E n \in 1 .. Min({BLOCK, server.cut - pos}) : TooLong(ws.got + n) /\ pos' = pos + n
  /\ ws' = [NoRecv EXCEPT !.calls = ws.calls, !.result = -1]
  /\ conn' = "freed" /\ socks' = socks - 1
  /\ UNCHANGED <<req, is_websocket, server, resp, ret>>

\* CNHTTPClientCleanup frees the structure and leaves its socket open.
Cleanup ==
  /\ pc = "returned" /\ pc' = "ended"
  /\ conn' = CASE ~is_websocket -> conn
               [] is_websocket /\ conn = "live" -> "freed"
               [] is_websocket /\ conn = "freed" -> "twice"
               [] is_websocket /\ conn = "none" -> conn
  /\ UNCHANGED <<req, is_websocket, server, pos, resp, ret, socks, ws>>

Next ==
  \/ Transact \/ ConnectFails \/ AttachFails \/ RequestWild \/ Connect \/ Read \/ ReadEnds \/ Decode
  \/ WSSend \/ WSRecv \/ RecvReads \/ RecvWild \/ RecvCloses \/ Cleanup

\* recv returns once there are bytes or the connection has ended
Spec == Init /\ [][Next]_vars /\ WF_vars(Read) /\ WF_vars(ReadEnds) /\ WF_vars(Decode)

-----------------------------------------------------------------------------
\* The variables stay within their types, and who has the connection is decided by
\* how the program came here: it is open as long as it is used, what is not a
\* WebSocket leaves neither structure nor socket behind once it was connected
\* (cnhttpclient.c:302), and of a WebSocket Cleanup frees the structure, its socket
\* stays open, unless WSRecv has closed it: then, and only then, Cleanup frees it
\* again (cnhttpclient.c:392, :441).
ConnectionHeld ==
  LET closed == ~is_websocket \/ ws.result = -1
  IN /\ pc \in {"call", "connect", "read", "decode", "returned", "sent", "recv", "ended", "wild"}
     /\ conn \in {"none", "live", "freed", "twice"} /\ socks \in 0 .. 1 /\ pos \in Nat
     /\ pc \in {"read", "decode", "sent", "recv"} => conn = "live" /\ socks = 1
     /\ pc \in {"returned", "ended"} => (conn = "none" <=> server = None)
     /\ pc = "returned" /\ server # None =>
          IF closed THEN conn = "freed" /\ socks = 0 ELSE conn = "live" /\ socks = 1
     /\ pc = "ended" /\ server # None =>
          /\ socks = (IF closed THEN 0 ELSE 1)
          /\ conn = (IF is_websocket /\ ws.result = -1 THEN "twice" ELSE "freed")

\* The URL is taken apart as it was put together: the connection goes to the
\* host, port and security that the request and its URL name, and the path of the
\* URL is asked for.  The fields of the request come first, then the URL, then the
\* scheme's port; a proxy replaces both and gets the whole URL
\* (cnhttpclient.c:44-114).  A request is only refused if it names no host or the
\* port 0, or its URL ends with its host, which is then missed.
ConnectsWhereAsked ==
  LET r == req
      n == r.names
      first(a, b) == IF a # None THEN a ELSE b
      url == r.Proxy = None /\ n.scheme # None
      encrypted == r.is_secure \/ (url /\ n.scheme \in {"https", "wss"})
      host == IF r.Proxy # None THEN r.Proxy.host ELSE first(r.host, IF url THEN n.host ELSE None)
      port == IF r.Proxy # None THEN first(r.Proxy.port, 80)
              ELSE first(IF r.port = 0 THEN None ELSE r.port,
                         IF url THEN first(n.port, IF encrypted THEN 443 ELSE 80) ELSE 0)
  IN /\ pc = "connect" =>
          /\ Secure(r) = encrypted /\ SelHost(r) = <<host>> /\ SelPort(r) = port
          /\ Path(r) = IF url THEN n.path ELSE URL(r)
     /\ pc = "returned" /\ server = None /\ ret.code = 1 =>
          \/ host = None \/ port = 0
          \/ url /\ r.host = None /\ n.port = None /\ n.path = <<>>

\* Exactly which requests fit the buffers they are printed into: those with a path
\* (without one the zero byte has no room in encodeduri, cnhttpclient.c:141) and, for
\* an upgrade, with 116 bytes or less of origin and added headers
\* (cnhttpclient.c:149, :165).
RequestFits ==
  pc = "connect" =>
    (Fits(req) <=> Path(req) # <<>> /\ (WebSocket(req) => req.origin + req.added <= 116))

\* A request reaches the server that it names, for what it names there, and it is
\* known which ones overrun something on their way.
RequestRight == ConnectsWhereAsked /\ RequestFits

\* The response r to an answer m of which cut bytes are sent
AnswerKept(m, cut, r) ==
  LET answered == cut >= Len(HeaderBytes) /\ m.code # None
      sent == SubSeq(BodyBytes(m), 1, cut - Len(HeaderBytes))
      chunks == [i \in DOMAIN m.body |-> m.body[i].bytes]
      whole == FlattenSeq(chunks)
      fits == Len(Wire(m)) <= MAX_RESPONSE_LENGTH - BLOCK /\ m.code # 101
  IN /\ r.code = IF answered THEN m.code ELSE 2
     /\ ~answered => r.payload = <<>> /\ r.payloadlen = 0
     /\ answered /\ fits /\ ~m.chunked => r.payload = sent /\ r.payloadlen = Len(sent)
     /\ answered /\ fits /\ m.chunked /\ m.honest /\ Len(whole) > 1 /\ cut = Len(Wire(m))
          => r.payload = whole /\ r.payloadlen = Len(whole) - 1
     /\ answered /\ m.chunked /\ m.honest =>
          \/ \E i \in 0 .. Len(m.body) : r.payload = FlattenSeq(SubSeq(chunks, 1, i))
          \/ IsPrefix(r.payload, BodyBytes(m)) /\ r.payloadlen = Len(r.payload)

\* The response does not depend on how recv split the answer: it is the status,
\* and of the body what the server has sent.  A chunked text of two bytes or more
\* arrives whole and is counted one short.  One that breaks off ends between two
\* chunks, or it is handed over as it was encoded, as far as it came, which is what
\* becomes of a text of one byte too (cnhttpclient.c:181-298).
ResponseFaithful ==
  pc = "returned" /\ server # None => AnswerKept(server.msg, server.cut, ret)

\* http/cnhttp.c finds the payload of a frame of WSSend where the client has put it,
\* and all of it, exactly if the payload has no more than 65535 bytes and the frame
\* arrives in one piece.  Of any other first piece it hands nothing on, unless that
\* ends in a longer length or its mask: then it looks for the payload beyond it.
FrameUnderstood ==
  pc = "sent" => \E length \in SEND_LENGTHS :
    LET r == ServerReads(ws.sent, ws.piece)
        whole == Len(FrameHead(length)) + length
    IN /\ ws.sent = FrameHead(length)
       /\ r.what = "read" <=> length <= 65535 /\ ws.piece = whole
       /\ r.what = "read" => r.at = Len(ws.sent) /\ r.length = length
       /\ r.what = "beyond" <=> length > 125 /\ length <= 65535 /\ ws.piece \in {6, 7}

\* Transact returns if the server closes or resets the connection, has sent as
\* much as it announced, or has accepted the upgrade.
TransactEnds ==
  LET m == server.msg
      complete == \/ server.then # "silence"
                  \/ server.cut = Len(Wire(m)) /\ m.length = Len(BodyBytes(m)) /\ m.code # None
                  \/ server.cut >= Len(HeaderBytes) /\ m.code = 101 /\ is_websocket
  IN (pc = "read" /\ complete) ~> pc = "returned"
=============================================================================
