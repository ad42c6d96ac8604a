------------------------------- MODULE HTTPBSD -------------------------------
(***************************************************************************)
(* The server loop of http/http_bsd.c (TickHTTP) around the connection     *)
(* table of CNHTTP: serve every slot (HTTPTick), poll the sockets of the   *)
(* slots in use, accept one connection, then handle the polled sockets in  *)
(* order, parsing what each one received.                                  *)
(*                                                                         *)
(* The kernel and the clients are an environment without memory: at every  *)
(* turn a polled socket may have data, an end of file, an error or         *)
(* nothing, a send may or may not be possible, and 100 ms may or may not   *)
(* have passed.  Once memory outside of a chunk or of a buffer is touched  *)
(* the process may go on or be ended, at any step.                         *)
(***************************************************************************)
EXTENDS CNHTTP

CONSTANTS
  RECV_SIZE,   \* bytes of TickHTTP's receive buffer
  RecvLengths, \* how many bytes recv() may return at a time
  CORK_SIZE    \* bytes of HTTPConnection.corked_data

ASSUME BufferAssumption ==
  /\ RECV_SIZE \in Nat \ {0} /\ RECV_SIZE < CURLEN_WRAP
  /\ RecvLengths \subseteq 1 .. RECV_SIZE
  /\ CORK_SIZE \in Nat

VARIABLES
  pc,        \* where TickHTTP is
  cur,       \* the slot HTTPTick or the event loop is at
  timed,     \* this pass of HTTPTick counts towards timeouts
  polled,    \* the slots of mappedhttp
  len,       \* what recv() returned, -1 for an error
  dco,       \* corked bytes put before what recv() returned
  corked,    \* corked_data_place of each cell
  listening  \* serverSocket is open

loopVars == <<pc, cur, timed, polled, len, dco, corked, listening>>
vars == <<httpVars, loopVars>>

\* The event loop indexes the table by poll index, 1 to pollct - 1, so it also
\* uses the element past the end: zero-filled memory that nothing else uses.
Cells == 0 .. HTTP_CONNECTIONS

\* The poll index of slot i: its place among the polled slots.
PollIndex(i) == Cardinality({j \in polled : j <= i})

Stopped == {"exited", "undefined"}
Pcs == {"tick", "accept", "event", "parse"} \cup Stopped

Init ==
  /\ HttpInit
  /\ pc = "tick" /\ cur = 0 /\ timed = TRUE
  /\ polled = {}
  /\ len = 0 /\ dco = 0
  /\ corked = [k \in Cells |-> 0]
  /\ listening = TRUE

-----------------------------------------------------------------------------
(* HTTPTick.                                                               *)

Tick ==
  /\ pc = "tick" /\ cur \in Slots
  /\ DoHTTP(cur, timed)
  /\ cur' = cur + 1
  /\ UNCHANGED <<rxVars, pc, timed, polled, len, dco, corked, listening>>

-----------------------------------------------------------------------------
(* poll() and accept().                                                    *)

Poll ==
  /\ pc = "tick" /\ cur = HTTP_CONNECTIONS
  /\ polled' = {i \in Slots : bsd[i] # NoSock /\ conn[i].state # "NONE"}
  /\ pc' = "accept" /\ cur' = 0
  /\ UNCHANGED <<httpVars, timed, len, dco, corked, listening>>

\* The listening socket has an error or was shut down by TermHTTPServer(): it
\* and every socket in the table are closed and TickHTTP returns, to a main()
\* that calls it again.  Nothing in the tables tells, and poll() reports no
\* event that is looked at for a closed descriptor.
ServerFault ==
  /\ pc = "accept" /\ listening
  /\ fds' = fds \ {bsd[i] : i \in Slots}
  /\ listening' = FALSE
  /\ pc' = "tick" /\ cur' = 0
  /\ timed' \in BOOLEAN
  /\ polled' = {}
  /\ UNCHANGED <<conn, bsd, ring, head, fileVars, rxVars, len, dco, corked>>

NoConnection ==
  /\ pc = "accept"
  /\ pc' = "event"
  /\ UNCHANGED <<httpVars, cur, timed, polled, len, dco, corked, listening>>

\* accept() is not checked: BadSock is entered in the table like any other.
Accept ==
  /\ pc = "accept" /\ listening
  /\ \E s \in (Sockets \ fds) \cup {BadSock}, i \in Slots :
       /\ httpserver_connectcb(i, s)
       /\ bsd' = [bsd EXCEPT ![i] = s]
       /\ fds' = fds \cup ({s} \ {BadSock})
  /\ pc' = "event"
  /\ UNCHANGED <<ring, head, fileVars, rxVars, cur, timed, polled, len, dco, corked, listening>>

\* The table is full: the new socket is closed again, and the fields meant for
\* the new connection are reset in the element past the end of the table.
Refuse ==
  /\ pc = "accept" /\ listening /\ Free = {}
  /\ corked' = [corked EXCEPT ![HTTP_CONNECTIONS] = 0]
  /\ pc' = "event"
  /\ UNCHANGED <<httpVars, cur, timed, polled, len, dco, listening>>

-----------------------------------------------------------------------------
(* The event loop.  poll() reports nothing for a negative descriptor.      *)

\* Mutant: the slot's socket stays in http_bsd_sockets.
Drop_KeepsSocket(i) ==
  /\ http_disconnetcb(conn, {i})
  /\ fds' = fds \ {bsd[i]}
  /\ UNCHANGED <<bsd, ring, head>>

\* Mutant: the descriptor is not closed.
Drop_Leaks(i) ==
  /\ http_disconnetcb(conn, {i})
  /\ bsd' = [bsd EXCEPT ![i] = NoSock]
  /\ UNCHANGED <<fds, ring, head>>

Drop(i) ==
  /\ http_disconnetcb(conn, {i})
  /\ fds' = fds \ {bsd[i]}
  /\ bsd' = [bsd EXCEPT ![i] = NoSock]
  /\ UNCHANGED <<ring, head>>

NoEvent ==
  /\ pc = "event" /\ cur \in Slots
  /\ cur' = cur + 1
  /\ UNCHANGED <<httpVars, pc, timed, polled, len, dco, corked, listening>>

HasEvent == pc = "event" /\ listening /\ cur \in polled /\ bsd[cur] # BadSock

\* Mutant: the poll index is taken for the slot.
Disconnected_ByPollIndex ==
  /\ HasEvent
  /\ Drop(PollIndex(cur) - 1)
  /\ cur' = cur + 1
  /\ UNCHANGED <<rxVars, pc, timed, polled, len, dco, corked, listening>>

\* POLLERR or POLLHUP, or recv() returning 0.
Disconnected ==
  /\ HasEvent
  /\ Drop(cur)
  /\ cur' = cur + 1
  /\ UNCHANGED <<rxVars, pc, timed, polled, len, dco, corked, listening>>

\* What is corked under this poll index goes before what was received.  An
\* error of recv() is a length of -1 like any other, cut to 16 bits.
Received ==
  /\ HasEvent
  /\ dco' = corked[PollIndex(cur)]
  /\ len' \in {-1} \cup {n \in RecvLengths : n + dco' <= RECV_SIZE}
  /\ curlen' = (len' + dco') % CURLEN_WRAP
  /\ beyond' = (len' + dco' < 0)
  /\ cork_binary_rx' = FALSE
  /\ conn' = [conn EXCEPT ![cur].timeout = 0]
  /\ pc' = "parse"
  /\ UNCHANGED <<sockVars, fileVars, cur, timed, polled, corked, listening>>

Parse ==
  /\ pc = "parse" /\ curlen > 0
  /\ \E c \in Bytes : HTTPGotByte(cur, c)
  /\ UNCHANGED loopVars

\* Reading on in memory that is not there, or returning over a stack that was
\* written to, may end the process.
Overrun ==
  /\ pc = "parse" /\ beyond
  /\ pc' = "undefined"
  /\ UNCHANGED <<httpVars, cur, timed, polled, len, dco, corked, listening>>

\* HTTPCustomStart for "/d/exit" calls exit(0).
Exit ==
  /\ pc = "parse" /\ curlen > 0
  /\ conn[cur].state = "WAIT_FLAG" /\ conn[cur].path = "/d/exit"
  /\ pc' = "exited"
  /\ UNCHANGED <<httpVars, cur, timed, polled, len, dco, corked, listening>>

\* len, dco and what is known of the chunk are local to one turn of the loop.
ToNextSocket == /\ pc' = "event" /\ cur' = cur + 1
                /\ len' = 0 /\ dco' = 0
                /\ beyond' = FALSE /\ UNCHANGED <<curlen, cork_binary_rx>>

Uncork ==
  /\ pc = "parse" /\ curlen = 0 /\ ~cork_binary_rx
  /\ corked' = [corked EXCEPT ![PollIndex(cur)] = 0]
  /\ ToNextSocket
  /\ UNCHANGED <<conn, sockVars, fileVars, timed, polled, listening>>

\* Compared as unsigned, -1 is more than any size.
TooMuchToCork == len = -1 \/ len > CORK_SIZE + corked[PollIndex(cur)]

Corking == pc = "parse" /\ curlen = 0 /\ cork_binary_rx

Cork ==
  /\ Corking /\ ~TooMuchToCork /\ dco + len <= CORK_SIZE
  /\ corked' = [corked EXCEPT ![PollIndex(cur)] = @ + len]
  /\ ToNextSocket
  /\ UNCHANGED <<conn, sockVars, fileVars, timed, polled, listening>>

\* http_bsd_sockets[wc] is closed here whether or not parsing has already
\* disconnected the slot.
CorkOverflow ==
  /\ Corking /\ TooMuchToCork /\ bsd[cur] # NoSock
  /\ Drop(cur)
  /\ ToNextSocket
  /\ UNCHANGED <<timed, polled, corked, listening>>

\* Executions are followed up to the point where the code writes past
\* corked_data, or closes descriptor 0 in place of the connection's.
LeavesTable ==
  /\ Corking
  /\ \/ TooMuchToCork /\ bsd[cur] = NoSock
     \/ ~TooMuchToCork /\ dco + len > CORK_SIZE
  /\ pc' = "undefined"
  /\ UNCHANGED <<httpVars, cur, timed, polled, len, dco, corked, listening>>

\* Back to the top of the loop: has more than 0.1 s passed since the last
\* timed pass?
NextRound ==
  /\ pc = "event" /\ cur = HTTP_CONNECTIONS
  /\ pc' = "tick" /\ cur' = 0
  /\ timed' \in BOOLEAN
  /\ polled' = {}
  /\ UNCHANGED <<httpVars, len, dco, corked, listening>>

Terminated == pc \in Stopped /\ UNCHANGED vars

Next ==
  \/ Tick \/ Poll
  \/ ServerFault \/ NoConnection \/ Accept \/ Refuse
  \/ NoEvent \/ Disconnected \/ Received \/ Parse \/ Overrun \/ Exit
  \/ Uncork \/ Cork \/ CorkOverflow \/ LeavesTable
  \/ NextRound \/ Terminated

Spec == Init /\ [][Next]_vars

-----------------------------------------------------------------------------
(* Safety.                                                                 *)

TypeOK ==
  /\ TablesTypeOK
  /\ curlen \in 0 .. CURLEN_WRAP - 1
  /\ beyond \in BOOLEAN /\ cork_binary_rx \in BOOLEAN
  /\ pc \in Pcs
  /\ cur \in 0 .. HTTP_CONNECTIONS
  /\ timed \in BOOLEAN
  /\ polled \subseteq Slots
  /\ len \in -1 .. RECV_SIZE
  /\ dco \in 0 .. RECV_SIZE
  /\ corked \in [Cells -> 0 .. RECV_SIZE]
  /\ listening \in BOOLEAN

\* The two tables agree: a slot is in use in HTTPConnections exactly when it
\* has a socket in http_bsd_sockets, and it is the same socket.  The loop and
\* et_espconn_disconnect each look at one of the two only.
TablesAgree ==
  \A i \in Slots :
    IF conn[i].state = "NONE" THEN bsd[i] = NoSock
                              ELSE bsd[i] = conn[i].socket /\ bsd[i] # NoSock

\* No descriptor is in two places among the slots and the ring, so closing
\* the one never closes the other, and no shut-down descriptor is accepted
\* again before the ring lets go of it.
NoSharedDescriptor ==
  LET real == Sockets IN
  /\ \A i, j \in Slots : bsd[i] = bsd[j] /\ bsd[i] \in real => i = j
  /\ \A k, l \in DOMAIN ring : ring[k] = ring[l] /\ ring[k] \in real => k = l
  /\ \A i \in Slots, k \in DOMAIN ring : bsd[i] = ring[k] => bsd[i] \notin real

\* No descriptor is lost and none is closed early: the open ones are those of
\* the slots and of the ring, until a fault closes the slots' sockets.
DescriptorsAccounted ==
  listening =>
    fds = ({bsd[i] : i \in Slots} \cup {ring[k] : k \in DOMAIN ring}) \cap Sockets

\* No open file is lost: each one belongs to a transfer still in progress,
\* whichever way earlier connections of any slot ended.
FilesHeld ==
  \A f \in streams : \E i \in Slots :
    conn[i].state = "DATA_XFER" /\ ~conn[i].is_dynamic /\ conn[i].file = f

\* What was corked and what was received fit together in TickHTTP's buffer,
\* although corking adds to what was corked before and is checked against
\* another size.
ChunkFits ==
  pc = "parse" =>
    /\ cur \in polled
    /\ dco = corked[PollIndex(cur)]
    /\ dco + len <= RECV_SIZE

\* state_deets, shared by the path and by the websocket header, always fits
\* what the current state uses it for: an index below MAX_HTTP_PATHLEN, or
\* one of the six stages.
StateDeetsFits ==
  \A i \in Slots :
    /\ conn[i].state = "WAIT_PATH" => conn[i].state_deets < MAX_HTTP_PATHLEN
    /\ conn[i].state = "DATA_WEBSOCKET" => conn[i].state_deets <= 5

\* A step ends no connection but the one being served or read, except that
\* slots filled by failing accepts share BadSock and go together.
OnlyCurrentEnds ==
  [][\A i \in Slots :
       conn[i].state # "NONE" /\ conn'[i].state = "NONE"
         => i = cur \/ conn[i].socket = BadSock]_vars

-----------------------------------------------------------------------------
(* What a client sees: HTTPWire.                                           *)

PhaseOf(h) ==
  CASE h.state = "NONE"           -> "closed"
    [] h.state \in RequestStates  -> "request"
    [] h.state = "WAIT_CLOSE"     -> IF h.keep_alive THEN "again" ELSE "closing"
    [] h.state = "DATA_WEBSOCKET" ->
         IF h.state_deets < 4 THEN "upgrade"
         ELSE IF h.state_deets = 4 THEN "accepted" ELSE "socket"
    [] h.state = "DATA_XFER"      ->
         IF h.is_dynamic   THEN "app"
         ELSE IF h.isdone  THEN "sent"
         ELSE IF h.is404   THEN "404"
         ELSE IF h.isfirst THEN "header" ELSE "body"

\* What is left of a file that is not what it was when opened is not known.
Spoilt == -1
LeftOf(h, S) ==
  IF PhaseOf(h) \notin {"header", "body"} THEN 0
  ELSE IF h.file \in S THEN h.bytesleft ELSE Spoilt

\* Once the server's sockets are closed its clients see nothing any more.
Wire == INSTANCE HTTPWire WITH
  Conns   <- Slots,
  phase   <- [i \in Slots |-> IF listening THEN PhaseOf(conn[i]) ELSE "closed"],
  left    <- [i \in Slots |-> IF listening THEN LeftOf(conn[i], intact) ELSE 0],
  serving <- pc \notin {"accept", "event"}

\* The server keeps the promise of HTTPWire: whole answers, in order, and no
\* hang-up of its own before they are sent.
ImplementsWire == Wire!Spec

-----------------------------------------------------------------------------
(* Liveness.                                                               *)

\* The loop keeps running (poll() wakes up after HTTP_POLL_TIMEOUT), time
\* passes, and each client keeps reading what it is sent.
TimedRound == NextRound /\ timed' = TRUE
ServeSlot(i) == Tick /\ cur = i /\ Serve(i)

FairSpec ==
  /\ Spec
  /\ WF_vars(Next)
  /\ SF_vars(TimedRound)
  /\ \A i \in Slots : SF_vars(ServeSlot(i))

\* A connection cannot stay silent in the middle of its request for ever.
SilentRequestsEnd ==
  \A i \in Slots :
    <>[](conn[i].state \in RequestStates /\ pc \notin Stopped)
      => []<>(pc = "parse" /\ cur = i)

\* A request for a file is served to its end, even if its client sends more
\* data all the time, as long as the file stays what it was when opened: no
\* other slot closed or read it, nobody truncated it.
FilesServed ==
  \A i \in Slots :
    ~ <>[](/\ pc \notin Stopped
           /\ conn[i].state = "DATA_XFER" /\ ~conn[i].is_dynamic
           /\ conn[i].is404 \/ conn[i].file \in intact)

\* Parsing a chunk always ends, and the loop comes round to poll again.
LoopTurns == []<>(pc = "accept" \/ pc \in Stopped)

=============================================================================
