# TLA+ models of cntools

cntools is a collection of small C libraries and the programs that exercise
them. This directory holds TLA+ models of the parts that keep state, TLC
configurations that check them on small instances, and TLAPS proofs of the
results that matter most.

## 1. The system

Each library stands alone; the interactions are listed with the component.

| component | state it keeps | operations | hard behaviour | what makes it correct |
|---|---|---|---|---|
| `http/cnhttp.c` request handling | `HTTPConnections[50]` | connect, disconnect, receive, tick, websocket upgrade and frames | slots reused with stale fields, chunks that span states, timeouts | each request gets one whole answer; a slot's end releases what it holds |
| `http/http_bsd.c` server loop | `http_bsd_sockets`, `destroy_sockets` ring, cork buffers | `TickHTTP`: serve, poll, accept, receive | poll results used after the table changed, failing `accept()`, delayed close | tables agree, no descriptor lost, closed twice or shared |
| `http/mfs.c` | open `FILE` of a slot | open, read sector, close | closing through stale handles | no file stays open |
| `httptest/httptest.c` | `rcb`, `rcbDat` of a slot | custom start, callbacks, websocket hooks | callbacks left from an earlier connection | |
| `cnhash/cnhash.h` | open-addressed array, element count | insert, get, get all, delete, destroy | growth by recursive insertion, gap closing, 32-bit hashes | a multimap |
| `cnrbtree/cnrbtree.h` | linked nodes, `begin`, `tail`, shared nil | access (find or insert), get, approximate get, remove, next/prev, destroy | rotations, the nil sentinel's parent | an ordered map, balanced |
| `tccengine/tccengine.c` | per-engine compiler states, image, entry points; one global mutex | create, check (reload), destroy, symbols | error paths, callbacks with the mutex released | TinyCC is used under the mutex (`tcc_delete` at line 219 is not: section 5), no state leaked or used after deletion |
| `tccengine/tcccrash.c` | per-thread checkpoints, two symbol indexes (cnrbtree), mutex | checkpoint, handler, add/remove/find symbols | signals at any point, indexes that share entries | the handler returns to a live checkpoint; indexes agree |
| `vlinterm/vlinterm.c` | screen and history buffer, cursor, region, parser state | emit character, reset, resize, scroll | escape sequences in any order, two threads | cursor and copies stay inside the buffer |
| `hufftreegen_sf` | tree under construction, heap | build tree, build table, decode | counts beyond 2^31, one or no value | prefix code of minimal weight |
| `bresenham-with-clip` | fixed-point position | clip, draw | rounding and cut slopes at the borders | only pixels of the window and of the line |
| `ssl/cnhttpclient.c` | response buffer, connection | transact, websocket send and receive, clean-up | reads of any length, chunking, lying and silent servers | the payload sent is the payload returned, one owner of the connection |
| `os_generic.h`, `osg_aux.h` | | mutexes, semaphores, threads, files | | wrappers |

Interactions: `TickHTTP` calls `HTTPTick`, `httpserver_connectcb`,
`http_recvcb` and `http_disconnetcb`; the handlers call back into the loop's
`et_espconn_disconnect`, into `mfs.c`, and into the application through
`HTTPCustomStart`, `rcb` and `rcbDat`. `tcccrash.c` keeps its symbols in four
`cnrbtree` instances. `tccengine.c`, `tcccrash.c` and `vlinterm.c` use the
mutexes of `os_generic.h`. The websocket frames of `ssl/cnhttpclient.c` are read
by `http/cnhttp.c` at the other end.

A run whose `expect` is `violation` checks one statement of the repository that
the code does not keep: `hash_wrap` (section 3) and `rb_remove` (section 4).
Statements of that kind that have no run are listed with their component under
"Seen while modelling".

## 2. HTTP server: `CNHTTP`, `HTTPBSD`, `HTTPWire`

**`CNHTTP`** is the connection table. `conn` is `HTTPConnections`, `bsd` is
`http_bsd_sockets`, `ring`/`head` are `destroy_sockets`/`destroy_socket_head`;
`fds` and `streams` are what the kernel and the C library hold open on behalf
of the program. One definition stands for one handler, or for one arm of its
`switch`; the definitions have the handlers' names.

**`HTTPBSD`** is `TickHTTP` around it. `pc` says where the loop is: `tick`
(serving slot `cur`), `accept` (after `poll()`), `event` (looking at the socket
of slot `cur`), `parse` (inside `http_recvcb`, one byte of the chunk, or one
whole websocket step, at a time) or stopped. The server is one thread; what
interleaves is the environment: at each turn every polled socket may deliver
any chunk, an end of file or an error, `accept()` may deliver any free
descriptor or fail, `select()` may or may not allow a send, and 100 ms may or
may not have passed.

**`HTTPWire`** is the abstract specification: what a client may observe on one
connection. `ImplementsWire` states that `HTTPBSD` refines it, through the map
`PhaseOf`/`LeftOf`.

Abstractions: a byte is a space, CR, LF or anything else; a path is the kind
the code branches on; a length is a number of 256-byte sectors; a websocket
step looks at the lengths only. Left out: the text of responses,
SHA-1 and base64 of the handshake, `send_pending` (how long `poll()` sleeps),
and fields nobody reads. A failing `send()` is not told apart from one that succeeds: the
connection shows up as `POLLERR`/`POLLHUP` later. A failing `recv()` is a length of -1, as in
the code, which parses it.

Lengths have their width. `curlen` is a `uint16_t` (`CURLEN_WRAP`): -1 becomes 65535
bytes (`Received`), and a frame whose length takes two more bytes takes 7 off what may be 5 or 6
(`WebSocketFrame`). From then on `beyond` is TRUE: what is parsed is memory behind the chunk, which
may hold any bytes, and at each of them the process may die (`Overrun`). So it may after
`WSCommandData` has copied a frame longer than `CNHTTP_MTU` bytes over its stack
(`FramePayload`). One bound is named in `WebSocketFrame`: memory is taken to end before `curlen`
wraps a second time within one chunk. `beyond` ends with the chunk, since in the next round
nothing of it is left.

A file is what its `FILE` reads, which may differ from the length measured when it was opened:
`intact` are the files that read to that length. A directory (measured as `NoLength`), a file that is
truncated or grows meanwhile, and a `FILE` that another slot has closed or reads too, are not
among them; of these `MFSReadSector` takes any number of bytes, none included, after which
`filelen` stays as it is, and more than are left, after which it wraps.

After a fault of the listening socket `TickHTTP` returns to a `main()` that calls it again
(`ServerFault`): all sockets are closed, the tables still hold them, `listening` is FALSE, and the
loop goes on serving the slots whose sockets are gone.

Undefined behaviour: closing a `FILE` twice is modelled as closing whichever
stream now has the same object, or nothing. A run that would write past `corked_data` or close
descriptor 0, or dies in an overrun, stops in `pc = "undefined"`.

### Runs

| run | instance | what it shows |
|---|---|---|
| `http_tables` | 2 slots, 3 descriptors, 2 empty files, ring of 1, 1-byte chunks; descriptors and files symmetric | `TablesAgree`, `NoSharedDescriptor`, `DescriptorsAccounted`, `FilesHeld`: the four records of what is open agree at every point; `OnlyCurrentEnds`: a step ends no other connection |
| `http_requests` | 1 slot, one connection after the other; files of 0 and 3 sectors and a directory, application and websocket paths, chunks of 1, 6 and 7 bytes, paths cut after 2, cork of 6, `curlen` below 8 | `ImplementsWire`: whole answers in order, with upgrades, fragments, corking, frames that wrap `curlen` and fields left over from the connection before; `StateDeetsFits` |
| `http_live` | 1 slot, timeout limit 1, files of 1 sector, an application and a websocket path, chunks of 1 and 6 bytes, fair | silent requests end, files are served, the loop turns, also through frames of every length |

`ImplementsWire` is checked by `http_requests`, with one connection at a time; for several at
once it is proved (below). The 1-byte chunks of `http_tables` do not reach the bytes that follow a
request in the same chunk: `http_requests` and the proofs do. `OnlyCurrentEnds` is about
connections: that a slot closes the `FILE` of another one ends none, and shows only as a file that is
no longer `intact`.

Seen while modelling, without a run of their own:

* `cnhttp.c:523` asks for 5 bytes of a frame where a longer length needs 7: with 5 or 6, `curlen -= 2`
  and `curlen -= 4` (lines 558 and 565) wrap, and about 65000 bytes behind the buffer are taken for
  frames or for the payload.
* `cnhttp.c:521` says "XXX TODO: Seems to malfunction on large-ish packets.  I know it has
  problems with 140-byte payloads." The model has three ways for that: a frame that arrives in
  pieces is not understood; one whose first piece has 6 or 7 bytes wraps `curlen`; and
  `WSCommandData` overruns its buffer from 1537 bytes on. A frame of 140 bytes that arrives whole is
  read (section 8).
* `cnhttp.c:570` says of a websocket packet that is split over chunks "I am chosing to just drop those
  packets on the floor", but `TickHTTP` corks it and puts it before a later chunk
  (`Cork`, `Uncork`), by which time the connection is `WAIT_CLOSE`.
* `mfs.c:97` takes what `fread()` returns off `filelen` without a look at the end of the file: a file
  that was truncated, or a directory, is sent for ever, and one that grew wraps `filelen`.
* `http_bsd.c:264` treats -1 from `recv()` as a length: 65535 bytes are parsed.
* `http_bsd.h:10` says that `TickHTTP` "returns -1 if problem",
  but it returns 0 when the listening socket fails (`ServerFault`), and `main()` goes on.

Bounds. Two slots are enough for a step on one to disturb the other; three
descriptors let a closed one be accepted again while another is in use and one
is in the ring; a ring of one cell wraps at every close. Three sectors need two
sends, of two and of one; a length of 4, `NoLength`, is a directory's. Seven bytes are a whole
header with a longer length but for one byte, six the least that reads a frame, so that 6 and 7 wrap
`curlen`; a `CURLEN_WRAP` just above the buffer lets the wrapped count be any that fits it. A cork of
six makes each branch of the cork code reachable, a `CNHTTP_MTU` of 0 lets each payload overrun.
`TIMEOUT_WRAP` stands for 2^16 and is above the limit, as in the code.

Fairness (`FairSpec`): the loop runs (`WF(Next)`): `poll()` returns after 100
ms at the latest. Time passes: the loop makes timed passes again and again
(`SF(TimedRound)`). A client that keeps its connection open reads, so that
`select()` allows a send again and again (`SF(ServeSlot(i))`). `FilesServed`
excepts files that are not `intact`: closed under the transfer by a second `fclose()` of
another slot, truncated, or directories. Those the code sends for ever.

### Proofs: `HTTPProofs`

For all table, ring and buffer sizes, sets of descriptors, files and paths:

* `TypeCorrect`: `Spec => [](TypeOK /\ ChunkFits)`.
* `DescriptorsInOrder`: `Spec => [](TablesAgree /\ NoSharedDescriptor /\ DescriptorsAccounted)`.
* `TablesAlwaysAgree`, `DescriptorsNeverShared`: two parts of it on their own.
* `OnlyCurrentConnectionEnds`: `Spec => OnlyCurrentEnds`.

The first rests on `TypeOK /\ ChunkFits` being inductive: every count stays below its width,
wrapped or not, and what was corked and what was received fit the buffer together. The second needs `SocketInv`, which adds to the three properties what
the code relies on between handlers: slots in use have the same non-zero
socket in both tables while the ring holds no descriptor that a slot uses. The
lemmas follow the calls: one for `et_espconn_disconnect`, one per handler, one
per action of the loop. `OnlyCurrentEnds` follows from the same invariant: the
slots that share a socket with the current one are the slots of failed
accepts. Assumptions: `TableAssumption`, `SocketAssumption` and
`BufferAssumption`, which say that sizes are positive, that the timeout's
width exceeds its limit, and that 0 and -1 are no valid descriptors.

`HTTPWireProofs` is about the handlers' own records:

* `FilesAlwaysHeld`: `Spec => []FilesHeld`.
* `StateDeetsAlwaysFits`: `Spec => []StateDeetsFits`.
* `ServerImplementsWire`: `Spec => ImplementsWire`, the refinement.

They share `WireInv`: the record of a slot fits its state (`RecordsOK`: what is
left to send is counted, a closed slot holds nothing), what the parser keeps
between chunks does too (`ParsedOK`), and each open file belongs to the slot that
will close it. The refinement is a step simulation: each handler's record
is followed to the phase it stands for, a handler that is called for another
slot leaves a phase alone, and `SocketInv` says that the slot whose descriptor
ends is the current one.

Only model-checked: the liveness properties (liveness under fairness is out of
TLAPS's reach).

## 3. Hash table: `CNHash`, `Multimap`

**`CNHash`** is `cnhash.h`: `elements` is the array (a place that was never
used is a zeroed element), `nr_elements` and `table_size_index` are the
table's fields, `pc`/`i` say which loop of the call in progress has come how
far. `InsertNow`, `InsertFails` and `Grow` are the three ways `CNHashInsert`
begins; `Rehash` is one turn of its growth loop (a recursive call, which counts
again), `Rehashed` what follows the loop. `DeleteStep`
is one turn of `CNHashDelete`: it takes out a matching element, or takes out
and puts back one that does not match.

**`Multimap`** is what it promises. `ImplementsMultimap` maps an element still
waiting in the old array to one that is in the map, and a key whose deletion
has begun to one that is gone.

`cf` is equality of keys, `hf` the constant `Hf`: any nonzero number, of which
the table keeps `HASH_WRAP` (2^32) values. Memory is not modelled;
`malloc` does not fail; sizes in bytes do not overflow an `int`, which they do
from the 18th size on. A table with a copy function (`kf`) copies every key
again when it grows and frees none of the first copies: a leak, not a change of
the map. A hash of which 32 bits keep nothing is excluded by `HashAssumption`:
its element would look empty (`cnhash.h:60` says "MUST be nonzero").

### Runs

The sizes are 3, 7 and 15: each more than twice the one before, as in
`cnhashtablesizes` (`SizesAssumption` asks only that half of a size, less half of
the size before, grows from one size to the next, which all 22 sizes of
`cnhash.h:115` satisfy), so the full cycle of two growths, refusal, deletion and
regrowth of the contents fits into four elements. Three keys, two with the same
hash and a third that starts at the last place of the largest array.

| run | instance | what it shows |
|---|---|---|
| `hash_map` | duplicates or none, chosen by each `Generate`; 2 data | `NothingHidden`; `RoomLeft` with the exact drift of the count; refinement of `Multimap` |
| `hash_wrap` | hashes at the end of the range | **violated**: deletion misses the key |

The count drifts upward with every growth, by half of the old size: after
growing, a table takes that many elements less before it grows again.
The first part of `RoomLeft` states this exactly; it is not an error of the map, which the
refinement shows, but of its capacity.

### Proofs: `HashProofs`

For every set of keys and data, every hash function and every list of sizes
that meets the assumptions:

* `RoomAlwaysLeft`: `Spec => []RoomLeft`.
* `NothingEverHidden`: `NoWrap |- Spec => []NothingHidden`.
* `AlwaysAllRight`: `NoWrap |- Spec => []AllRight`.
* `TableIsMultimap`: `NoWrap |- Spec => ImplementsMultimap`, the refinement.

`NoWrap` says that a hash and an array size together stay within 2^32. It is
not an assumption about the program: the code does not ensure it, and
`hash_wrap` shows what happens without it. The theorems say that the sum in
`CNHashDelete` is the only thing that stands between the code and its promise;
a hash more than the largest array's size below 2^32 is enough.

`RoomLeft` is not inductive. `RoomInv` adds the types (an element is empty or
carries its key's hash) and `Growing`: while the table grows, the new array holds
no more than what was taken from the old one, and the old one held no more than
its size had room for. `Room(n) < Room(n + 1)` then leaves place for all of them
and the new element: this is where the list of sizes matters.

`HashInv` adds what deletion does to the probes. Between calls each populated
place is reached from its hash over populated places (`Paths`). During a
deletion it may also be reached over places that the deletion has passed, if the
element is still ahead of it in the run (`Ahead`): it will be taken out and put
back. `Deleting` says so, that an empty place is still ahead, and that the key is
in none of the places passed. When an empty place is met nothing is ahead, and
`Paths` holds again. The arithmetic is that of `%` with an array size that is a
variable, from `Remainder` to `ProbeOnce`, `ProbeReaches` and `FreePlaceIsFree`.

The refinement needs one thing more, `MapInv`: without duplicates a key is once
in the array and what is left of the old one (`Once`). Each step is then
a step of `Multimap` or leaves `Contents` alone: `PutOrGet` for the insertions,
`LeftStep` and `RehashMaps` for an element that moves from one count to the other,
`DeletedMaps` for the end of a deletion. That a refused insertion was refused by a
full map (`SizeIsPopulated`) takes a bijection between the copies in the map and
the populated places.

## 4. Red-black tree: `CNRBTree`

`mem` holds the fields of every node and of `cnrbtree_nil`, which the code
writes to like any node: its parent pointer tells a removal where the missing
node is, and its colour ends the loop above the root. `node`, `begin`, `tail`
and `size` are the tree's fields, `alive` what is allocated. `pc` says which
fix-up is running and `cursor` where it is; its actions are the parts of one
turn of the loop. `RBREMOVE` removes a node; `Remove` removes a key and, if it
was there, ends in `pc = "undefined"`: the code then reads and frees a node that
has been freed. A freed node's fields are reset so that states stay comparable;
no property reads them. The left and right halves of the code differ only in
the side, which is a parameter.

Nodes are named by their keys, so the comparison function is that of integers
and never calls two keys equal that are not the same.

### Runs

| run | instance | what it shows |
|---|---|---|
| `rb_map` | keys 1 to 7 | `Linked`, `RedBlack` (the loop invariants of both fix-ups included), `IterationInOrder`, `LookupsFind`; under weak fairness of the running call, `OperationsEnd` |
| `rb_remove` | keys 1 to 3 | **violated**: `testtree.c:122` removes keys and goes on, but a removal by key frees the node twice |

Seven keys are enough for trees with four levels, in which every case of both
fix-ups occurs on both sides and a removal climbs past the root. The root may
be red: the code does not paint it black, and the runs show that it need not.

### Proofs: `RBProofs`

From `KeysAssumption` alone (the keys are finitely many integers and `nil` is
none of them):

* `TreeInvariant`: `Spec => []IInv`, the inductive invariant.
* `TreeLinked`: `Spec => []Linked`. No rotation, transplant or write to the
  shared nil loses a node, hangs it twice or puts it on the wrong side.
* `TreeRedBlack`: `Spec => []RedBlack`.
* `TreeIterates`: `Spec => []IterationInOrder`.
* `TreeLookups`: `Spec => []LookupsFind`.

None of the four properties is inductive: they say what walking the tree finds,
and nothing of why a walk ends. `IInv` says instead that two functions exist. `D`
gives every node the set of nodes below it (`Shape`): the sets of the children
and the node make up its own, lie on their sides of it, and every node but the
top one hangs from its parent. So a child has a smaller set than its parent,
there is no cycle, and a lowest or a highest node for which a claim fails can
be picked (`Lowest`, `Highest`): that is the induction of these proofs. `H`
gives every node the number of blacks on the ways down (`Balanced`).

The second half of `IInv` is where a fix-up stands, by `pc`.

* *Idle*: `node` is the top, no red node is under a red one, nil is black.
* *Insert*: the cursor is red and is the only node that may be red under red.
* *Remove*: the tree lacks the victim, and a black is missing at the cursor
  (`Lacking`). One side of one node is then short by one in `Balanced`, unless the
  cursor is the top, where the loss does not count, or nil was painted red for a
  moment. That nil's parent is the node from which the missing one
  hung, and that the cursor is red if it is not, is the part that makes the
  climb right although no loop tests for the root (`RemoveState`).

Before it was proved, TLC checked `IInv` on the trees of six keys, with `D` and
`H` computed by walking the tree.

Each operation on the memory has a lemma that says what it writes
(`RotateFields`, `TransplantFields`, `PaintTree`) and one that gives the new `D`
(`RotateShape`, `HangShape`, `UnlinkShape`, `PutShape`) and the new `H`
(`RotateBalanced`, `TakenIsBalanced`). A turn of a loop puts them together:
`Recoloured`, `BentTurn`, `StraightTurn` and `RootBlackened` for insertion;
`RedSiblingTurn`, `ClimbTurn`, `NearNephewTurn`, `LastTurn` and `TopTurn` for
removal. Both sides are proved at once, as the side is a parameter. `FarUnfolds`,
`RootUnfolds`, `ClimbUnfolds` and `SearchUnfolds` show that the recursive
functions of the model exist and unfold them once; from these follow
`NeighbourIsNext` (iteration), `SearchFinds` (lookup), `BelowIsD` and
`BlackHeightIsH` (what the properties count).

`OperationsEnd` is liveness and stays with TLC.

## 5. Script engine: `TCCEngine`, `TCCProofs`

`owner` and `depth` are `TCCMutex`, a recursive mutex. `pc` is where a thread is
in its call: `check` and `relock` wait for the mutex, `files`, `compile`,
`relocate` and `link` hold it, `stop` and `start` are the script's callbacks,
`discard` is `end_err`. `eng` holds the fields of the engines, `states` and
`images` what is allocated, `time` and `content` the files, which another
program may write at any moment; the time may stay the same when they are, since
`OGGetFileTime` counts seconds. What compiling a file comes to (a script with or
without `start` and `stop`, a compile error, a relocation error) stands for
TinyCC. A failed relocation leaves the mutex locked, as in the code.

Assumed: one thread uses an engine, as in `example_host.c`; the mutex exists
(the race of two first callers is left out); the symbol calls and destroy are
made on an engine that has a state, since they hand it to TinyCC as it is.
Callbacks that run under the mutex and take it again leave it as it was, so
they are part of the step around them. `backuptcc` dangles after a reload, in
the code and in the model; nothing reads it before it is overwritten.

### Runs

| run | instance | what it shows |
|---|---|---|
| `tcc_reload` | two threads, an engine each, of which one includes the file of the other; a third engine with too many attached files; one write after an arbitrary start | `CompilerLocked`, `MemoryHeld`, `RunningLinked`; under fairness `ChecksReturn` and `ScriptsCurrent` |

Seen while modelling, without a run of its own:

* `tccengine.c:38` says that TinyCC "uses a lot of global operations, we cannot
  multithread its operation", and puts it under `TCCMutex`; but after a failed compilation
  the mutex has been released (line 160) when `tcc_delete` is called at line 219 (`Discard`): another thread may compile at the same time. `CompilerLocked` makes an
  exception of it, and `MemoryHeld` does not catch it: it is about who owns a state, not about
  what TinyCC does with its globals.
* `tccengine.h:63` promises that `init` is "called the very first run", but only the check
  inside `TCCECreate` calls it (`Start`): a script whose first version does not compile is
  started by a later check without it.

One write is enough: the initial contents are arbitrary, so every change from
one kind of script to another occurs, at every stage of a reload. The state a
reload leaves behind is that of a first load, so a second write adds nothing new.

Fairness: a call under way goes on (weak); a thread that waits for the mutex
gets it (strong: the mutex alone does not promise it, the host's pause of 100 ms
between two checks does); and the host checks again and again (strong), as the
loop of `example_host.c` does. Both liveness properties leave out threads that
wait behind one that went away with the mutex (`Stuck`): with that escape they
say that a failed relocation is the only way to hang; the hang itself they do not report.

### Proofs (`TCCProofs`)

For all constants: `TypeCorrect` (`TypeOK`, which no run repeats), `MutexHeld`, `NothingLeaksOrDangles` and
`OnlyTheLinkedRuns`. `TypeInv` adds to the types who holds the mutex
(`HoldersOwn`: a thread in a locked stage is the owner, which makes two such
threads impossible) and that a thread works on its own engine. `MemInv` splits
`states` and `images` among the engines; every step then replaces one engine's
part (`MemStep`, with the set algebra in `Replace`) by another that is free
(`FreshIsFree`), and `RecordFits` says what the record of an engine must satisfy
in each stage, for example that nothing runs when the new script is linked.

## 6. Terminal: `VLinTerm`, `VLinTermHost`

**`VLinTerm`** is `vlinterm.c`. A terminal is a record `t` with the fields of
`struct TermStructure`, and each function of the code an operator that returns
the record it leaves behind: `EmitChar` and below it one operator per escape
sequence, down to `BufferSet` and `BufferCopy`, through which every access to
the screen goes. `cell[i]` is `termbuffer[i]`; the history is at negative
indices; the taint bit of a cell is its membership in `dirty`. `overrun` is set
when a ninth parameter is written past `csistate` (`vlinterm.c:316`); what
follows is undefined and ends what is modelled. A cell holds its
byte and whether attributes were set, instead of eight attribute bits and two
colours.

**`VLinTermHost`** is `vlintermtest.c` around it: `rxthread` reads a byte and
calls `EmitChar`, `main()` handles the user's events, tests whether to redraw
and redraws. Both hold `screen_mutex` for the step that changes the terminal,
but `EmitChar` reads the width before it has it (`ReadByte`, then `Emit`), and
the test of `main()` is made without it (`Test`, then `Draw`). `picture` is the
bitmap, `paper` a history variable: what the same plain text gives on an endless
sheet. Left out: fonts, the translation of keys to bytes, `linetaint` and the
keypad mode (nothing reads them).

### Runs

| run | instance | what it shows |
|---|---|---|
| `term_screen` | 3 by 2 screen, 5 lines kept; 43 sequences alone, each of 23 that set the stage before each of 20 that act, plain text with scrolling back, five sizes taken at any moment | `BufferHeld`: the clamps are enough for every caller, also with a stale width; `TextKept`: wrapping, scrolling and history lose no text; `NothingForgotten`, `OneCursor`, `PictureCatchesUp`: what is drawn becomes, and stays, what the terminal holds, although the test is made without the mutex |

Three columns and two rows give a character a left and a right neighbour and
both edges; five lines let two pass into the history and one out of it. An odd
sequence is followed by printable bytes, which show a cursor that it has left
outside. One script writes the ninth parameter. Two change the size twice with a
turn of the wheel between, for which the place of the last cursor may lie before
the screen there is then.

The window is at most half as high as what is kept (`FitsHistory`). When it
shrinks while scrolled back, the last cursor may be above the screen, and
`main()` taints its place with no check (`vlintermtest.c:384`); in a window that grew beyond
half it would lie before the buffer. `historyy` is 1000.

Fairness: each thread goes on (`RxGoesOn`, `MainGoesOn`): a byte that is there is
read, and `main()` loops without waiting. They are stated over the program
counters, which every step of the thread changes.

Seen while modelling, without a run of its own: the comment at `vlinterm.c:419`
says of CSI P that "the remaining characters between the cursor and right margin
move to the left", but `DeleteChars` clears one cell more than it frees, where
the last character that moved has gone: `abc`, cursor at the start, one deletion leaves
`b`. And `vlintermtest.c:70` puts each byte into a `char`, which is signed on x86: 0x9b
reaches `EmitChar` as -101 and is never the 0x9b that `vlinterm.c:217` takes for the start
of a sequence. The constant `CRX_CSI` says what the byte has become: the runs use "-101",
where it is a character like others; the proofs hold for any value, as on a machine where `char` is
unsigned.

### Proofs: `TermProofs`

For every height of the history, every size of the window and every byte and
event, in particular with any number of parameters:

* `BufferAlwaysHeld`: `Spec => []BufferHeld`.
* `NothingEverForgotten`: `Spec => []NothingForgotten`.
* `CursorDrawnOnce`: `Spec => []OneCursor`.
* `TextAlwaysKept`: `Spec => []TextKept`.

The first three follow from `HostInv`. Its first part, `Sound`, is about the terminal alone: the cells
are those of its size, the region and the saved cursor are integers, only cells
are dirty, and nothing was accessed outside. That each of the operators keeps it
is one lemma per function, from `BufferSet` and `BufferCopy` up to `EmitChar`; a
stale width is an argument like any other there. `Wrote` says what they need of
each other besides: a cell that changed is tainted. The other parts are about the
threads: the cursor is in the window unless a stale width left it beyond (`Placed`); there is
a byte for the width that was read (`InputsHeld`); the cursor drawn last is no
further above the screen than half the history (`LastHeld`, where `FitsHistory` is used);
the part of the history that is about to be drawn exists, and all of it will be
drawn if it is not the part drawn last (`DrawHeld`); the picture has the
size of the window. Between the unlocked test and the draw the terminal may
change, but only to more taint: this is why the test does no harm.
Assumptions: `TermAssumption`,
`HostAssumption` and `ScriptAssumption`.

`TextKept` follows from `TextInv`, which holds as long as only plain text has come
and nothing was resized: no region, mode or sequence is set (`PlainModes`), the width that
`EmitChar` read is that of the screen (`Typed`), the cursor is the pen of the sheet of
paper, and every line of the buffer shows the row as far above the last written
one as the line is above the cursor (`Shows`, `Sheet`). It has to speak of all lines,
since a line feed at the bottom moves each of them. On the way
(`NewlineShows`) the cursor is one line below the screen, which `TermScroll` then makes good.
The sheet (`paper`) is a variable that each byte adds to, so that the proof has to
look at one character at a time.

Only model-checked: the liveness property `PictureCatchesUp`.

## 7. Crash recovery: `TCCCrash`

`symroot` and `symroot_name` are the two indexes, from a tag to a map by address
or by name; `infos` is what `malloc` has handed out and whether it was freed, so
that a dangling entry can be told from a live one. `mutex` is the recursive
`symroot_mutex`. `calls` says how far a thread has come in a call of the library
(`SymsetOpen`, `SymsetReplace`, `SymsetStore`, `CallUnlock` are the parts of
`tcccrash_symset`; `DeltagLock`, `DeltagRemove`, `DeltagRemoveName` those of
`tcccrash_deltag`), `handlers` how far its run of `sighandler` (`Enter`, `Look`,
`Use`, `Finish`). `cps` are the checkpoints, with `scratchcp` under `NoThread`,
and `frames` whether the function that called `sigsetjmp` is still there.

A `Signal` can arrive between any two steps of its thread, inside a call that
holds the mutex and inside the handler too. The handler then looks the crash up
under the same mutex and in the same indexes, jumps back to the checkpoint or
ends the process. A jump abandons the call it interrupted: the mutex stays
locked, and what the call carried has no owner any more (`lost`). The end of the
process resets its memory; `ended` says how, and nothing follows.

Undefined behaviour: jumping into a frame that has returned ends in "wild jump";
the double free of `cnrbtree`'s removal by key (section 4), which
`tcccrash_deltag` runs into, makes `malloc` abort or corrupts it, as a choice; a
symbol that was freed and is printed may or may not crash. So may the read of
`tcccrash_symaddr`: it looks the symbol up under the mutex (`SymaddrLock`), gives
the mutex back (`SymaddrUnlock`) and only then takes the address from the symbol
(`SymaddrRead`, line 562), which another thread may have freed. The model reads the
symbol that was found; where the name's entry has got a newer one in the meantime the
code reads that one, which makes no difference to what the properties tell apart.

Left out: the enumeration of an executable's symbols (`InstallSymbols` is its
result), how a back trace is unwound and printed, and the Windows handler.
`tcccrash_uninstall` leaves the signal handlers where they are, as in the code.

### Run

| run | instance | what it shows |
|---|---|---|
| `crash_signals` | two threads, one tag, a program with two names for one address and a script's symbol between the program's; three calls, two signals, back traces of one address | `IndexesWhole`: whoever gets the mutex finds both indexes complete; `NamesStale`: a name is stale in exactly one case, an address that was registered again; `NearestFound`: which symbol a look-up finds; `CrashesAnswered`: a crash ends in a jump or an exit, unless another thread went away with the mutex |

Three calls are a table, its removal or replacement and a look-up; two signals
put a crash into the handling of a crash, after which the handler gives up. The
number of infos is the number a behaviour can use.

`NearestFound` says what the loop of `tcccrash_symget` finds, without the loop. One might
expect the nearest symbol below the address over all tags; the code does not do that. A tag
with a symbol at the address itself replaces whatever was found, and is replaced by the next
tag with any symbol below (`mindiff == 0` reads as nothing found yet). Of the tags
since then, the first counts however far its symbol is, and each other one only where the
address is within 16 bytes of the end of its symbol; the nearest of those that count is
found. The instance has an address for each case: 11 (the script's symbol is nearer and found), 28 (the
script's is nearer, the program's is kept) and 40 (the program's symbol starts there, the
script's is found).

What a fixed removal by key would give: with the second free taken out of
`cnrbtree_remove`, `DeltagRemove` would always return and `IndexesWhole` would also cover the state
after it; with the code as it is, forgetting a known tag never gets there.

Fairness (`Running`): where a call or a run of the handler can go on, one does.
It is weak fairness of all these steps together, written out with `[]<>` because
its enabling condition is known; it promises no thread the mutex.

### Proofs: `CrashProofs`

For any number of threads, scripts, symbols, calls and signals:

* `IndexesAlwaysWhole`: `Spec => []IndexesWhole`.
* `NamesOnlyStaleWhenReplaced`: `Spec => []NamesStale`.
* `NearestAlwaysFound`: `Spec => []NearestFound`.

The first two speak only of states in which the mutex is free, and are not inductive: they
follow from `Inv`. `Shaped` says who owns the mutex: a thread inside a call that
has it. `Clean` names the states from which the mutex can still become free: it is
free, or its owner took it once, is in the call that took it and in no handler. A
thread that was interrupted there never comes back to its call (the handler jumps
to the checkpoint or ends the process), so a state that is not clean stays so until
the process ends; that is why a half-made change is never seen. In clean states
`Whole` holds: what `IndexesWhole` and `NamesStale` say, except for the one
address the owner is about to store under (`HoleAt`), plus what they need to
survive a step. An info that is carried or was lost is live, not in an index, and
carried by one thread only (`LooseLive`, `CarriedOnce`), and the entry that is
about to be written exists (`Staged`).

`NearestFound` holds in every state, with the mutex held and abandoned too, so it
does not follow from `Inv`. It needs of the indexes only that their tags are tags,
their addresses numbers and their entries infos, and that symbols have a size (`Registered`,
with what calls carry there), and of the loop of
`tcccrash_symget` what it has found once it has seen the tags up to g (`Seen`: `Finds` for
those tags). `FirstOffer` and `NextOffer` are the step: how `Since`, `Counting` and the winner
change with one more tag. The loop is a recursive function; that one exists
(`SoughtExists`), and that `Seen` holds of all of it (`SymgetSees`), is shown by a least
tag for which it would fail (`LeastNumber`).

The theorems assume `CrashAssumption` and `SymbolAssumption`: there is a last tag (the
program has registered finitely many), and tables are sequences of symbols whose
addresses and sizes are natural numbers. Only model-checked: `CrashesAnswered`, which is
liveness.

## 8. HTTP client: `CNHTTPClient`

`CNHTTPClientTransact` is a sequence of steps: `Transact` takes a request apart,
`Connect`, `ConnectFails` and `AttachFails` are the outcomes of
`CNSSLMakeClient`, each `Read` is one turn of the read loop with whatever `recv`
delivers, `ReadEnds` its end, `Decode` what follows it. `WSSend`, `WSRecv` with its
turns `RecvReads` and `RecvCloses`, and `Cleanup` are the calls of `clienttest.c`.
`conn` and `socks` are the connection and its descriptor, `server` what the server
will have sent when it closes, resets the connection or falls silent, `resp` the
locals of the read loop.

A URL is put together of the names it is made of and taken apart again as the code
does it. The code looks at no more of it than the scheme it starts with, its colons
and slashes and the digits after a colon, so `URL` is a sequence of parts: a scheme,
a colon, a slash, a number, or any other text with its length. `SelHost`,
`SelPort`, `ReqHost` and `Path` are what the scan of `cnhttpclient.c:44-114` finds
in it: the first mark ends the host to connect to, the last one the host of the
`Host:` line, a colon starts a port, the first slash the path. The model assumes
that a host holds no colon.

`EncodedLength`, `EncodedSize`, `HeaderLength` and `HeaderSize` are the bytes
`sprintf` writes and those `encodeduri` and the two `full_header` have, each with
the zero byte. `RequestWild` is what may become of a request that does not `Fit`.
`FrameHead` is the header of a websocket frame as the client writes it, and
`ServerReads` what `WebSocketGotData` of `http/cnhttp.c` makes of the first piece of
it that it reads: the two ends of the protocol are both in the repository.

Of a frame that `WSRecv` gets, the model has where its payload starts and its
length, a negative one of eight bytes too. A call gives up a frame that is
`TooLong` and closes the connection, and returns when what has come is no more than
the frame (`Returns`). Before it returns it writes the payload, in whole words and
from the program's buffer, behind the header of the frame, and copies to the program
what lies after that; the bytes of a frame never reach the caller, so only lengths
are modelled. It `Overruns` the buffer on the heap if that has no room for the
words, which leads to `RecvWild` and nowhere else, and `Overreads` either buffer
otherwise, which may. `pc = "wild"` also follows a second turn of one call that is
given more than the buffer holds, and an error of `recv`, which an `uint16_t`
makes a length of 65535.

Left out: chunk sizes of eight hexadecimal digits and more, which overflow an
`int`; a `send` that the kernel refuses; TLS, but for whether it is used; the
buffer that `WSRecv` never frees.

### Run

| run | instance | what it shows |
|---|---|---|
| `client_answers` | 122 requests; 14 answers, cut after any byte, that end in a close, a reset or silence; reads of up to 5 bytes; 6 frames that are received | `ConnectionHeld`: the connection is open exactly as long as it is used, and when it is freed twice; `RequestRight`: a URL is taken apart as it was put together, and which requests fit their buffers; `ResponseFaithful`: the response does not depend on how the answer was split; `FrameUnderstood`: which frames the server of the repository finds, in which first pieces; `TransactEnds`: no wait for more than was announced |

The requests have each field given or not, ports in URL, proxy and request, and
paths that hold colons and slashes of their own, or nothing. Five bytes per read
split every line end, chunk size and frame in every way. The bodies include a chunk
size with a leading zero and one that is a capital letter. The longest response is
35 bytes instead of 25 MB, so the limit is reached, by answers and by frames.
`RECV_LENGTH`, `FRAME_MIN` and two receives let a frame be shorter than, equal to
and longer than what is there, with and without room behind it. Lengths of sent
frames are those at which the header changes its form or the whole no longer comes
in the 8192 bytes the server reads at once; first pieces have every number of bytes
at which `ServerReads` decides differently, and all of them.

The properties say exactly where the code does less than one would wish:

* A chunked body is counted one byte short, and one of a single byte is handed over
  undecoded (`cnhttpclient.c:281`).
* A URL that ends with its host has an empty path: the zero byte that ends it is
  written to `encodeduri`, which then has no room at all (`cnhttpclient.c:141`). Without
  a port in it the host is missed too, and the request refused unless the host is
  given apart. `RequestFits` has the path in its condition.
* The upgrade request has 116 bytes for its origin and added headers, and the
  example needs 119 (`clienttest.c:103`). The run has requests on both sides of the
  bound.
* After `WSRecv` has closed the connection, at its end or for a frame of more than
  `MAX_RESPONSE_LENGTH` bytes, `Cleanup` frees it again (`cnhttpclient.c:392`, `:443`).
  `ConnectionHeld` says so with "exactly if".

Seen while modelling: `cnhttp.c:521` says that the server has problems with payloads
of 140 bytes. It reads one that arrives whole. If the first piece ends in the longer
length or in its mask, at six or seven bytes, `curlen` is taken below zero, and as an
`uint16_t` it is then more than the payload: the server takes 140 bytes from beyond
what it has. Any other incomplete piece makes it close the connection, but for one of up
to five bytes, which it skips; what comes next it takes for the start of a frame.
A frame of more than 8184 bytes of payload never comes whole, as the server reads 8192
bytes at once. `FrameUnderstood` states these cases; the run has 140 bytes among
its lengths.

Fairness: `recv` returns when bytes or the end are there (`WF(Read)`,
`WF(ReadEnds)`), and the program goes on (`WF(Decode)`). A server that falls
silent in the middle keeps the program waiting: no timeout is set.

### Proofs: `ClientProofs`

For all requests, answers, frames, limits and buffer sizes:

* `ConnectionAlwaysHeld`: `Spec => []ConnectionHeld`. The invariant `OwnerInv` adds that
  the program sends only after status 101, which no request without a connection
  returns, and that a call of `WSRecv` which returns a length returns no -1
  (`LengthReturned`): a negative length overruns.
* `RequestAlwaysRight`: `Spec => []RequestRight`, for any number of parts in a path.
  `UrlTakenApart` is the scan of a URL, by where its first slash, its marks and its
  colons can be; `RequestSelected` puts proxy, fields and URL together; `HeaderFits` is
  the arithmetic of the buffers, for which `BytesOfText` says that a text that is not
  empty has a byte.
* `FramesAlwaysUnderstood`: `Spec => []FrameUnderstood`, for every length and every
  first piece, not only those where the header changes its form.
* `AnswersAlwaysFaithful`: `Spec => []ResponseFaithful`, for bodies of any length in
  any number of chunks.

`RequestAssumption` says what a request is. `MessageAssumption` says what a server
sends: no more than the length it announces (what else the client keeps would
depend on the reads), and in a body that is in chunks as it should be, no empty
chunk before the last and sizes of up to seven hexadecimal digits, with leading
zeros or not. Bodies that only claim to be in chunks are not restricted. Nor is a
body restricted to fit: beyond the limit, and after status 101, the property says
less, as the client stops early. Both also say that `None` is none of the values it
is compared with.

The invariant of the last theorem is `AnswerInv`. While the loop reads, its locals are
`Locals(m, n, upgraded)`, a function of the answer `m` and the number `n` of bytes that
came, so no trace is left of where the reads were cut (`ReadKeeps`); that the blank
line is found when its last byte comes is `HeaderFound`. What `Decode` makes of it
then is a statement about the answer alone. `Unchunked` is a recursive function
over the places of the text, and `TextRead` says what it returns: the bytes of the
first `i` chunks, for some `i`, and of all of them if all was read. The induction in
it is over the number of a chunk. As the library's theorems about induction cannot be
used, the proof takes the least number for which the claim fails (`LeastNumber`,
from `WellFoundedInduction`), and the recursive functions are shown to exist by the
functions that agree with them up to a number (`StepsExist`, `TextExists`).
`SizeIsNumber` (a size is the number its digits stand for, leading zeros or not) and
`FlattenJoins` (what `FlattenSeq` of the library returns) rest on the same steps.

Only model-checked: `TransactEnds`, which is liveness.

## 9. Algorithms: `Bresenham`, `HuffTree`, `MCAlgorithms`

**`Bresenham`** is `BresenhamDrawLineWithClip`: `ClipX` and `ClipY` move the start
to the border with the fixed-point slopes the code computes (`num`, cut to 16
bits by `Slope`, shifted towards minus infinity), `CheckEnds` is the test for a
line that misses the window, `Steep` and `Flat` are one turn of the two loops. The
reference is the set of pixels of the window less than half a pixel off the line.

**`HuffTree`** is `hufftreegen.h`: `Count` adds one datum to the table of counts,
`Generate` and `Insert` fill the heap, `Merge` is one turn of the loop that builds
the tree, `PercUp` and `PercDown` the moves in the heap, with counts compared as
`int` where the code does and as `uint32` where it does (`WIDTH` bits here).
`PairTable` are the codes, `Walk` the decoding loop of the example. The reference
is the set of code lengths that Kraft's equation allows.

### Run

| run | instance | what it shows |
|---|---|---|
| `algorithms` | one problem per behaviour: every line from (-6,-5) to (9,8) in a window of 5 by 4; tables of up to five counts of 4 bits, with one more datum added | `LineDrawn`: nothing outside of the window or far from the line, and lines that start inside are complete; `CodeOptimal`: every value has a code, two codes in a row decode to their values, and no prefix code is cheaper |

The window and its surroundings contain lines through every border and corner
and of every slope up to 15; coordinates beyond 2^15, where `dy << 16` leaves `int`,
are outside of it. Four bits of counts reach the sign bit and the wrap of a sum.

What the properties leave out is what the code does not do. A line that starts
outside may be lost wholly, as (-5,-1)-(5,1), or for half of its length, because
the clipped start is rounded down. A count of 2^31 and more is negative where the
heap is filled and large where it is used, so the tree is not optimal; without
any count the length of the table is -1; a single value gets no bits.

## Not modelled

* `latencytest.c`: a measuring program; what it is about is time.
* `cnv4l2`: a sequence of ioctls whose effect is the driver's, of which the
  repository says nothing.
* CRC examples, `sha1.c`: sequential bit arithmetic, better tested against
  published values.
* `cncrashhandler_mini.h`: prints a back trace and ends the process.
* `tccexports.c`, the symbol enumerators, `random/`: tables, walks over ELF files
  and older copies of `tcccrash.c`.
* `os_generic.h`, `osg_aux.h`: wrappers of the system; the recursive mutex and the
  file time are part of `TCCEngine` and `TCCCrash`.
* `ssl_server.c`, `clienttest.c`, the commands of `usefulcmd`, the snippets of
  `library` and the rest: drivers, filters and formatting.
* `attic/linelog.c`: a bounded log that nothing uses; it is next in the plan.

## Plan

What is done, and what comes next.

Done: the HTTP server (`CNHTTP`, `HTTPBSD`, `HTTPWire`, `HTTPProofs`,
`HTTPWireProofs`), the hash table (`CNHash`, `Multimap`, `HashProofs`), the tree
(`CNRBTree`, `RBProofs`), the script engine (`TCCEngine`, `TCCProofs`), crash recovery
(`TCCCrash`, `CrashProofs`), the terminal (`VLinTerm`, `VLinTermHost`, `TermProofs`), the HTTP client
(`CNHTTPClient`, `ClientProofs`) and the algorithms (`Bresenham`, `HuffTree`).

Next: `LineLog`, the bounded log of `attic/linelog.c`.

Only model-checked: the liveness properties (`OperationsEnd` and those of the
servers and the client), `LineDrawn` and `CodeOptimal`. `LineDrawn` is about a slope
that is rounded to 16 bits: it cannot hold for windows of every size, and no theorem
with a bound on the length of a line was attempted. `CodeOptimal` compares the
tree with the best of all codes, a definition by recursion over its data.
