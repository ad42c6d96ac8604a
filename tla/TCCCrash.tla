------------------------------ MODULE TCCCrash ------------------------------
(***************************************************************************)
(* tccengine/tcccrash.c: threads that register and look up the symbols of  *)
(* scripts under one recursive mutex, set checkpoints, and crash.  The     *)
(* signal handler runs on top of whatever its thread was doing, looks the  *)
(* crash up in the same indexes under the same mutex, and leaves with      *)
(* siglongjmp or with exit.  Main is the thread of example_host.c; the     *)
(* order in which threads call the library is free otherwise.              *)
(***************************************************************************)
EXTENDS Integers, Sequences, SequencesExt, FiniteSetsExt

CONSTANTS
  Threads, Main, NoThread,
  Tags,             \* the TCCStates scripts are registered under; 0 is the program
  InstallSymbols,   \* what EnumerateSymbols reports: a sequence of symbols
  Tables,           \* what a symbol table may hold: sequences of symbols
  Infos, NoInfo,    \* the tcccrash_syminfo blocks malloc can hand out
  MAXBTDEPTH,       \* return addresses a backtrace holds
  MAX_SIGNALS,      \* bound: signals in a behaviour
  MAX_CALLS         \* bound: other calls of the library

ASSUME CrashAssumption ==
  /\ Main \in Threads /\ NoThread \notin Threads
  /\ Infos \subseteq Nat /\ NoInfo \notin Infos
  /\ Tags \subseteq Nat /\ 0 \notin Tags
  /\ {MAXBTDEPTH, MAX_SIGNALS, MAX_CALLS} \subseteq Nat

Symbols == UNION {Range(s) : s \in Tables \cup {InstallSymbols}}  \* [name, address, size]
(* Return addresses: at, just above and well above a symbol.               *)
Probes == UNION {{s.address, s.address + s.size, s.address + 2 * s.size + 16} : s \in Symbols}

(* There is a last tag; addresses and sizes are numbers.                   *)
ASSUME SymbolAssumption ==
  /\ \E last \in Tags \cup {0} : Tags \subseteq 0..last
  /\ Tables \cup {InstallSymbols} \subseteq Seq(Symbols)
  /\ \A s \in Symbols : s.address \in Nat /\ s.size \in Nat

VARIABLES
  infos,            \* malloc: the symbol in each block, Live or Freed
  symroot,          \* tag -> address -> info
  symroot_name,     \* tag -> name -> info
  mutex,            \* symroot_mutex: its owner and depth
  installed,        \* "no", "yes" or, after tcccrash_uninstall, "gone"
  tracked,          \* the threads whose TLS holds a checkpoint
  cps,              \* each thread's checkpoint; NoThread: scratchcp
  frames,           \* the function that called sigsetjmp: "none", "live", "returned"
  calls,            \* each thread's call into the library
  handlers,         \* each thread's run of sighandler
  ended,            \* why the process ended, or "no"
  lost,             \* infos whose owner was jumped out of (for properties)
  signals, made

index == <<infos, symroot, symroot_name>>
points == <<installed, tracked, cps, frames>>
bounds == <<signals, made>>
vars == <<index, mutex, points, calls, handlers, ended, lost, bounds>>

NoCheckpoint == [can_jump |-> FALSE, in_crash_handler |-> FALSE, lastcrash |-> FALSE]
Idle == [at |-> "idle", tag |-> 0, todo |-> <<>>, new |-> NoInfo]
Unlocked == [owner |-> NoThread, count |-> 0]
NoHandler == [at |-> "none", sig |-> "none", cp |-> NoThread, sel |-> NoInfo, left |-> -1]

(* The process ends, and its memory with it.                               *)
Nothing == [id \in Infos |-> [state |-> "unused", symbol |-> CHOOSE s \in Symbols : TRUE]]
Exit(why) ==
  /\ ended' = why
  /\ infos' = Nothing /\ symroot' = <<>> /\ symroot_name' = <<>>
  /\ mutex' = Unlocked
  /\ installed' = "no" /\ tracked' = {}
  /\ cps' = [t \in Threads \cup {NoThread} |-> NoCheckpoint]
  /\ frames' = [t \in Threads |-> "none"]
  /\ calls' = [t \in Threads |-> Idle]
  /\ handlers' = [t \in Threads |-> NoHandler]
  /\ lost' = {} /\ signals' = 0 /\ made' = 0

---------------------------------------------------------------------------
(* The recursive mutex.                                                    *)
\* Mutant: a mutex that is not recursive.
CanLock_Plain(t) == mutex.owner = NoThread
CanLock(t) == mutex.owner \in {NoThread, t}
OGLockMutex(t) == CanLock(t) /\ mutex' = [owner |-> t, count |-> mutex.count + 1]
OGUnlockMutex(t) ==
  mutex' = [owner |-> IF mutex.count = 1 THEN NoThread ELSE t, count |-> mutex.count - 1]

(* A step of a call of t: the process runs and no handler covers it.       *)
Calling(t, at) == ended = "no" /\ handlers[t].at = "none" /\ calls[t].at = at
Goto(t, at) == calls' = [calls EXCEPT ![t].at = at]
Here(t) == infos[calls[t].new].symbol

(* The info a registration has not stored yet.                             *)
Carried(t) == IF calls[t].at \in {"lock", "replace", "store"} THEN {calls[t].new} ELSE {}

---------------------------------------------------------------------------
(* Looking symbols up.                                                     *)

(* cnrbtree_ptrsimi_get2 with approx, and one step back if it is above.    *)
Below(g, ip) == {a \in DOMAIN symroot[g] : symroot[g][a] # NoInfo /\ a <= ip}
Floor(g, ip) == symroot[g][Max(Below(g, ip))]
Diff(g, ip) == ip - Max(Below(g, ip))
Near(g, ip) == Diff(g, ip) < infos[Floor(g, ip)].symbol.size + 16

\* Mutant: the last tag with a symbol below wins.
tcccrash_symget_Last(ip) ==
  LET found == {g \in DOMAIN symroot : Below(g, ip) # {}}
  IN IF found = {} THEN [ret |-> NoInfo, mindiff |-> 0]
     ELSE [ret |-> Floor(Max(found), ip), mindiff |-> Diff(Max(found), ip)]

(* The loop of tcccrash_symget over the tags, in their order: mindiff is 0 *)
(* before the first candidate and after a symbol that starts at ip.        *)
tcccrash_symget(ip) ==
  LET Nearer(g, best) ==
        \/ best.mindiff = 0
        \/ Diff(g, ip) < best.mindiff /\ Near(g, ip)
      Seen[g \in -1..Max(Tags \cup {0})] ==
        IF g = -1 THEN [ret |-> NoInfo, mindiff |-> 0]
        ELSE IF g \in DOMAIN symroot /\ Below(g, ip) # {} /\ Nearer(g, Seen[g - 1])
             THEN [ret |-> Floor(g, ip), mindiff |-> Diff(g, ip)]
             ELSE Seen[g - 1]
  IN Seen[Max(Tags \cup {0})]

---------------------------------------------------------------------------
(* Registering symbols.                                                    *)

(* A call begins: the program's symbols for tcccrash_install, those of a   *)
(* script for tcccrash_symtcc.                                             *)
tcccrash_install ==
  /\ ended = "no" /\ installed = "no" /\ calls[Main] = Idle
  /\ installed' = "yes"
  /\ calls' = [calls EXCEPT ![Main] = [Idle EXCEPT !.at = "next", !.todo = InstallSymbols]]
  /\ UNCHANGED <<index, mutex, tracked, cps, frames, handlers, ended, lost, bounds>>

Ready(t) == Calling(t, "idle") /\ installed = "yes" /\ cps[NoThread].lastcrash /\ made < MAX_CALLS

tcccrash_symtcc(t) ==
  /\ Ready(t)
  /\ made' = made + 1
  /\ \E g \in Tags, table \in Tables :
       calls' = [calls EXCEPT ![t] = [Idle EXCEPT !.at = "next", !.tag = g, !.todo = table]]
  /\ UNCHANGED <<index, mutex, points, handlers, ended, lost, signals>>

(* dupsym: the next symbol gets a block of its own.                        *)
Unused == {id \in Infos : infos[id].state = "unused"}
dupsym(t) ==
  /\ Calling(t, "next") /\ calls[t].todo # <<>> /\ Unused # {}
  /\ LET id == CHOOSE x \in Unused : TRUE IN
       /\ infos' = [infos EXCEPT ![id] = [state |-> "live", symbol |-> Head(calls[t].todo)]]
       /\ calls' = [calls EXCEPT ![t].at = "lock", ![t].new = id, ![t].todo = Tail(@)]
  /\ UNCHANGED <<symroot, symroot_name, mutex, points, handlers, ended, lost, bounds>>

(* The loop over the table ends; install then makes scratchcp usable.      *)
EndTable(t) ==
  /\ Calling(t, "next") /\ calls[t].todo = <<>>
  /\ calls' = [calls EXCEPT ![t] = Idle]
  /\ cps' = IF calls[t].tag = 0 THEN [cps EXCEPT ![NoThread].lastcrash = TRUE] ELSE cps
  /\ UNCHANGED <<index, mutex, installed, tracked, frames, handlers, ended, lost, bounds>>

(* RBA of a key and the assignment to it.                                  *)
Put(f, k, v) == [x \in DOMAIN f \cup {k} |-> IF x = k THEN v ELSE f[x]]

(* tcccrash_symset, as far as a signal can tell its steps apart: the lock  *)
(* and, for a new tag, an empty tree in each index;                        *)
SymsetOpen(t) ==
  /\ Calling(t, "lock") /\ OGLockMutex(t) /\ Goto(t, "replace")
  /\ LET g == calls[t].tag IN
     IF g \in DOMAIN symroot THEN UNCHANGED <<symroot, symroot_name>>
     ELSE /\ symroot' = Put(symroot, g, <<>>)
          /\ symroot_name' = Put(symroot_name, g, <<>>)
  /\ UNCHANGED <<infos, points, handlers, ended, lost, bounds>>

\* Mutant: what the address held is not freed.
SymsetReplace_Keeps(t) ==
  /\ Calling(t, "replace") /\ Goto(t, "store")
  /\ symroot' = [symroot EXCEPT ![calls[t].tag] = Put(@, Here(t).address, NoInfo)]
  /\ UNCHANGED <<infos, symroot_name, mutex, points, handlers, ended, lost, bounds>>

(* the entry of the address is made, or what it holds is freed;            *)
SymsetReplace(t) ==
  /\ Calling(t, "replace") /\ Goto(t, "store")
  /\ LET g == calls[t].tag
         a == Here(t).address
         cs == IF a \in DOMAIN symroot[g] THEN symroot[g][a] ELSE NoInfo
     IN IF cs = NoInfo
        THEN symroot' = [symroot EXCEPT ![g] = Put(@, a, NoInfo)] /\ infos' = infos
        ELSE infos' = [infos EXCEPT ![cs].state = "freed"] /\ symroot' = symroot
  /\ UNCHANGED <<symroot_name, mutex, points, handlers, ended, lost, bounds>>

\* Mutant: a name keeps the first info registered under it.
SymsetStore_FirstName(t) ==
  /\ Calling(t, "store") /\ Goto(t, "unlock")
  /\ LET c == calls[t] IN
     /\ symroot' = [symroot EXCEPT ![c.tag][Here(t).address] = c.new]
     /\ symroot_name' = IF Here(t).name \in DOMAIN symroot_name[c.tag] THEN symroot_name
                         ELSE [symroot_name EXCEPT ![c.tag] = Put(@, Here(t).name, c.new)]
  /\ UNCHANGED <<infos, mutex, points, handlers, ended, lost, bounds>>

(* the new info goes in by address and by name.                            *)
SymsetStore(t) ==
  /\ Calling(t, "store") /\ Goto(t, "unlock")
  /\ LET c == calls[t] IN
     /\ symroot' = [symroot EXCEPT ![c.tag][Here(t).address] = c.new]
     /\ symroot_name' = [symroot_name EXCEPT ![c.tag] = Put(@, Here(t).name, c.new)]
  /\ UNCHANGED <<infos, mutex, points, handlers, ended, lost, bounds>>

(* A registration unlocks and goes on with the next symbol; forgetting a   *)
(* tag ends so too.                                                        *)
CallUnlock(t) ==
  /\ Calling(t, "unlock") /\ OGUnlockMutex(t)
  /\ calls' = [calls EXCEPT ![t].at = "next", ![t].new = NoInfo]
  /\ UNCHANGED <<index, points, handlers, ended, lost, bounds>>

---------------------------------------------------------------------------
(* Forgetting the symbols of a script.                                     *)

tcccrash_deltag(t) ==
  /\ Ready(t)
  /\ made' = made + 1
  /\ \E g \in Tags : calls' = [calls EXCEPT ![t] = [Idle EXCEPT !.at = "dellock", !.tag = g]]
  /\ UNCHANGED <<index, mutex, points, handlers, ended, lost, signals>>

DeltagLock(t) ==
  /\ Calling(t, "dellock") /\ OGLockMutex(t) /\ Goto(t, "delete")
  /\ UNCHANGED <<index, points, handlers, ended, lost, bounds>>

(* cnrbtree's remove frees the node of a tag it finds, then what the node  *)
(* holds, then the node again: malloc aborts the thread where it sees      *)
(* that, and is corrupt where it does not.                                 *)
Raised(sig) == [NoHandler EXCEPT !.at = "test", !.sig = sig]
Aborted(t) == handlers' = [handlers EXCEPT ![t] = Raised("SIGABRT")]

Without(f, g) == [x \in DOMAIN f \ {g} |-> f[x]]

DeltagRemove(t) ==
  /\ Calling(t, "delete")
  /\ LET g == calls[t].tag IN
     \/ /\ g \notin DOMAIN symroot /\ Goto(t, "delname")
        /\ UNCHANGED <<index, mutex, points, handlers, ended, lost, bounds>>
     \/ /\ g \in DOMAIN symroot /\ Aborted(t)
        /\ infos' = [id \in Infos |-> IF id \in Range(symroot[g])
                                      THEN [infos[id] EXCEPT !.state = "freed"] ELSE infos[id]]
        /\ symroot' = Without(symroot, g)
        /\ UNCHANGED <<symroot_name, mutex, points, calls, ended, lost, bounds>>
     \/ g \in DOMAIN symroot /\ Exit("corrupt")

DeltagRemoveName(t) ==
  /\ Calling(t, "delname")
  /\ LET g == calls[t].tag IN
     \/ /\ g \notin DOMAIN symroot_name /\ Goto(t, "unlock")
        /\ UNCHANGED <<index, mutex, points, handlers, ended, lost, bounds>>
     \/ /\ g \in DOMAIN symroot_name /\ Aborted(t)
        /\ symroot_name' = Without(symroot_name, g)
        /\ UNCHANGED <<infos, symroot, mutex, points, calls, ended, lost, bounds>>
     \/ g \in DOMAIN symroot_name /\ Exit("corrupt")

(* tcccrash_symaddr looks a name up under the mutex, or fails;             *)
tcccrash_symaddr(t) ==
  /\ Ready(t)
  /\ made' = made + 1
  /\ calls' = [calls EXCEPT ![t] = [Idle EXCEPT !.at = "addrlock"]]
  /\ UNCHANGED <<index, mutex, points, handlers, ended, lost, signals>>

SymaddrLock(t) ==
  /\ Calling(t, "addrlock") /\ OGLockMutex(t)
  /\ \E found \in {NoInfo} \cup UNION {Range(symroot_name[g]) : g \in DOMAIN symroot_name} :
       calls' = [calls EXCEPT ![t].at = "found", ![t].new = found]
  /\ UNCHANGED <<index, points, handlers, ended, lost, bounds>>

SymaddrUnlock(t) ==
  /\ Calling(t, "found") /\ OGUnlockMutex(t)
  /\ calls' = IF calls[t].new = NoInfo THEN [calls EXCEPT ![t] = Idle]
              ELSE [calls EXCEPT ![t].at = "read"]
  /\ UNCHANGED <<index, points, handlers, ended, lost, bounds>>

(* the address is taken from the info after the unlock: where it has been  *)
(* freed, whatever is there is returned, or the thread crashes.            *)
SymaddrRead(t) ==
  /\ Calling(t, "read")
  /\ \/ calls' = [calls EXCEPT ![t] = Idle] /\ UNCHANGED handlers
     \/ /\ infos[calls[t].new].state = "freed"
        /\ handlers' = [handlers EXCEPT ![t] = Raised("SIGSEGV")] /\ UNCHANGED calls
  /\ UNCHANGED <<index, mutex, points, ended, lost, bounds>>

---------------------------------------------------------------------------
(* Checkpoints.                                                            *)

Pointing(t) == Calling(t, "idle") /\ installed = "yes" /\ made < MAX_CALLS /\ made' = made + 1

(* tcccrash_checkpoint: the macro of tcccrash.h in a function that calls   *)
(* script code, as ecaller of the example.                                 *)
tcccrash_checkpoint(t) ==
  /\ Pointing(t)
  /\ tracked' = tracked \cup {t}
  /\ cps' = [cps EXCEPT ![t].can_jump = TRUE, ![t].lastcrash = TRUE]
  /\ frames' = [frames EXCEPT ![t] = "live"]
  /\ UNCHANGED <<index, mutex, installed, calls, handlers, ended, lost, signals>>

(* The function returns: jmpbuf points into a frame that is gone.          *)
ReturnFromFrame(t) ==
  /\ Pointing(t) /\ frames[t] = "live"
  /\ frames' = [frames EXCEPT ![t] = "returned"]
  /\ UNCHANGED <<index, mutex, installed, tracked, cps, calls, handlers, ended, lost, signals>>

tcccrash_nullifycheckpoint(t) ==
  /\ Pointing(t)
  /\ tracked' = tracked \cup {t}
  /\ cps' = [cps EXCEPT ![t].can_jump = FALSE, ![t].lastcrash = TRUE]
  /\ UNCHANGED <<index, mutex, installed, frames, calls, handlers, ended, lost, signals>>

tcccrash_closethread(t) ==
  /\ Pointing(t) /\ t \in tracked
  /\ tracked' = tracked \ {t}
  /\ cps' = [cps EXCEPT ![t] = NoCheckpoint]
  /\ frames' = [frames EXCEPT ![t] = "none"]
  /\ UNCHANGED <<index, mutex, installed, calls, handlers, ended, lost, signals>>

(* The handler stays: sigaction with no action changes nothing.            *)
tcccrash_uninstall ==
  /\ Pointing(Main) /\ cps[NoThread].lastcrash
  /\ installed' = "gone"
  /\ tracked' = {}
  /\ cps' = [cps EXCEPT ![NoThread].lastcrash = FALSE]
  /\ UNCHANGED <<index, mutex, frames, calls, handlers, ended, lost, signals>>

---------------------------------------------------------------------------
(* Signals and sighandler.                                                 *)

(* A script crashes, or a watchdog's alarm comes in the middle of a call   *)
(* or of the handler (between calls it is like a crash).  A signal is      *)
(* blocked while its own handler runs.                                     *)
Signal(t) ==
  /\ ended = "no" /\ installed # "no" /\ signals < MAX_SIGNALS
  /\ \/ calls[t].at = "idle" /\ handlers[t].at = "none"
        /\ handlers' = [handlers EXCEPT ![t] = Raised("SIGSEGV")]
     \/ (calls[t].at # "idle" \/ handlers[t].at # "none") /\ handlers[t].sig # "SIGALRM"
        /\ handlers' = [handlers EXCEPT ![t] = Raised("SIGALRM")]
  /\ signals' = signals + 1
  /\ UNCHANGED <<index, mutex, points, calls, ended, lost, made>>

Handling(t, at) == ended = "no" /\ handlers[t].at = at
InHandler(t, at) == handlers' = [handlers EXCEPT ![t].at = at]

(* Which checkpoint, and whether it is in a crash already.                 *)
CheckpointOf(t) == IF t \in tracked THEN t ELSE NoThread
Enter(t) ==
  /\ Handling(t, "test")
  /\ LET cp == CheckpointOf(t) IN
     \/ cps[cp].in_crash_handler /\ Exit("double crash")
     \/ /\ ~cps[cp].in_crash_handler
        /\ cps' = [cps EXCEPT ![cp].in_crash_handler = TRUE]
        /\ handlers' = [handlers EXCEPT ![t].at = "look", ![t].cp = cp]
        /\ UNCHANGED <<index, mutex, installed, tracked, frames, calls, ended, lost, bounds>>

(* tcccrash_symget for one address.  An entry without data, or a text      *)
(* buffer that is not there, is a crash in the handler.                    *)
CanFault(t) ==
  \/ \E g \in DOMAIN symroot : NoInfo \in Range(symroot[g])
  \/ ~cps[handlers[t].cp].lastcrash

Look(t) ==
  /\ Handling(t, "look") /\ CanLock(t)
  /\ \/ CanFault(t) /\ Exit("double crash")
     \/ /\ cps[handlers[t].cp].lastcrash \/ installed = "gone"
        /\ \E ip \in Probes :
             handlers' = [handlers EXCEPT ![t].at = "use", ![t].sel = tcccrash_symget(ip).ret]
        /\ UNCHANGED <<index, mutex, points, calls, ended, lost, bounds>>

(* How many return addresses are left to look up: after the crash address, *)
(* as many as the walk of tccbacktrace found; the loop over them also stops*)
(* when the text is nearly full.                                           *)
tccbacktrace(left) == IF left = -1 THEN 0..MAXBTDEPTH ELSE {left - 1, 0}

(* What was found is printed after the unlock: it may have been freed.     *)
UsesFreed(t) == handlers[t].sel # NoInfo /\ infos[handlers[t].sel].state = "freed"

Use(t) ==
  /\ Handling(t, "use")
  /\ \/ UsesFreed(t) /\ Exit("double crash")
     \/ handlers[t].left = -1 /\ Exit("no stack pointer")
     \/ /\ \E left \in tccbacktrace(handlers[t].left) :
             handlers' = [handlers EXCEPT ![t].at = IF left = 0 THEN "done" ELSE "look",
                                          ![t].left = left, ![t].sel = NoInfo]
        /\ UNCHANGED <<index, mutex, points, calls, ended, lost, bounds>>

(* siglongjmp leaves the handler and whatever the thread was doing, with   *)
(* the mutex if it had it; into a frame that has returned it is undefined. *)
Finish(t) ==
  /\ Handling(t, "done")
  /\ LET cp == handlers[t].cp IN
     \/ ~cps[cp].can_jump /\ Exit("untracked")
     \/ cps[cp].can_jump /\ frames[t] # "live" /\ Exit("wild jump")
     \/ /\ cps[cp].can_jump /\ frames[t] = "live"
        /\ cps' = [cps EXCEPT ![cp].in_crash_handler = FALSE]
        /\ calls' = [calls EXCEPT ![t] = Idle]
        /\ handlers' = [handlers EXCEPT ![t] = NoHandler]
        /\ lost' = lost \cup Carried(t)
        /\ UNCHANGED <<index, mutex, installed, tracked, frames, ended, bounds>>

---------------------------------------------------------------------------
Init ==
  /\ infos = Nothing
  /\ symroot = <<>> /\ symroot_name = <<>>
  /\ mutex = Unlocked
  /\ installed = "no" /\ tracked = {}
  /\ cps = [t \in Threads \cup {NoThread} |-> NoCheckpoint]
  /\ frames = [t \in Threads |-> "none"]
  /\ calls = [t \in Threads |-> Idle]
  /\ handlers = [t \in Threads |-> NoHandler]
  /\ ended = "no" /\ lost = {}
  /\ signals = 0 /\ made = 0 

(* The rest of a call, and of a run of the handler.                        *)
CallStep(t) ==
  \/ dupsym(t) \/ EndTable(t)
  \/ SymsetOpen(t) \/ SymsetReplace(t) \/ SymsetStore(t)
  \/ DeltagLock(t) \/ DeltagRemove(t) \/ DeltagRemoveName(t)
  \/ SymaddrLock(t) \/ SymaddrUnlock(t) \/ SymaddrRead(t) \/ CallUnlock(t)

HandlerStep(t) == Enter(t) \/ Look(t) \/ Use(t) \/ Finish(t)

(* What the program and its surroundings choose to do next.                *)
Choice(t) ==
  \/ tcccrash_symtcc(t) \/ tcccrash_deltag(t) \/ tcccrash_symaddr(t)
  \/ tcccrash_checkpoint(t) \/ ReturnFromFrame(t) \/ tcccrash_nullifycheckpoint(t)
  \/ tcccrash_closethread(t) \/ Signal(t)

Next ==
  \/ tcccrash_install \/ tcccrash_uninstall
  \/ \E t \in Threads : CallStep(t) \/ HandlerStep(t) \/ Choice(t)

(* The process runs: where some call or handler can go on, one does (weak  *)
(* fairness of CallStep and HandlerStep together, its enabling condition   *)
(* and its steps spelled out: they spend no bound).                        *)
CanGoOn(t) ==
  /\ ended = "no"
  /\ IF handlers[t].at # "none" THEN handlers[t].at = "look" => CanLock(t)
     ELSE /\ calls[t].at # "idle"
          /\ calls[t].at \in {"lock", "dellock", "addrlock"} => CanLock(t)
          /\ calls[t].at = "next" => calls[t].todo = <<>> \/ Unused # {}
GoesOn == <<signals, made>> = <<signals', made'>> \/ ended' # "no"
Running == []<>(\A t \in Threads : ~CanGoOn(t)) \/ []<><<GoesOn>>_<<calls, handlers, ended>>

Spec == Init /\ [][Next]_vars /\ Running

---------------------------------------------------------------------------
(* Properties.                                                             *)

(* The indexes are only ever seen whole: when nobody holds the mutex, both *)
(* know the same tags, every address leads to a live info of that address  *)
(* that no other address leads to, and every info that was stored in them  *)
(* is there or freed; what is not was on its way or was jumped away from.  *)
(* symset replaces in three steps, deltag frees a whole tag, and a signal  *)
(* may leave either half done (it then never lets go of the mutex).        *)
Indexed == UNION {Range(symroot[g]) : g \in DOMAIN symroot}
IndexesWhole ==
  mutex.owner = NoThread =>
    /\ DOMAIN symroot = DOMAIN symroot_name
    /\ \A g \in DOMAIN symroot : \A a \in DOMAIN symroot[g] :
         /\ symroot[g][a] # NoInfo
         /\ infos[symroot[g][a]].state = "live"
         /\ infos[symroot[g][a]].symbol.address = a
    /\ \A g, h \in DOMAIN symroot : \A a \in DOMAIN symroot[g], b \in DOMAIN symroot[h] :
         symroot[g][a] = symroot[h][b] => g = h /\ a = b
    /\ {id \in Infos : infos[id].state = "live"} =
         Indexed \cup (UNION {Carried(t) : t \in Threads}) \cup (lost \ Indexed)

(* A name leads to a live info of that name and tag; the one exception is  *)
(* an address that was registered again: then the old name still leads to  *)
(* the info that was freed, and its address now has another name (the      *)
(* linker's table repeats addresses, so this is the common case).          *)
NamesStale ==
  mutex.owner = NoThread =>
    \A g \in DOMAIN symroot_name : \A name \in DOMAIN symroot_name[g] :
      LET s == infos[symroot_name[g][name]].symbol
          now == symroot[g][s.address]
      IN /\ s.name = name
         /\ now # symroot_name[g][name] =>
              infos[symroot_name[g][name]].state = "freed" /\ infos[now].symbol.name # name

(* Which symbol tcccrash_symget finds for an address, without its loop.    *)
(* Each tag offers the last symbol that starts at or below it.  A tag in   *)
(* which one starts at the address itself makes it forget what it found    *)
(* before, and is forgotten in turn at the next tag that offers any symbol *)
(* (mindiff = 0 reads as nothing found yet).  Of the tags since then, the  *)
(* first counts at any distance and the others where the address is within *)
(* 16 bytes of the symbol's end: of those that count, one with the nearest *)
(* symbol is found, which need not be the nearest of all.                  *)
Offers(ip) == {g \in DOMAIN symroot : Below(g, ip) # {}}
Since(ip, tags) == {g \in tags : \A e \in tags : Diff(e, ip) = 0 => e < g}
Counting(ip, tags) ==
  {g \in Since(ip, tags) : Near(g, ip) \/ \A h \in Since(ip, tags) : g <= h}
Wins(g, ip, tags) ==
  IF Since(ip, tags) = {} THEN Diff(g, ip) = 0
  ELSE g \in Counting(ip, tags) /\ \A h \in Counting(ip, tags) : Diff(g, ip) <= Diff(h, ip)
Finds(ip, tags, found) ==
  IF tags = {} THEN found = [ret |-> NoInfo, mindiff |-> 0]
  ELSE \E g \in tags :
         found = [ret |-> Floor(g, ip), mindiff |-> Diff(g, ip)] /\ Wins(g, ip, tags)
NearestFound == \A ip \in Probes : Finds(ip, Offers(ip), tcccrash_symget(ip))

(* A crash is answered: the handler jumps back or ends the process, unless *)
(* another thread left with the mutex and never unlocks it.                *)
Holding == {"replace", "store", "unlock", "delete", "delname", "found"}
LeftWithMutex(t) == mutex.owner \notin {NoThread, t} /\ calls[mutex.owner].at \notin Holding
CrashesAnswered ==
  \A t \in Threads :
    handlers[t].at # "none" ~> handlers[t].at = "none" \/ ended # "no" \/ LeftWithMutex(t)
=============================================================================
