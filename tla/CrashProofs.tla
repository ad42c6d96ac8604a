---------------------------- MODULE CrashProofs ----------------------------
(***************************************************************************)
(* Proofs about TCCCrash for every number of threads, scripts, symbols,    *)
(* calls and signals: whoever gets the mutex finds the indexes whole, a    *)
(* name is stale only where its address was registered again, and which    *)
(* symbol a lookup by address finds.                                       *)
(***************************************************************************)
EXTENDS TCCCrash, WellFoundedInduction, TLAPS

-----------------------------------------------------------------------------
(* The inductive invariant                                                 *)

CallsShape ==
  /\ DOMAIN calls = Threads
  /\ \A t \in Threads : DOMAIN calls[t] = {"at", "tag", "todo", "new"}
HandlersShape ==
  /\ DOMAIN handlers = Threads
  /\ \A t \in Threads : DOMAIN handlers[t] = {"at", "sig", "cp", "sel", "left"}
InfosShape ==
  /\ DOMAIN infos = Infos
  /\ \A id \in Infos : DOMAIN infos[id] = {"state", "symbol"}
MutexShape ==
  /\ mutex.owner \in Threads \cup {NoThread} /\ mutex.count \in Nat
  /\ mutex.count = 0 <=> mutex.owner = NoThread

\* Who is inside a call that has the mutex owns it.
HoldersOwn == \A t \in Threads : calls[t].at \in Holding => mutex.owner = t

Shaped == CallsShape /\ HandlersShape /\ InfosShape /\ MutexShape /\ HoldersOwn

\* The mutex is free, or its owner took it once and will let it go: it is in
\* the call that took it, and no signal has taken it out of there.
Proper(t) == mutex.count = 1 /\ calls[t].at \in Holding /\ handlers[t].at = "none"
Clean == mutex.owner = NoThread \/ Proper(mutex.owner)

\* The info a registration has not stored yet, and the address it is about to
\* store it under.
Carries(t, id) == calls[t].at \in {"lock", "replace", "store"} /\ id = calls[t].new
HoleAt(g, a) == \E t \in Threads : calls[t].at = "store" /\ g = calls[t].tag /\ a = Here(t).address

Live(id) == id \in Infos /\ infos[id].state = "live"
Freed(id) == id \in Infos /\ infos[id].state = "freed"
Entry(g, a) == g \in DOMAIN symroot /\ a \in DOMAIN symroot[g]
Stored(id) == \E g, a : Entry(g, a) /\ symroot[g][a] = id
Loose(id) == id \in lost \/ \E t \in Threads : Carries(t, id)

EntriesLive ==
  \A g, a : Entry(g, a) =>
    IF HoleAt(g, a) THEN symroot[g][a] = NoInfo \/ Freed(symroot[g][a])
    ELSE Live(symroot[g][a]) /\ infos[symroot[g][a]].symbol.address = a
EntriesApart ==
  \A g, a, h, b : Entry(g, a) /\ Entry(h, b) /\ symroot[g][a] = symroot[h][b] => g = h /\ a = b
LiveKept == \A id \in Infos : Live(id) => Stored(id) \/ Loose(id)
LooseLive == \A id : Loose(id) => Live(id) /\ ~Stored(id)
CarriedOnce ==
  \A t \in Threads : \A id : Carries(t, id) =>
    id \notin lost /\ \A u \in Threads : Carries(u, id) => u = t
Named(g, name, id) ==
  LET a == infos[id].symbol.address IN
  /\ id \in Infos /\ infos[id].state # "unused" /\ infos[id].symbol.name = name
  /\ a \in DOMAIN symroot[g]
  /\ symroot[g][a] # id =>
       Freed(id) /\ (HoleAt(g, a) \/ infos[symroot[g][a]].symbol.name # name)
NamesLead ==
  \A g, name : g \in DOMAIN symroot_name /\ name \in DOMAIN symroot_name[g] =>
    Named(g, name, symroot_name[g][name])
Staged ==
  \A t \in Threads :
    /\ calls[t].at = "replace" => calls[t].tag \in DOMAIN symroot
    /\ calls[t].at = "store" => Entry(calls[t].tag, Here(t).address)

Whole ==
  /\ DOMAIN symroot = DOMAIN symroot_name
  /\ EntriesLive /\ EntriesApart
  /\ LiveKept /\ LooseLive /\ CarriedOnce
  /\ NamesLead /\ Staged

Inv == Shaped /\ (Clean => Whole)
-----------------------------------------------------------------------------
\* A step of a call of t, by what it leaves in the record of the call
Now(t, at, tag, todo, new) ==
  /\ CallsShape'
  /\ calls'[t].at = at /\ calls'[t].tag = tag /\ calls'[t].todo = todo /\ calls'[t].new = new
  /\ \A u \in Threads : u # t => calls'[u] = calls[u]

LEMMA CallIsNow ==
  ASSUME CallsShape, NEW t \in Threads, NEW c, DOMAIN c = {"at", "tag", "todo", "new"},
         calls' = [calls EXCEPT ![t] = c]
  PROVE  Now(t, c.at, c.tag, c.todo, c.new)
BY DEF CallsShape, Now

LEMMA GotoIsNow ==
  ASSUME CallsShape, NEW t \in Threads, NEW at, Goto(t, at)
  PROVE  Now(t, at, calls[t].tag, calls[t].todo, calls[t].new)
BY DEF CallsShape, Now, Goto

LEMMA CarryIsNow ==
  ASSUME CallsShape, NEW t \in Threads, NEW at, NEW new, NEW todo,
         calls' = [calls EXCEPT ![t].at = at, ![t].new = new, ![t].todo = todo]
  PROVE  Now(t, at, calls[t].tag, todo, new)
BY DEF CallsShape, Now

LEMMA DropIsNow ==
  ASSUME CallsShape, NEW t \in Threads, NEW at, NEW new,
         calls' = [calls EXCEPT ![t].at = at, ![t].new = new]
  PROVE  Now(t, at, calls[t].tag, calls[t].todo, new)
BY DEF CallsShape, Now

LEMMA IdleIsNow ==
  ASSUME CallsShape, NEW t \in Threads, calls' = [calls EXCEPT ![t] = Idle]
  PROVE  Now(t, "idle", 0, << >>, NoInfo)
BY DEF CallsShape, Now, Idle

LEMMA TaggedIsNow ==
  ASSUME CallsShape, NEW t \in Threads, NEW at, NEW tag,
         calls' = [calls EXCEPT ![t] = [Idle EXCEPT !.at = at, !.tag = tag]]
  PROVE  Now(t, at, tag, << >>, NoInfo)
<1> DEFINE c == [Idle EXCEPT !.at = at, !.tag = tag]
<1>1. /\ DOMAIN c = {"at", "tag", "todo", "new"}
      /\ c.at = at /\ c.tag = tag /\ c.todo = << >> /\ c.new = NoInfo
  BY DEF Idle
<1> QED
  BY <1>1, CallIsNow

LEMMA BeginIsNow ==
  ASSUME CallsShape, NEW t \in Threads, NEW at, NEW tag, NEW todo,
         calls' = [calls EXCEPT ![t] = [Idle EXCEPT !.at = at, !.tag = tag, !.todo = todo]]
  PROVE  Now(t, at, tag, todo, NoInfo)
<1> DEFINE c == [Idle EXCEPT !.at = at, !.tag = tag, !.todo = todo]
<1>1. /\ DOMAIN c = {"at", "tag", "todo", "new"}
      /\ c.at = at /\ c.tag = tag /\ c.todo = todo /\ c.new = NoInfo
  BY DEF Idle
<1> QED
  BY <1>1, CallIsNow

\* A step of the handler of t, by where it leaves it
Handles(t, at) ==
  /\ HandlersShape'
  /\ handlers'[t].at = at
  /\ \A u \in Threads : u # t => handlers'[u] = handlers[u]

LEMMA RaisedHandles ==
  ASSUME HandlersShape, NEW t \in Threads, NEW sig,
         handlers' = [handlers EXCEPT ![t] = Raised(sig)]
  PROVE  Handles(t, "test")
<1>1. DOMAIN Raised(sig) = {"at", "sig", "cp", "sel", "left"} /\ Raised(sig).at = "test"
  BY DEF Raised, NoHandler
<1> QED
  BY <1>1 DEF HandlersShape, Handles

LEMMA DoneHandles ==
  ASSUME HandlersShape, NEW t \in Threads,
         handlers' = [handlers EXCEPT ![t] = NoHandler]
  PROVE  Handles(t, "none")
BY DEF HandlersShape, Handles, NoHandler

LEMMA EnterHandles ==
  ASSUME HandlersShape, NEW t \in Threads, NEW at, NEW cp,
         handlers' = [handlers EXCEPT ![t].at = at, ![t].cp = cp]
  PROVE  Handles(t, at)
BY DEF HandlersShape, Handles

LEMMA LookHandles ==
  ASSUME HandlersShape, NEW t \in Threads, NEW at, NEW sel,
         handlers' = [handlers EXCEPT ![t].at = at, ![t].sel = sel]
  PROVE  Handles(t, at)
BY DEF HandlersShape, Handles

LEMMA UseHandles ==
  ASSUME HandlersShape, NEW t \in Threads, NEW at, NEW left, NEW sel,
         handlers' = [handlers EXCEPT ![t].at = at, ![t].left = left, ![t].sel = sel]
  PROVE  Handles(t, at)
BY DEF HandlersShape, Handles

\* What happens to one info
Became(id, state, symbol) ==
  /\ InfosShape'
  /\ infos'[id].state = state /\ infos'[id].symbol = symbol
  /\ \A x \in Infos : x # id => infos'[x] = infos[x]

LEMMA InfoBecame ==
  ASSUME InfosShape, NEW id \in Infos, NEW state, NEW symbol,
         infos' = [infos EXCEPT ![id] = [state |-> state, symbol |-> symbol]]
  PROVE  Became(id, state, symbol)
BY DEF InfosShape, Became

LEMMA InfoFreed ==
  ASSUME InfosShape, NEW id \in Infos, infos' = [infos EXCEPT ![id].state = "freed"]
  PROVE  Became(id, "freed", infos[id].symbol)
BY DEF InfosShape, Became

-----------------------------------------------------------------------------
(* Steps that leave the indexes alone                                      *)

\* A process that has just started
Fresh ==
  /\ infos = Nothing /\ symroot = << >> /\ symroot_name = << >>
  /\ mutex = Unlocked /\ lost = {}
  /\ calls = [t \in Threads |-> Idle] /\ handlers = [t \in Threads |-> NoHandler]

LEMMA FreshInv == Fresh => Inv
<1> SUFFICES ASSUME Fresh
             PROVE  Inv
  OBVIOUS
<1>1. \A t \in Threads : calls[t] = [at |-> "idle", tag |-> 0, todo |-> << >>, new |-> NoInfo]
  BY Zenon DEF Fresh, Idle
<1>2. \A t \in Threads : calls[t].at = "idle"
  BY <1>1
<1>3. CallsShape
  BY <1>1, Zenon DEF Fresh, CallsShape, Idle
<1>4. \A t \in Threads : handlers[t] = [at |-> "none", sig |-> "none", cp |-> NoThread,
                                       sel |-> NoInfo, left |-> -1]
  BY Zenon DEF Fresh, NoHandler
<1>5. HandlersShape
  BY <1>4, Zenon DEF Fresh, HandlersShape, NoHandler
<1>6. \A id \in Infos : infos[id].state = "unused"
  BY DEF Fresh, Nothing
<1>7. InfosShape
  BY Zenon DEF Fresh, Nothing, InfosShape
<1>8. MutexShape
  BY DEF Fresh, Unlocked, MutexShape
<1>9. HoldersOwn
  BY <1>2 DEF HoldersOwn, Holding
<1>10. \A g, a : ~Entry(g, a)
  BY DEF Fresh, Entry
<1>11. \A id : ~Stored(id)
  BY <1>10 DEF Stored
<1>12. \A t \in Threads : \A id : ~Carries(t, id)
  BY <1>2 DEF Carries
<1>13. \A id : ~Loose(id)
  BY <1>12 DEF Loose, Fresh
<1>14. \A id \in Infos : ~Live(id)
  BY <1>6 DEF Live
<1>15. EntriesLive /\ EntriesApart
  BY <1>10 DEF EntriesLive, EntriesApart
<1>16. LiveKept /\ LooseLive
  BY <1>13, <1>14 DEF LiveKept, LooseLive
<1>17. CarriedOnce
  BY <1>12 DEF CarriedOnce
<1>18. NamesLead
  BY DEF Fresh, NamesLead
<1>19. Staged
  BY <1>2 DEF Staged
<1>20. DOMAIN symroot = DOMAIN symroot_name
  BY DEF Fresh
<1> QED
  BY <1>3, <1>5, <1>7, <1>8, <1>9, <1>15, <1>16, <1>17, <1>18, <1>19, <1>20
     DEF Inv, Shaped, Whole

LEMMA ExitInv ==
  ASSUME NEW why, Exit(why)
  PROVE  Inv'
<1>1. Fresh'
  BY DEF Exit, Fresh
<1>2. Fresh' => Inv'
  BY FreshInv, PTL
<1> QED
  BY <1>1, <1>2

\* The indexes and what is on its way to them look as they did.
LEMMA SameView ==
  ASSUME Whole, UNCHANGED <<index, lost>>,
         \A t \in Threads : \A id : Carries(t, id)' <=> Carries(t, id),
         \A g, a : HoleAt(g, a)' <=> HoleAt(g, a),
         Staged'
  PROVE  Whole'
<1> USE DEF index
<1>1. \A g, a : Entry(g, a)' <=> Entry(g, a)
  BY DEF Entry
<1>2. \A id : Stored(id)' <=> Stored(id)
  BY <1>1 DEF Stored
<1>3. \A id : (Live(id)' <=> Live(id)) /\ (Freed(id)' <=> Freed(id))
  BY DEF Live, Freed
<1>4. \A id : Loose(id)' <=> Loose(id)
  BY DEF Loose
<1>5. EntriesLive'
  BY <1>1, <1>3 DEF Whole, EntriesLive
<1>6. EntriesApart'
  BY <1>1 DEF Whole, EntriesApart
<1>7. LiveKept' /\ LooseLive'
  BY <1>2, <1>3, <1>4 DEF Whole, LiveKept, LooseLive
<1>8. CarriedOnce'
  BY DEF Whole, CarriedOnce
<1>9. \A g, name, id : Named(g, name, id) => Named(g, name, id)'
  BY <1>3 DEF Named
<1>10. NamesLead'
  BY <1>9 DEF Whole, NamesLead
<1> QED
  BY <1>5, <1>6, <1>7, <1>8, <1>10 DEF Whole

\* Nothing a signal or another thread could tell apart happens to the calls.
Alike(u) ==
  \/ calls'[u] = calls[u]
  \/ /\ calls[u].at \notin {"lock", "replace", "store"}
     /\ calls'[u].at \notin {"lock", "replace", "store"}
     /\ calls'[u].at \in Holding <=> calls[u].at \in Holding

LEMMA Quiet ==
  ASSUME Inv, CallsShape', HandlersShape', UNCHANGED <<index, mutex, lost>>,
         \A u \in Threads : Alike(u),
         \A u \in Threads : handlers'[u].at = "none" => handlers[u].at = "none"
  PROVE  Inv'
<1>1. Shaped'
  <2>1. HoldersOwn'
    BY DEF Inv, Shaped, HoldersOwn, Alike
  <2>2. InfosShape' /\ MutexShape'
    BY Zenon DEF Inv, Shaped, InfosShape, MutexShape, index
  <2> QED
    BY <2>1, <2>2 DEF Shaped
<1>2. ASSUME Clean'
      PROVE  Whole'
  <2>1. Clean
    BY <1>2, CrashAssumption DEF Clean, Proper, Alike, Inv, Shaped, MutexShape
  <2>2. Whole
    BY <2>1 DEF Inv
  <2>3. \A t \in Threads : \A id : Carries(t, id)' <=> Carries(t, id)
    BY DEF Carries, Alike
  <2>4. \A t \in Threads : calls'[t] = calls[t] => Here(t)' = Here(t)
    BY DEF Here, index
  <2>5. \A g, a : HoleAt(g, a)' <=> HoleAt(g, a)
    BY <2>4 DEF HoleAt, Alike
  <2>6. Staged'
    BY <2>2, <2>4 DEF Whole, Staged, Alike, index, Entry
  <2> QED
    BY <2>2, <2>3, <2>5, <2>6, SameView
<1> QED
  BY <1>1, <1>2 DEF Inv

\* A step that leaves the owner of the mutex in a handler
LEMMA Abandoned ==
  ASSUME Shaped, NEW t \in Threads, mutex.owner = t, handlers'[t].at # "none",
         UNCHANGED <<mutex, calls>>, HandlersShape', InfosShape'
  PROVE  Inv'
<1>1. Shaped'
  BY Zenon DEF Shaped, CallsShape, MutexShape, HoldersOwn
<1>2. ~Clean'
  BY CrashAssumption DEF Clean, Proper
<1> QED
  BY <1>1, <1>2 DEF Inv

\* A step of a call of t that stays out of the indexes
LEMMA QuietCall ==
  ASSUME Inv, NEW t \in Threads, NEW at, NEW tag, NEW todo, NEW new, Now(t, at, tag, todo, new),
         UNCHANGED <<index, mutex, handlers, lost>>,
         calls[t].at \notin {"lock", "replace", "store"}, at \notin {"lock", "replace", "store"},
         at \in Holding <=> calls[t].at \in Holding
  PROVE  Inv'
<1>1. CallsShape' /\ HandlersShape'
  BY Zenon DEF Now, Inv, Shaped, HandlersShape
<1>2. \A u \in Threads : Alike(u)
  BY DEF Now, Alike
<1> QED
  BY <1>1, <1>2, Quiet

\* A step of a handler that stays out of the indexes
LEMMA QuietHandler ==
  ASSUME Inv, NEW t \in Threads, NEW at, Handles(t, at), at # "none",
         UNCHANGED <<index, mutex, calls, lost>>
  PROVE  Inv'
<1>1. CallsShape' /\ HandlersShape'
  BY Zenon DEF Handles, Inv, Shaped, CallsShape
<1>2. \A u \in Threads : Alike(u)
  BY DEF Alike
<1>3. \A u \in Threads : handlers'[u].at = "none" => handlers[u].at = "none"
  BY DEF Handles
<1> QED
  BY <1>1, <1>2, <1>3, Quiet

\* A step that only sets checkpoints or counts
LEMMA Aside ==
  ASSUME Inv, UNCHANGED <<index, mutex, calls, handlers, lost>>
  PROVE  Inv'
<1>1. CallsShape' /\ HandlersShape'
  BY Zenon DEF Inv, Shaped, CallsShape, HandlersShape
<1>2. \A u \in Threads : Alike(u)
  BY DEF Alike
<1> QED
  BY <1>1, <1>2, Quiet

LEMMA InstallStep ==
  ASSUME Inv, tcccrash_install
  PROVE  Inv'
<1>1. /\ calls[Main].at = "idle"
      /\ UNCHANGED <<index, mutex, handlers, lost>>
      /\ Main \in Threads
  BY CrashAssumption DEF tcccrash_install, Idle
<1>2. calls' = [calls EXCEPT ![Main] = [Idle EXCEPT !.at = "next", !.todo = InstallSymbols]]
  BY DEF tcccrash_install
<1>3. Now(Main, "next", 0, InstallSymbols, NoInfo)
  <2> DEFINE c == [Idle EXCEPT !.at = "next", !.todo = InstallSymbols]
  <2>1. /\ DOMAIN c = {"at", "tag", "todo", "new"}
        /\ c.at = "next" /\ c.tag = 0 /\ c.todo = InstallSymbols /\ c.new = NoInfo
    BY DEF Idle
  <2>2. CallsShape
    BY DEF Inv, Shaped
  <2> HIDE DEF c
  <2>3. Now(Main, c.at, c.tag, c.todo, c.new)
    BY <1>1, <1>2, <2>1, <2>2, CallIsNow DEF c
  <2> QED
    BY <2>1, <2>3
<1> QED
  BY <1>1, <1>3, QuietCall DEF Holding

LEMMA ChoiceStep ==
  ASSUME Inv, NEW t \in Threads, Choice(t)
  PROVE  Inv'
<1>0. CallsShape /\ HandlersShape
  BY DEF Inv, Shaped
<1>1. CASE tcccrash_symtcc(t)
  <2>1. PICK g \in Tags, table \in Tables :
          calls' = [calls EXCEPT ![t] = [Idle EXCEPT !.at = "next", !.tag = g, !.todo = table]]
    BY <1>1 DEF tcccrash_symtcc
  <2>2. calls[t].at = "idle" /\ UNCHANGED <<index, mutex, handlers, lost>>
    BY <1>1 DEF tcccrash_symtcc, Ready, Calling
  <2>3. Now(t, "next", g, table, NoInfo)
    BY <1>0, <2>1, BeginIsNow
  <2> QED
    BY <2>2, <2>3, QuietCall DEF Holding
<1>2. CASE tcccrash_deltag(t)
  <2>1. PICK g \in Tags :
          calls' = [calls EXCEPT ![t] = [Idle EXCEPT !.at = "dellock", !.tag = g]]
    BY <1>2 DEF tcccrash_deltag
  <2>3. calls[t].at = "idle" /\ UNCHANGED <<index, mutex, handlers, lost>>
    BY <1>2 DEF tcccrash_deltag, Ready, Calling
  <2>4. Now(t, "dellock", g, << >>, NoInfo)
    BY <1>0, <2>1, TaggedIsNow
  <2> QED
    BY <2>3, <2>4, QuietCall DEF Holding
<1>3. CASE tcccrash_symaddr(t)
  <2>2. calls[t].at = "idle" /\ UNCHANGED <<index, mutex, handlers, lost>>
    BY <1>3 DEF tcccrash_symaddr, Ready, Calling
  <2>3. calls' = [calls EXCEPT ![t] = [Idle EXCEPT !.at = "addrlock"]]
    BY <1>3 DEF tcccrash_symaddr
  <2>4. Now(t, "addrlock", 0, << >>, NoInfo)
    <3> DEFINE c == [Idle EXCEPT !.at = "addrlock"]
    <3>1. /\ DOMAIN c = {"at", "tag", "todo", "new"}
          /\ c.at = "addrlock" /\ c.tag = 0 /\ c.todo = << >> /\ c.new = NoInfo
      BY DEF Idle
    <3> QED
      BY <1>0, <2>3, <3>1, CallIsNow
  <2> QED
    BY <2>2, <2>4, QuietCall DEF Holding
<1>4. CASE \/ tcccrash_checkpoint(t) \/ ReturnFromFrame(t)
           \/ tcccrash_nullifycheckpoint(t) \/ tcccrash_closethread(t)
  BY <1>4, Aside DEF tcccrash_checkpoint, ReturnFromFrame, tcccrash_nullifycheckpoint,
                     tcccrash_closethread
<1>5. CASE Signal(t)
  <2>1. PICK sig \in {"SIGSEGV", "SIGALRM"} : handlers' = [handlers EXCEPT ![t] = Raised(sig)]
    BY <1>5 DEF Signal
  <2>2. UNCHANGED <<index, mutex, calls, lost>>
    BY <1>5 DEF Signal
  <2> QED
    BY <1>0, <2>1, <2>2, RaisedHandles, QuietHandler
<1> QED
  BY <1>1, <1>2, <1>3, <1>4, <1>5 DEF Choice

LEMMA EnterStep ==
  ASSUME Inv, NEW t \in Threads, Enter(t)
  PROVE  Inv'
<1>1. CASE \E why : Exit(why)
  BY <1>1, ExitInv
<1>2. CASE /\ handlers' = [handlers EXCEPT ![t].at = "look", ![t].cp = CheckpointOf(t)]
           /\ UNCHANGED <<index, mutex, calls, lost>>
  BY <1>2, EnterHandles, QuietHandler DEF Inv, Shaped
<1> QED
  BY <1>1, <1>2 DEF Enter

LEMMA LookStep ==
  ASSUME Inv, NEW t \in Threads, Look(t)
  PROVE  Inv'
<1>1. CASE \E why : Exit(why)
  BY <1>1, ExitInv
<1>2. CASE /\ \E sel : handlers' = [handlers EXCEPT ![t].at = "use", ![t].sel = sel]
           /\ UNCHANGED <<index, mutex, calls, lost>>
  BY <1>2, LookHandles, QuietHandler DEF Inv, Shaped
<1> QED
  BY <1>1, <1>2 DEF Look

LEMMA UseStep ==
  ASSUME Inv, NEW t \in Threads, Use(t)
  PROVE  Inv'
<1>1. CASE \E why : Exit(why)
  BY <1>1, ExitInv
<1>2. CASE /\ \E left : handlers' = [handlers EXCEPT ![t].at = IF left = 0 THEN "done" ELSE "look",
                                                  ![t].left = left, ![t].sel = NoInfo]
           /\ UNCHANGED <<index, mutex, calls, lost>>
  <2>1. PICK left :
          handlers' = [handlers EXCEPT ![t].at = IF left = 0 THEN "done" ELSE "look",
                                       ![t].left = left, ![t].sel = NoInfo]
    BY <1>2
  <2>2. Handles(t, IF left = 0 THEN "done" ELSE "look")
    BY <2>1, UseHandles DEF Inv, Shaped
  <2> QED
    BY <1>2, <2>2, QuietHandler
<1> QED
  BY <1>1, <1>2 DEF Use

LEMMA EndTableStep ==
  ASSUME Inv, NEW t \in Threads, EndTable(t)
  PROVE  Inv'
<1>1. /\ calls[t].at = "next" /\ calls' = [calls EXCEPT ![t] = Idle]
      /\ UNCHANGED <<index, mutex, handlers, lost>>
  BY DEF EndTable, Calling
<1>2. Now(t, "idle", 0, << >>, NoInfo)
  BY <1>1, IdleIsNow DEF Inv, Shaped
<1> QED
  BY <1>1, <1>2, QuietCall DEF Holding

LEMMA DeltagRemoveStep ==
  ASSUME Inv, NEW t \in Threads, DeltagRemove(t)
  PROVE  Inv'
<1> DEFINE g == calls[t].tag
<1>0. /\ calls[t].at = "delete" /\ mutex.owner = t
      /\ CallsShape /\ HandlersShape /\ Shaped
  BY DEF DeltagRemove, Calling, Inv, Shaped, HoldersOwn, Holding
<1>1. CASE Goto(t, "delname") /\ UNCHANGED <<index, mutex, handlers, lost>>
  BY <1>0, <1>1, GotoIsNow, QuietCall DEF Holding
<1>2. CASE /\ Aborted(t) /\ UNCHANGED <<mutex, calls>>
           /\ infos' = [id \in Infos |-> IF id \in Range(symroot[g])
                                         THEN [infos[id] EXCEPT !.state = "freed"] ELSE infos[id]]
  <2>1. Handles(t, "test")
    BY <1>0, <1>2, RaisedHandles DEF Aborted
  <2>2. \A id \in Infos : DOMAIN [infos[id] EXCEPT !.state = "freed"] = {"state", "symbol"}
    BY <1>0 DEF Shaped, InfosShape
  <2>3. \A id \in Infos : DOMAIN infos'[id] = {"state", "symbol"}
    BY <1>0, <1>2, <2>2 DEF Shaped, InfosShape
  <2>7. InfosShape'
    BY <1>2, <2>3 DEF InfosShape
  <2> QED
    BY <1>0, <1>2, <2>1, <2>7, Abandoned DEF Handles
<1>3. CASE \E why : Exit(why)
  BY <1>3, ExitInv
<1> QED
  BY <1>1, <1>2, <1>3 DEF DeltagRemove

LEMMA DeltagRemoveNameStep ==
  ASSUME Inv, NEW t \in Threads, DeltagRemoveName(t)
  PROVE  Inv'
<1>0. /\ calls[t].at = "delname" /\ mutex.owner = t
      /\ CallsShape /\ HandlersShape /\ Shaped
  BY DEF DeltagRemoveName, Calling, Inv, Shaped, HoldersOwn, Holding
<1>1. CASE Goto(t, "unlock") /\ UNCHANGED <<index, mutex, handlers, lost>>
  BY <1>0, <1>1, GotoIsNow, QuietCall DEF Holding
<1>2. CASE Aborted(t) /\ UNCHANGED <<mutex, calls, infos>>
  <2>1. Handles(t, "test")
    BY <1>0, <1>2, RaisedHandles DEF Aborted
  <2>2. InfosShape'
    BY <1>0, <1>2, Zenon DEF Shaped, InfosShape
  <2> QED
    BY <1>0, <1>2, <2>1, <2>2, Abandoned DEF Handles
<1>3. CASE \E why : Exit(why)
  BY <1>3, ExitInv
<1> QED
  BY <1>1, <1>2, <1>3 DEF DeltagRemoveName

-----------------------------------------------------------------------------
(* Taking the mutex and giving it back                                     *)

LEMMA LockTaken ==
  ASSUME Inv, NEW t \in Threads, OGLockMutex(t), calls[t].at \notin Holding,
         NEW at, NEW tag, NEW todo, NEW new, Now(t, at, tag, todo, new),
         UNCHANGED handlers
  PROVE  /\ CallsShape' /\ HandlersShape' /\ MutexShape' /\ HoldersOwn'
         /\ \A u \in Threads : calls[u].at \notin Holding
         /\ Clean' => Clean
<1>0. MutexShape /\ HoldersOwn /\ HandlersShape
  BY DEF Inv, Shaped
<1>1. CallsShape' /\ HandlersShape'
  BY <1>0, Zenon DEF Now, HandlersShape
<1>2. \A u \in Threads : calls[u].at \notin Holding
  BY <1>0, CrashAssumption DEF HoldersOwn, OGLockMutex, CanLock
<1>3. mutex'.owner = t /\ mutex'.count = mutex.count + 1
  BY DEF OGLockMutex
<1>4. MutexShape'
  BY <1>0, <1>3, CrashAssumption DEF MutexShape
<1>5. HoldersOwn'
  BY <1>2, <1>3 DEF HoldersOwn, Now
<1>6. ASSUME Clean'
      PROVE  Clean
  <2>1. mutex'.count = 1
    BY <1>3, <1>6, CrashAssumption DEF Clean, Proper
  <2> QED
    BY <1>0, <1>3, <2>1 DEF MutexShape, Clean
<1> QED
  BY <1>1, <1>2, <1>4, <1>5, <1>6

\* The start of a look-up by name, and of forgetting a tag
LEMMA LockOnly ==
  ASSUME Inv, NEW t \in Threads, OGLockMutex(t),
         calls[t].at \in {"dellock", "addrlock"}, NEW at \in {"delete", "found"},
         NEW tag, NEW todo, NEW new, Now(t, at, tag, todo, new),
         UNCHANGED <<index, handlers, lost>>
  PROVE  Inv'
<1>1. Now(t, at, tag, todo, new)
  OBVIOUS
<1>2. calls[t].at \notin Holding
  BY DEF Holding
<1>3. /\ CallsShape' /\ HandlersShape' /\ MutexShape' /\ HoldersOwn'
      /\ \A u \in Threads : calls[u].at \notin Holding
      /\ Clean' => Clean
  BY <1>1, <1>2, LockTaken
<1>4. InfosShape'
  BY Zenon DEF Inv, Shaped, InfosShape, index
<1>5. ASSUME Clean'
      PROVE  Whole'
  <2>1. Whole
    BY <1>3, <1>5 DEF Inv
  <2>2. \A u \in Threads : \A id : Carries(u, id)' <=> Carries(u, id)
    BY <1>1 DEF Carries, Now
  <2>3. \A u \in Threads : calls[u].at # "store" /\ calls'[u].at # "store" /\ calls'[u].at # "replace"
    BY <1>1, <1>3 DEF Now, Holding
  <2>4. \A g, a : HoleAt(g, a)' <=> HoleAt(g, a)
    BY <2>3 DEF HoleAt
  <2>5. Staged'
    BY <2>3 DEF Staged
  <2> QED
    BY <2>1, <2>2, <2>4, <2>5, SameView
<1> QED
  BY <1>3, <1>4, <1>5 DEF Inv, Shaped

\* The end of a call that had the mutex
LEMMA Released ==
  ASSUME Inv, NEW t \in Threads, OGUnlockMutex(t), calls[t].at \in {"unlock", "found"},
         handlers[t].at = "none", NEW at \in {"next", "idle", "read"},
         NEW tag, NEW todo, NEW new, Now(t, at, tag, todo, new),
         UNCHANGED <<index, handlers, lost>>
  PROVE  Inv'
<1>0. /\ MutexShape /\ HoldersOwn /\ CallsShape /\ HandlersShape /\ InfosShape
      /\ mutex.owner = t
  BY DEF Inv, Shaped, HoldersOwn, Holding
<1>1. Now(t, at, tag, todo, new)
  OBVIOUS
<1>2. /\ mutex'.owner = IF mutex.count = 1 THEN NoThread ELSE t
      /\ mutex'.count = mutex.count - 1
  BY DEF OGUnlockMutex
<1>3. MutexShape'
  BY <1>0, <1>2, CrashAssumption DEF MutexShape
<1>4. \A u \in Threads : calls'[u].at \notin Holding
  BY <1>0, <1>1 DEF HoldersOwn, Now, Holding
<1>5. CallsShape' /\ HandlersShape' /\ InfosShape' /\ HoldersOwn'
  BY <1>0, <1>1, <1>4, Zenon DEF Now, HandlersShape, InfosShape, index, HoldersOwn
<1>6. ASSUME Clean'
      PROVE  Whole'
  <2>1. mutex.count = 1
    BY <1>0, <1>2, <1>4, <1>6, CrashAssumption DEF Clean, Proper
  <2>2. Clean
    BY <1>0, <2>1 DEF Clean, Proper, Holding
  <2>3. Whole
    BY <2>2 DEF Inv
  <2>4. \A u \in Threads : calls[u].at # "store" /\ calls[u].at # "replace"
    BY <1>0 DEF HoldersOwn, Holding
  <2>5. \A u \in Threads : \A id : Carries(u, id)' <=> Carries(u, id)
    BY <1>0, <1>1 DEF Carries, Now
  <2>6. \A g, a : HoleAt(g, a)' <=> HoleAt(g, a)
    BY <1>4, <2>4 DEF HoleAt, Holding
  <2>7. Staged'
    BY <1>4 DEF Staged, Holding
  <2> QED
    BY <1>0, <2>3, <2>5, <2>6, <2>7, SameView
<1> QED
  BY <1>3, <1>5, <1>6 DEF Inv, Shaped

LEMMA UnlockStep ==
  ASSUME Inv, NEW t \in Threads, CallUnlock(t)
  PROVE  Inv'
<1>1. /\ calls[t].at = "unlock" /\ handlers[t].at = "none" /\ OGUnlockMutex(t)
      /\ UNCHANGED <<index, handlers, lost>>
  BY DEF CallUnlock, Calling
<1>2. Now(t, "next", calls[t].tag, calls[t].todo, NoInfo)
  BY DropIsNow DEF CallUnlock, Inv, Shaped
<1> QED
  BY <1>1, <1>2, Released

LEMMA SymaddrLockStep ==
  ASSUME Inv, NEW t \in Threads, SymaddrLock(t)
  PROVE  Inv'
<1>1. calls[t].at = "addrlock" /\ OGLockMutex(t) /\ UNCHANGED <<index, handlers, lost>>
  BY DEF SymaddrLock, Calling
<1>2. PICK found : calls' = [calls EXCEPT ![t].at = "found", ![t].new = found]
  BY DEF SymaddrLock
<1>3. Now(t, "found", calls[t].tag, calls[t].todo, found)
  BY <1>2, DropIsNow DEF Inv, Shaped
<1> QED
  BY <1>1, <1>3, LockOnly

\* Where a look-up by name goes once it has unlocked
SymaddrGoes(t) ==
  \/ Now(t, "idle", 0, << >>, NoInfo)
  \/ Now(t, "read", calls[t].tag, calls[t].todo, calls[t].new)

LEMMA SymaddrUnlockGoes ==
  ASSUME CallsShape, NEW t \in Threads, SymaddrUnlock(t)
  PROVE  SymaddrGoes(t)
<1>1. CASE calls' = [calls EXCEPT ![t] = Idle]
  BY <1>1, IdleIsNow DEF SymaddrGoes
<1>2. CASE calls' = [calls EXCEPT ![t].at = "read"]
  BY <1>2, GotoIsNow DEF SymaddrGoes, Goto
<1> QED
  BY <1>1, <1>2 DEF SymaddrUnlock

LEMMA SymaddrUnlockStep ==
  ASSUME Inv, NEW t \in Threads, SymaddrUnlock(t)
  PROVE  Inv'
<1>1. /\ calls[t].at = "found" /\ handlers[t].at = "none" /\ OGUnlockMutex(t)
      /\ UNCHANGED <<index, handlers, lost>>
  BY DEF SymaddrUnlock, Calling
<1>2. SymaddrGoes(t)
  BY SymaddrUnlockGoes DEF Inv, Shaped
<1> QED
  BY <1>1, <1>2, Released DEF SymaddrGoes

LEMMA SymaddrReadStep ==
  ASSUME Inv, NEW t \in Threads, SymaddrRead(t)
  PROVE  Inv'
<1>1. calls[t].at = "read" /\ UNCHANGED <<index, mutex, lost>>
  BY DEF SymaddrRead, Calling
<1>2. CASE calls' = [calls EXCEPT ![t] = Idle] /\ UNCHANGED handlers
  <2>1. Now(t, "idle", 0, << >>, NoInfo)
    BY <1>2, IdleIsNow DEF Inv, Shaped
  <2> QED
    BY <1>1, <1>2, <2>1, QuietCall DEF Holding
<1>3. CASE handlers' = [handlers EXCEPT ![t] = Raised("SIGSEGV")] /\ UNCHANGED calls
  <2>1. Handles(t, "test")
    BY <1>3, RaisedHandles DEF Inv, Shaped
  <2> QED
    BY <1>1, <1>3, <2>1, QuietHandler
<1> QED
  BY <1>2, <1>3 DEF SymaddrRead

LEMMA FinishStep ==
  ASSUME Inv, NEW t \in Threads, Finish(t)
  PROVE  Inv'
<1>1. CASE \E why : Exit(why)
  BY <1>1, ExitInv
<1>2. CASE /\ calls' = [calls EXCEPT ![t] = Idle]
           /\ handlers' = [handlers EXCEPT ![t] = NoHandler]
           /\ lost' = lost \cup Carried(t)
           /\ UNCHANGED <<index, mutex>>
  <2>0. Shaped /\ index' = index /\ mutex' = mutex
    BY <1>2 DEF Inv
  <2>1. Now(t, "idle", 0, << >>, NoInfo) /\ Handles(t, "none")
    BY <1>2, IdleIsNow, DoneHandles DEF Inv, Shaped
  <2>2. HoldersOwn'
    BY <2>0, <2>1 DEF Shaped, HoldersOwn, Now, Holding
  <2>3. CallsShape' /\ HandlersShape' /\ InfosShape' /\ MutexShape'
    BY <2>0, <2>1, Zenon DEF Now, Handles, Shaped, InfosShape, MutexShape, index
  <2>4. ASSUME Clean'
        PROVE  Whole'
    <3>1. mutex.owner # t
      BY <2>0, <2>1, <2>4, CrashAssumption DEF Clean, Proper, Now, Holding
    <3>2. Clean
      BY <2>0, <2>1, <2>4, <3>1, CrashAssumption DEF Clean, Proper, Now, Handles, Shaped, MutexShape
    <3>3. Whole
      BY <3>2 DEF Inv
    <3>4. calls[t].at \notin Holding
      BY <2>0, <3>1 DEF Shaped, HoldersOwn
    <3>5. \A u \in Threads : \A id : Carries(u, id)' <=> u # t /\ Carries(u, id)
      BY <2>1 DEF Carries, Now
    <3>6. \A id : id \in Carried(t) <=> Carries(t, id)
      BY DEF Carried, Carries
    <3>7. \A id : Loose(id)' <=> Loose(id)
      BY <1>2, <3>5, <3>6 DEF Loose
    <3>8. \A u \in Threads : u # t => Here(u)' = Here(u)
      BY <2>0, <2>1 DEF Here, Now, index
    <3>9. \A g, a : HoleAt(g, a)' <=> HoleAt(g, a)
      BY <2>1, <3>4, <3>8 DEF HoleAt, Now, Holding
    <3>10. Staged'
      BY <2>0, <2>1, <3>3, <3>8 DEF Whole, Staged, Now, Entry, index
    <3>11. CarriedOnce'
      BY <1>2, <3>3, <3>5, <3>6 DEF Whole, CarriedOnce
    <3>12. \A g, a : Entry(g, a)' <=> Entry(g, a)
      BY <2>0 DEF Entry, index
    <3>13. \A id : Stored(id)' <=> Stored(id)
      BY <2>0, <3>12 DEF Stored, index
    <3>14. \A id : (Live(id)' <=> Live(id)) /\ (Freed(id)' <=> Freed(id))
      BY <2>0 DEF Live, Freed, index
    <3>15. EntriesLive'
      BY <2>0, <3>3, <3>9, <3>12, <3>14 DEF Whole, EntriesLive, index
    <3>16. EntriesApart'
      BY <2>0, <3>3, <3>12 DEF Whole, EntriesApart, index
    <3>17. LiveKept' /\ LooseLive'
      BY <3>3, <3>7, <3>13, <3>14 DEF Whole, LiveKept, LooseLive
    <3>18. \A g, name, id : Named(g, name, id) => Named(g, name, id)'
      BY <2>0, <3>9, <3>14 DEF Named, index
    <3>19. NamesLead'
      BY <2>0, <3>3, <3>18 DEF Whole, NamesLead, index
    <3>20. (DOMAIN symroot = DOMAIN symroot_name)'
      BY <2>0, <3>3 DEF Whole, index
    <3> QED
      BY <3>10, <3>11, <3>15, <3>16, <3>17, <3>19, <3>20 DEF Whole
  <2> QED
    BY <2>2, <2>3, <2>4 DEF Inv, Shaped
<1> QED
  BY <1>1, <1>2 DEF Finish

-----------------------------------------------------------------------------
(* Steps that change the indexes                                           *)

LEMMA DupsymStep ==
  ASSUME Inv, NEW t \in Threads, dupsym(t)
  PROVE  Inv'
<1> DEFINE id == CHOOSE x \in Unused : TRUE
<1>0. /\ Shaped /\ calls[t].at = "next"
      /\ UNCHANGED <<symroot, symroot_name, mutex, handlers, lost>>
  BY DEF Inv, dupsym, Calling
<1>1. id \in Infos /\ infos[id].state = "unused"
  BY DEF dupsym, Unused
<1>2. Became(id, "live", Head(calls[t].todo))
  BY <1>0, <1>1, InfoBecame DEF dupsym, Shaped
<1>3. Now(t, "lock", calls[t].tag, Tail(calls[t].todo), id)
  BY <1>0, CarryIsNow DEF dupsym, Shaped
<1> HIDE DEF id
<1>4. Shaped'
  <2>1. HoldersOwn'
    BY <1>0, <1>3 DEF Shaped, HoldersOwn, Now, Holding
  <2>2. HandlersShape' /\ MutexShape'
    BY <1>0 DEF Shaped, HandlersShape, MutexShape
  <2> QED
    BY <1>2, <1>3, <2>1, <2>2 DEF Shaped, Now, Became
<1>5. ASSUME Clean'
      PROVE  Whole'
  <2>1. Whole
    BY <1>0, <1>3, <1>5 DEF Inv, Clean, Proper, Shaped, MutexShape, Now, Holding
  <2>2. \A x : Live(x)' <=> Live(x) \/ x = id
    BY <1>1, <1>2 DEF Became, Live
  <2>3. \A x : Freed(x)' <=> Freed(x)
    BY <1>1, <1>2 DEF Became, Freed
  <2>4. \A g, a : Entry(g, a)' <=> Entry(g, a)
    BY <1>0 DEF Entry
  <2>5. \A x : Stored(x)' <=> Stored(x)
    BY <1>0, <2>4 DEF Stored
  <2>6. ~Live(id) /\ ~Freed(id)
    BY <1>1 DEF Live, Freed
  <2>7. \A g, a : Entry(g, a) => symroot[g][a] # id
    BY <1>1, <2>1, <2>6, CrashAssumption DEF Whole, EntriesLive
  <2>8. ~Stored(id)
    BY <2>7 DEF Stored
  <2>9. ~Loose(id)
    BY <2>1, <2>6 DEF Whole, LooseLive
  <2>10. \A u \in Threads : \A x : Carries(u, x)' <=> (u = t /\ x = id) \/ (u # t /\ Carries(u, x))
    BY <1>3 DEF Carries, Now
  <2>11. \A x : ~Carries(t, x)
    BY <1>0 DEF Carries
  <2>12. \A x : Loose(x)' <=> Loose(x) \/ x = id
    BY <1>0, <2>10, <2>11 DEF Loose
  <2>13. \A u \in Threads : calls[u].at = "store" => calls'[u] = calls[u] /\ Here(u)' = Here(u)
    <3> SUFFICES ASSUME NEW u \in Threads, calls[u].at = "store"
                 PROVE  calls'[u] = calls[u] /\ Here(u)' = Here(u)
      OBVIOUS
    <3>1. calls'[u] = calls[u]
      BY <1>0, <1>3 DEF Now
    <3>2. Carries(u, calls[u].new)
      BY DEF Carries
    <3>3. calls[u].new \in Infos /\ calls[u].new # id
      BY <2>1, <2>9, <3>2 DEF Loose, Whole, LooseLive, Live
    <3> QED
      BY <1>2, <3>1, <3>3 DEF Here, Became
  <2>14. \A u \in Threads : calls'[u].at \in {"store", "replace"} => calls'[u] = calls[u]
    BY <1>3 DEF Now
  <2>15. \A g, a : HoleAt(g, a)' <=> HoleAt(g, a)
    BY <2>13, <2>14 DEF HoleAt
  <2>16. EntriesLive'
    <3>1. \A g, a : Entry(g, a) /\ symroot[g][a] \in Infos =>
            infos'[symroot[g][a]] = infos[symroot[g][a]]
      BY <1>2, <2>7 DEF Became
    <3> QED
      BY <1>0, <2>1, <2>2, <2>3, <2>4, <2>15, <3>1 DEF Whole, EntriesLive, Live
  <2>17. EntriesApart'
    BY <1>0, <2>1, <2>4 DEF Whole, EntriesApart
  <2>18. LiveKept'
    BY <2>1, <2>2, <2>5, <2>12 DEF Whole, LiveKept
  <2>19. LooseLive'
    BY <2>1, <2>2, <2>5, <2>8, <2>12 DEF Whole, LooseLive
  <2>20. CarriedOnce'
    <3>1. id \notin lost /\ \A u \in Threads : ~Carries(u, id)
      BY <2>9 DEF Loose
    <3> QED
      BY <1>0, <2>1, <2>10, <3>1 DEF Whole, CarriedOnce
  <2>21. \A g, name, x : g \in DOMAIN symroot /\ Named(g, name, x) => Named(g, name, x)'
    <3> SUFFICES ASSUME NEW g \in DOMAIN symroot, NEW name, NEW x, Named(g, name, x)
                 PROVE  Named(g, name, x)'
      OBVIOUS
    <3> DEFINE a == infos[x].symbol.address
    <3>1. x \in Infos /\ x # id
      BY <1>1 DEF Named
    <3>2. infos'[x] = infos[x]
      BY <1>2, <3>1 DEF Became
    <3>3. a \in DOMAIN symroot[g]
      BY DEF Named
    <3>4. Entry(g, a)
      BY <3>3 DEF Entry
    <3>5. HoleAt(g, a) \/ infos'[symroot[g][a]] = infos[symroot[g][a]]
      BY <1>2, <2>1, <2>7, <3>4 DEF Became, Whole, EntriesLive, Live
    <3> QED
      BY <1>0, <2>3, <2>15, <3>2, <3>5 DEF Named
  <2>22. NamesLead'
    BY <1>0, <2>1, <2>21 DEF Whole, NamesLead
  <2>23. Staged'
    BY <1>0, <2>1, <2>4, <2>13, <2>14 DEF Whole, Staged
  <2>24. (DOMAIN symroot = DOMAIN symroot_name)'
    BY <1>0, <2>1 DEF Whole
  <2> QED
    BY <2>16, <2>17, <2>18, <2>19, <2>20, <2>22, <2>23, <2>24 DEF Whole
<1> QED
  BY <1>4, <1>5 DEF Inv

LEMMA OpenStep ==
  ASSUME Inv, NEW t \in Threads, SymsetOpen(t)
  PROVE  Inv'
<1> DEFINE tag == calls[t].tag
<1>0. /\ calls[t].at = "lock" /\ OGLockMutex(t) /\ Goto(t, "replace")
      /\ UNCHANGED <<infos, handlers, lost>>
  BY DEF SymsetOpen, Calling
<1>1. Now(t, "replace", calls[t].tag, calls[t].todo, calls[t].new)
  BY <1>0, GotoIsNow DEF Inv, Shaped
<1>2. /\ CallsShape' /\ HandlersShape' /\ MutexShape' /\ HoldersOwn'
      /\ \A u \in Threads : calls[u].at \notin Holding
      /\ Clean' => Clean
  BY <1>0, <1>1, LockTaken DEF Holding
<1>3. InfosShape'
  BY <1>0 DEF Inv, Shaped, InfosShape
<1>4. ASSUME Clean'
      PROVE  Whole'
  <2>1. Whole
    BY <1>2, <1>4 DEF Inv
  <2>2. /\ DOMAIN symroot' = DOMAIN symroot \cup {tag}
        /\ DOMAIN symroot_name' = DOMAIN symroot \cup {tag}
        /\ \A g \in DOMAIN symroot : symroot'[g] = symroot[g]
        /\ \A g \in DOMAIN symroot : symroot_name'[g] = symroot_name[g]
        /\ tag \notin DOMAIN symroot => symroot'[tag] = << >> /\ symroot_name'[tag] = << >>
    <3>1. CASE tag \in DOMAIN symroot
      BY <2>1, <3>1 DEF SymsetOpen, Whole
    <3>2. CASE tag \notin DOMAIN symroot
      BY <2>1, <3>2 DEF SymsetOpen, Whole, Put
    <3> QED
      BY <3>1, <3>2
  <2>3. \A g, a : Entry(g, a)' <=> Entry(g, a)
    BY <2>2 DEF Entry
  <2>4. \A g, a : Entry(g, a) => symroot'[g][a] = symroot[g][a]
    BY <2>2 DEF Entry
  <2>5. \A x : Stored(x)' <=> Stored(x)
    BY <2>3, <2>4 DEF Stored
  <2>6. \A x : (Live(x)' <=> Live(x)) /\ (Freed(x)' <=> Freed(x))
    BY <1>0 DEF Live, Freed
  <2>7. \A u \in Threads : \A x : Carries(u, x)' <=> Carries(u, x)
    BY <1>0, <1>1 DEF Carries, Now
  <2>8. \A x : Loose(x)' <=> Loose(x)
    BY <1>0, <2>7 DEF Loose
  <2>9. \A u \in Threads : calls[u].at # "store" /\ calls'[u].at # "store"
    BY <1>1, <1>2 DEF Now, Holding
  <2>10. \A g, a : HoleAt(g, a)' <=> HoleAt(g, a)
    BY <2>9 DEF HoleAt
  <2>11. Staged'
    BY <1>1, <1>2, <2>2, <2>9 DEF Staged, Now, Holding
  <2>12. EntriesLive'
    BY <1>0, <2>1, <2>3, <2>4, <2>6, <2>10 DEF Whole, EntriesLive
  <2>13. EntriesApart'
    BY <2>1, <2>3, <2>4 DEF Whole, EntriesApart
  <2>14. LiveKept' /\ LooseLive'
    BY <2>1, <2>5, <2>6, <2>8 DEF Whole, LiveKept, LooseLive
  <2>15. CarriedOnce'
    BY <1>0, <2>1, <2>7 DEF Whole, CarriedOnce
  <2>16. \A g, name, x : g \in DOMAIN symroot /\ Named(g, name, x) => Named(g, name, x)'
    BY <1>0, <2>2, <2>6, <2>10 DEF Named
  <2>17. NamesLead'
    BY <2>1, <2>2, <2>16 DEF Whole, NamesLead
  <2> QED
    BY <2>2, <2>11, <2>12, <2>13, <2>14, <2>15, <2>17 DEF Whole
<1> QED
  BY <1>2, <1>3, <1>4 DEF Inv, Shaped

\* A step of a call that has the mutex on to another that needs it
LEMMA Onward ==
  ASSUME Inv, NEW t \in Threads, calls[t].at \in Holding,
         NEW at \in Holding, Goto(t, at), UNCHANGED <<mutex, handlers>>
  PROVE  /\ Now(t, at, calls[t].tag, calls[t].todo, calls[t].new)
         /\ CallsShape' /\ HandlersShape' /\ MutexShape' /\ HoldersOwn'
         /\ \A u \in Threads : calls[u].at \in Holding => u = t
         /\ Clean' => Clean
<1>0. Shaped
  BY DEF Inv
<1>1. Now(t, at, calls[t].tag, calls[t].todo, calls[t].new)
  BY GotoIsNow DEF Inv, Shaped
<1>2. mutex.owner = t
  BY <1>0 DEF Shaped, HoldersOwn
<1>3. \A u \in Threads : calls[u].at \in Holding => u = t
  BY <1>0, <1>2 DEF Shaped, HoldersOwn
<1>4. HoldersOwn'
  BY <1>1, <1>2, <1>3 DEF HoldersOwn, Now
<1>5. Clean' => Clean
  BY <1>1, <1>2 DEF Clean, Proper
<1>6. CallsShape' /\ HandlersShape' /\ MutexShape'
  BY <1>0, <1>1 DEF Now, Shaped, HandlersShape, MutexShape
<1> QED
  BY <1>1, <1>3, <1>4, <1>5, <1>6

\* What the entry of an address is after the first half of its replacement
Emptied(g, a) ==
  /\ DOMAIN symroot' = DOMAIN symroot
  /\ \A h, b : Entry(h, b)' <=> Entry(h, b) \/ (h = g /\ b = a)
  /\ \A h, b : Entry(h, b) => symroot'[h][b] = symroot[h][b]
  /\ ~Entry(g, a) => symroot'[g][a] = NoInfo
  /\ InfosShape'
  /\ \A x \in Infos :
       /\ infos'[x].symbol = infos[x].symbol
       /\ IF Entry(g, a) /\ x = symroot[g][a] THEN infos'[x].state = "freed"
          ELSE infos'[x].state = infos[x].state

LEMMA ReplaceEmpties ==
  ASSUME Inv, Whole, NEW t \in Threads, SymsetReplace(t),
         \A g, a : ~HoleAt(g, a)
  PROVE  Emptied(calls[t].tag, Here(t).address)
<1> DEFINE g == calls[t].tag
           a == Here(t).address
           cs == IF a \in DOMAIN symroot[g] THEN symroot[g][a] ELSE NoInfo
<1>1. g \in DOMAIN symroot
  BY DEF Whole, Staged, SymsetReplace, Calling
<1>2. InfosShape
  BY DEF Inv, Shaped
<1>3. \/ cs = NoInfo /\ symroot' = [symroot EXCEPT ![g] = Put(@, a, NoInfo)] /\ infos' = infos
      \/ cs # NoInfo /\ infos' = [infos EXCEPT ![cs].state = "freed"] /\ symroot' = symroot
  BY DEF SymsetReplace
<1>4. Entry(g, a) => symroot[g][a] \in Infos
  BY DEF Whole, EntriesLive, Live
<1> HIDE DEF g, a
<1>5. CASE cs = NoInfo
  <2>1. ~Entry(g, a) /\ a \notin DOMAIN symroot[g]
    BY <1>1, <1>4, <1>5, CrashAssumption DEF Entry
  <2>2. symroot' = [symroot EXCEPT ![g] = Put(@, a, NoInfo)] /\ infos' = infos
    BY <1>3, <1>5
  <2>3. /\ DOMAIN symroot' = DOMAIN symroot
        /\ symroot'[g] = Put(symroot[g], a, NoInfo)
        /\ \A h \in DOMAIN symroot : h # g => symroot'[h] = symroot[h]
    BY <1>1, <2>2
  <2>4. /\ DOMAIN symroot'[g] = DOMAIN symroot[g] \cup {a}
        /\ symroot'[g][a] = NoInfo
        /\ \A b \in DOMAIN symroot[g] : symroot'[g][b] = symroot[g][b]
    BY <2>1, <2>3 DEF Put
  <2>5. \A h, b : Entry(h, b)' <=> Entry(h, b) \/ (h = g /\ b = a)
    BY <1>1, <2>3, <2>4 DEF Entry
  <2>6. \A h, b : Entry(h, b) => symroot'[h][b] = symroot[h][b]
    BY <2>3, <2>4 DEF Entry
  <2> QED
    BY <1>2, <2>1, <2>2, <2>3, <2>4, <2>5, <2>6 DEF Emptied, InfosShape, g, a
<1>6. CASE cs # NoInfo
  <2>1. Entry(g, a) /\ cs = symroot[g][a]
    BY <1>1, <1>6 DEF Entry
  <2>2. infos' = [infos EXCEPT ![cs].state = "freed"] /\ symroot' = symroot
    BY <1>3, <1>6
  <2>3. Became(cs, "freed", infos[cs].symbol)
    BY <1>2, <1>4, <2>1, <2>2, InfoFreed
  <2>4. \A h, b : Entry(h, b)' <=> Entry(h, b)
    BY <2>2 DEF Entry
  <2> HIDE DEF cs
  <2> QED
    BY <2>1, <2>2, <2>3, <2>4 DEF Emptied, Became, g, a
<1> QED
  BY <1>5, <1>6

LEMMA ReplaceStep ==
  ASSUME Inv, NEW t \in Threads, SymsetReplace(t)
  PROVE  Inv'
<1>a. PICK g : g = calls[t].tag
  OBVIOUS
<1>b. PICK a : a = Here(t).address
  OBVIOUS
<1>0. /\ calls[t].at = "replace" /\ Goto(t, "store")
      /\ UNCHANGED <<symroot_name, mutex, handlers, lost>>
  BY DEF SymsetReplace, Calling
<1>1. /\ Now(t, "store", g, calls[t].todo, calls[t].new)
      /\ CallsShape' /\ HandlersShape' /\ MutexShape' /\ HoldersOwn'
      /\ \A u \in Threads : calls[u].at \in Holding => u = t
      /\ Clean' => Clean
  BY <1>0, <1>a, Onward DEF Holding
<1>2. InfosShape'
  <2>1. InfosShape
    BY DEF Inv, Shaped
  <2>2. CASE infos' = infos
    BY <2>1, <2>2 DEF InfosShape
  <2>3. CASE \E cs : infos' = [infos EXCEPT ![cs].state = "freed"]
    <3>1. PICK cs : infos' = [infos EXCEPT ![cs].state = "freed"]
      BY <2>3
    <3> QED
      BY <2>1, <3>1 DEF InfosShape
  <2> QED
    BY <2>2, <2>3 DEF SymsetReplace
<1>3. ASSUME Clean'
      PROVE  Whole'
  <2>1. Whole
    BY <1>1, <1>3 DEF Inv
  <2>2. \A h, b : ~HoleAt(h, b)
    BY <1>0, <1>1 DEF HoleAt, Holding
  <2>3. Emptied(g, a)
    BY <1>a, <1>b, <2>1, <2>2, ReplaceEmpties
  <2>4. g \in DOMAIN symroot
    BY <1>0, <1>a, <2>1 DEF Whole, Staged
  <2>5. \A u \in Threads : \A x : Carries(u, x)' <=> Carries(u, x)
    BY <1>0, <1>1 DEF Carries, Now
  <2>6. \A x : Loose(x)' <=> Loose(x)
    BY <1>0, <2>5 DEF Loose
  <2>7. Live(calls[t].new)
    BY <1>0, <2>1 DEF Carries, Loose, Whole, LooseLive
  <2>8. Here(t)' = Here(t)
    BY <1>1, <2>3, <2>7 DEF Here, Now, Emptied, Live
  <2>9. (Here(t).address)' = a
    BY <1>b, <2>8
  <2>10. \A h, b : HoleAt(h, b)' <=> h = g /\ b = a
    BY <1>1, <1>0, <2>9 DEF HoleAt, Now, Holding
  <2>11. Entry(g, a) => Live(symroot[g][a])
    BY <2>1, <2>2 DEF Whole, EntriesLive
  <2>12. \A x : Freed(x)' <=> Freed(x) \/ (Entry(g, a) /\ x = symroot[g][a])
    BY <2>3, <2>11 DEF Freed, Emptied, Live
  <2>13. \A x : Live(x)' <=> Live(x) /\ ~(Entry(g, a) /\ x = symroot[g][a])
    BY <2>3, <2>11 DEF Emptied, Live
  <2>14. \A h, b : Entry(h, b)' => Entry(h, b) \/ (h = g /\ b = a /\ symroot'[h][b] = NoInfo)
    BY <2>3 DEF Emptied
  <2>15. \A h, b : Entry(h, b) => Entry(h, b)' /\ symroot'[h][b] = symroot[h][b]
    BY <2>3 DEF Emptied
  <2>16. EntriesLive'
    <3> SUFFICES ASSUME NEW h, NEW b, Entry(h, b)'
                 PROVE  IF h = g /\ b = a THEN symroot'[h][b] = NoInfo \/ Freed(symroot[h][b])'
                        ELSE Live(symroot[h][b])' /\ infos'[symroot'[h][b]].symbol.address = b
      BY <2>10 DEF EntriesLive
    <3>1. CASE h = g /\ b = a
      BY <2>12, <2>14, <2>15, <3>1
    <3>2. CASE ~(h = g /\ b = a)
      <4>1. Entry(h, b) /\ symroot'[h][b] = symroot[h][b]
        BY <2>14, <2>15, <3>2
      <4>2. Live(symroot[h][b]) /\ infos[symroot[h][b]].symbol.address = b
        BY <2>1, <2>2, <4>1 DEF Whole, EntriesLive
      <4>3. ~(Entry(g, a) /\ symroot[h][b] = symroot[g][a])
        BY <2>1, <3>2, <4>1 DEF Whole, EntriesApart
      <4>4. infos'[symroot[h][b]].symbol = infos[symroot[h][b]].symbol
        BY <2>3, <4>2 DEF Emptied, Live
      <4> QED
        BY <2>13, <3>2, <4>1, <4>2, <4>3, <4>4
    <3> QED
      BY <3>1, <3>2
  <2>17. \A h, b : Entry(h, b) => symroot[h][b] # NoInfo
    BY <2>1, <2>2, CrashAssumption DEF Whole, EntriesLive, Live
  <2>18. EntriesApart'
    BY <2>1, <2>14, <2>15, <2>17 DEF Whole, EntriesApart
  <2>19. \A x \in Infos : Stored(x)' <=> Stored(x)
    BY <2>14, <2>15, CrashAssumption DEF Stored
  <2>20. LiveKept'
    BY <2>1, <2>6, <2>13, <2>19 DEF Whole, LiveKept
  <2>21. LooseLive'
    <3> SUFFICES ASSUME NEW x, Loose(x)
                 PROVE  Live(x)' /\ ~Stored(x)'
      BY <2>6 DEF LooseLive
    <3>1. Live(x) /\ ~Stored(x)
      BY <2>1 DEF Whole, LooseLive
    <3>2. ~(Entry(g, a) /\ x = symroot[g][a])
      BY <3>1 DEF Stored
    <3>3. x \in Infos
      BY <3>1 DEF Live
    <3> QED
      BY <2>13, <2>19, <3>1, <3>2, <3>3
  <2>22. CarriedOnce'
    BY <1>0, <2>1, <2>5 DEF Whole, CarriedOnce
  <2>23. \A h \in DOMAIN symroot : \A name, x : Named(h, name, x) => Named(h, name, x)'
    <3> SUFFICES ASSUME NEW h \in DOMAIN symroot, NEW name, NEW x, Named(h, name, x)
                 PROVE  Named(h, name, x)'
      OBVIOUS
    <3>0. PICK b : b = infos[x].symbol.address
      OBVIOUS
    <3>1. /\ x \in Infos /\ infos[x].state # "unused" /\ infos[x].symbol.name = name
          /\ b \in DOMAIN symroot[h]
          /\ symroot[h][b] # x => Freed(x) /\ infos[symroot[h][b]].symbol.name # name
      BY <2>2, <3>0 DEF Named
    <3>2. infos'[x].symbol = infos[x].symbol
      BY <2>3, <3>1 DEF Emptied
    <3>3. infos'[x].state # "unused"
      BY <2>3, <3>1 DEF Emptied
    <3>4. Entry(h, b) /\ Entry(h, b)' /\ symroot'[h][b] = symroot[h][b]
      BY <2>15, <3>1 DEF Entry
    <3>5. symroot[h][b] \in Infos
      BY <2>1, <2>2, <3>4 DEF Whole, EntriesLive, Live
    <3>6. infos'[symroot[h][b]].symbol = infos[symroot[h][b]].symbol
      BY <2>3, <3>5 DEF Emptied
    <3>7. b \in DOMAIN symroot'[h]
      BY <3>4 DEF Entry
    <3>8. infos'[x].symbol.address = b
      BY <3>0, <3>2
    <3> QED
      BY <2>12, <3>1, <3>2, <3>3, <3>4, <3>6, <3>7, <3>8 DEF Named
  <2>24. NamesLead'
    BY <1>0, <2>1, <2>23 DEF Whole, NamesLead
  <2>25. Staged'
    <3>1. Entry(g, a)'
      BY <2>3 DEF Emptied
    <3> QED
      BY <1>0, <1>1, <2>9, <3>1 DEF Staged, Now, Holding
  <2>26. (DOMAIN symroot = DOMAIN symroot_name)'
    BY <1>0, <2>1, <2>3 DEF Whole, Emptied
  <2> QED
    BY <2>16, <2>18, <2>20, <2>21, <2>22, <2>24, <2>25, <2>26 DEF Whole
<1> QED
  BY <1>1, <1>2, <1>3 DEF Inv, Shaped

\* What the second half makes of the entry, and of the name
Filled(g, a, name, id) ==
  /\ DOMAIN symroot' = DOMAIN symroot /\ DOMAIN symroot_name' = DOMAIN symroot_name
  /\ \A h \in DOMAIN symroot : DOMAIN symroot'[h] = DOMAIN symroot[h]
  /\ symroot'[g][a] = id
  /\ \A h, b : Entry(h, b) /\ ~(h = g /\ b = a) => symroot'[h][b] = symroot[h][b]
  /\ \A h \in DOMAIN symroot_name : h # g => symroot_name'[h] = symroot_name[h]
  /\ DOMAIN symroot_name'[g] = DOMAIN symroot_name[g] \cup {name}
  /\ symroot_name'[g][name] = id
  /\ \A n \in DOMAIN symroot_name[g] : n # name => symroot_name'[g][n] = symroot_name[g][n]

LEMMA StoreFills ==
  ASSUME NEW t \in Threads, NEW g, NEW a, NEW name, NEW id,
         g = calls[t].tag, a = Here(t).address, name = Here(t).name, id = calls[t].new,
         g \in DOMAIN symroot, a \in DOMAIN symroot[g], g \in DOMAIN symroot_name,
         SymsetStore(t)
  PROVE  Filled(g, a, name, id)
<1>1. /\ symroot' = [symroot EXCEPT ![g][a] = id]
      /\ symroot_name' = [symroot_name EXCEPT ![g] = Put(@, name, id)]
  BY DEF SymsetStore
<1>2. /\ DOMAIN symroot' = DOMAIN symroot
      /\ symroot'[g] = [symroot[g] EXCEPT ![a] = id]
      /\ \A h \in DOMAIN symroot : h # g => symroot'[h] = symroot[h]
  BY <1>1
<1>3. /\ DOMAIN symroot'[g] = DOMAIN symroot[g] /\ symroot'[g][a] = id
      /\ \A b \in DOMAIN symroot[g] : b # a => symroot'[g][b] = symroot[g][b]
  BY <1>2
<1>4. /\ DOMAIN symroot_name' = DOMAIN symroot_name
      /\ symroot_name'[g] = Put(symroot_name[g], name, id)
      /\ \A h \in DOMAIN symroot_name : h # g => symroot_name'[h] = symroot_name[h]
  BY <1>1
<1>5. /\ DOMAIN symroot_name'[g] = DOMAIN symroot_name[g] \cup {name}
      /\ symroot_name'[g][name] = id
      /\ \A n \in DOMAIN symroot_name[g] : n # name => symroot_name'[g][n] = symroot_name[g][n]
  BY <1>4 DEF Put
<1>6. \A h, b : Entry(h, b) /\ ~(h = g /\ b = a) => symroot'[h][b] = symroot[h][b]
  BY <1>2, <1>3 DEF Entry
<1> QED
  BY <1>2, <1>3, <1>4, <1>5, <1>6 DEF Filled

LEMMA StoreStep ==
  ASSUME Inv, NEW t \in Threads, SymsetStore(t)
  PROVE  Inv'
<1>a. PICK g : g = calls[t].tag
  OBVIOUS
<1>b. PICK a : a = Here(t).address
  OBVIOUS
<1>c. PICK m : m = Here(t).name
  OBVIOUS
<1>d. PICK id : id = calls[t].new
  OBVIOUS
<1>0. /\ calls[t].at = "store" /\ Goto(t, "unlock")
      /\ UNCHANGED <<infos, mutex, handlers, lost>>
  BY DEF SymsetStore, Calling
<1>1. /\ Now(t, "unlock", g, calls[t].todo, id)
      /\ CallsShape' /\ HandlersShape' /\ MutexShape' /\ HoldersOwn'
      /\ \A u \in Threads : calls[u].at \in Holding => u = t
      /\ Clean' => Clean
  BY <1>0, <1>a, <1>d, Onward DEF Holding
<1>2. InfosShape'
  BY <1>0 DEF Inv, Shaped, InfosShape
<1>3. ASSUME Clean'
      PROVE  Whole'
  <2>1. Whole
    BY <1>1, <1>3 DEF Inv
  <2>2. \A h, b : HoleAt(h, b) <=> h = g /\ b = a
    BY <1>0, <1>1, <1>a, <1>b DEF HoleAt, Holding
  <2>3. \A h, b : ~HoleAt(h, b)'
    BY <1>0, <1>1 DEF HoleAt, Now, Holding
  <2>4. Entry(g, a) /\ g \in DOMAIN symroot_name
    BY <1>0, <1>a, <1>b, <2>1 DEF Whole, Staged, Entry
  <2>5. Filled(g, a, m, id)
    BY <1>a, <1>b, <1>c, <1>d, <2>4, StoreFills DEF Entry
  <2>6. Carries(t, id)
    BY <1>0, <1>d DEF Carries
  <2>7. Live(id) /\ ~Stored(id) /\ id \notin lost /\ id \in Infos
    BY <2>1, <2>6 DEF Loose, Whole, LooseLive, CarriedOnce, Live
  <2>8. infos[id].symbol.address = a /\ infos[id].symbol.name = m
    BY <1>b, <1>c, <1>d DEF Here
  <2>9. \A h, b : Entry(h, b)' <=> Entry(h, b)
    BY <2>5 DEF Filled, Entry
  <2>10. \A h, b : Entry(h, b) /\ ~(h = g /\ b = a) => symroot'[h][b] = symroot[h][b]
    BY <2>5 DEF Filled
  <2>11. symroot'[g][a] = id
    BY <2>5 DEF Filled
  <2>12. \A x : (Live(x)' <=> Live(x)) /\ (Freed(x)' <=> Freed(x))
    BY <1>0 DEF Live, Freed
  <2>13. \A u \in Threads : \A x : Carries(u, x)' <=> u # t /\ Carries(u, x)
    BY <1>1 DEF Carries, Now
  <2>14. \A x : Carries(t, x) => x = id
    BY <1>d DEF Carries
  <2>15. \A x : Loose(x)' <=> Loose(x) /\ x # id
    BY <1>0, <2>1, <2>6, <2>7, <2>13, <2>14 DEF Loose, Whole, CarriedOnce
  <2>16. \A h, b : Entry(h, b) => symroot[h][b] # id
    BY <2>7 DEF Stored
  <2>17. \A h, b : Entry(h, b) /\ ~(h = g /\ b = a) =>
           Live(symroot[h][b]) /\ infos[symroot[h][b]].symbol.address = b
    BY <2>1, <2>2 DEF Whole, EntriesLive
  <2>18. EntriesLive'
    <3> SUFFICES ASSUME NEW h, NEW b, Entry(h, b)
                 PROVE  Live(symroot[h][b])' /\ infos'[symroot'[h][b]].symbol.address = b
      BY <2>3, <2>9 DEF EntriesLive
    <3>1. CASE h = g /\ b = a
      BY <1>0, <2>7, <2>8, <2>11, <2>12, <3>1
    <3>2. CASE ~(h = g /\ b = a)
      BY <1>0, <2>10, <2>12, <2>17, <3>2
    <3> QED
      BY <3>1, <3>2
  <2>19. EntriesApart'
    <3> SUFFICES ASSUME NEW h, NEW b, NEW k, NEW c, Entry(h, b), Entry(k, c),
                        symroot'[h][b] = symroot'[k][c]
                 PROVE  h = k /\ b = c
      BY <2>9 DEF EntriesApart
    <3>1. CASE h = g /\ b = a
      BY <2>10, <2>11, <2>16, <3>1
    <3>2. CASE k = g /\ c = a
      BY <2>10, <2>11, <2>16, <3>2
    <3>3. CASE ~(h = g /\ b = a) /\ ~(k = g /\ c = a)
      BY <2>1, <2>10, <3>3 DEF Whole, EntriesApart
    <3> QED
      BY <3>1, <3>2, <3>3
  <2>20. ~Live(symroot[g][a])
    BY <2>1, <2>2, <2>4, CrashAssumption DEF Whole, EntriesLive, Live, Freed
  <2>21. LiveKept'
    <3> SUFFICES ASSUME NEW x \in Infos, Live(x)
                 PROVE  Stored(x)' \/ Loose(x)'
      BY <2>12 DEF LiveKept
    <3>1. CASE x = id
      BY <2>4, <2>9, <2>11, <3>1 DEF Stored
    <3>2. CASE x # id /\ Loose(x)
      BY <2>15, <3>2
    <3>3. CASE Stored(x)
      <4>1. PICK h, b : Entry(h, b) /\ symroot[h][b] = x
        BY <3>3 DEF Stored
      <4>2. symroot'[h][b] = x
        BY <2>10, <2>20, <4>1
      <4> QED
        BY <2>9, <4>1, <4>2 DEF Stored
    <3> QED
      BY <2>1, <3>1, <3>2, <3>3 DEF Whole, LiveKept
  <2>22. LooseLive'
    <3> SUFFICES ASSUME NEW x, Loose(x), x # id
                 PROVE  Live(x) /\ ~Stored(x)'
      BY <2>12, <2>15 DEF LooseLive
    <3>1. Live(x) /\ ~Stored(x)
      BY <2>1 DEF Whole, LooseLive
    <3> QED
      BY <2>9, <2>10, <2>11, <3>1 DEF Stored
  <2>23. CarriedOnce'
    BY <1>0, <2>1, <2>13 DEF Whole, CarriedOnce
  <2>24. ASSUME NEW h \in DOMAIN symroot, NEW n, NEW x, Named(h, n, x), ~(h = g /\ n = m)
         PROVE  Named(h, n, x)'
    <3>0. PICK b : b = infos[x].symbol.address
      OBVIOUS
    <3>1. /\ x \in Infos /\ infos[x].state # "unused" /\ infos[x].symbol.name = n
          /\ b \in DOMAIN symroot[h]
          /\ symroot[h][b] # x => Freed(x) /\ (HoleAt(h, b) \/ infos[symroot[h][b]].symbol.name # n)
      BY <2>24, <3>0 DEF Named
    <3>2. Entry(h, b)
      BY <3>1 DEF Entry
    <3>3. b \in DOMAIN symroot'[h]
      BY <2>5, <3>1 DEF Filled
    <3>4. symroot'[h][b] # x => Freed(x) /\ infos[symroot'[h][b]].symbol.name # n
      <4>1. CASE h = g /\ b = a
        <5>1. infos[symroot'[h][b]].symbol.name # n
          BY <2>8, <2>11, <2>24, <4>1
        <5>2. Freed(x)
          BY <2>1, <2>2, <2>4, <3>1, <4>1, CrashAssumption DEF Whole, EntriesLive
        <5> QED
          BY <5>1, <5>2
      <4>2. CASE ~(h = g /\ b = a)
        BY <2>2, <2>10, <3>1, <3>2, <4>2
      <4> QED
        BY <4>1, <4>2
    <3> QED
      BY <1>0, <2>12, <3>0, <3>1, <3>3, <3>4 DEF Named
  <2>25. Named(g, m, id)'
    BY <1>0, <2>4, <2>5, <2>7, <2>8, <2>11 DEF Named, Filled, Entry, Live
  <2>26. NamesLead'
    <3> SUFFICES ASSUME NEW h, NEW n, h \in DOMAIN symroot_name', n \in DOMAIN symroot_name'[h]
                 PROVE  Named(h, n, symroot_name[h][n])'
      BY DEF NamesLead
    <3>0. h \in DOMAIN symroot /\ h \in DOMAIN symroot_name
      BY <2>1, <2>5 DEF Whole, Filled
    <3>1. CASE h = g /\ n = m
      <4>1. symroot_name'[h][n] = id
        BY <2>5, <3>1 DEF Filled
      <4> QED
        BY <2>25, <3>1, <4>1
    <3>2. CASE ~(h = g /\ n = m)
      <4>1. n \in DOMAIN symroot_name[h] /\ symroot_name'[h][n] = symroot_name[h][n]
        BY <2>5, <3>0, <3>2 DEF Filled
      <4>2. Named(h, n, symroot_name[h][n])
        BY <2>1, <3>0, <4>1 DEF Whole, NamesLead
      <4>3. PICK x : x = symroot_name[h][n]
        OBVIOUS
      <4>4. Named(h, n, x)'
        BY <2>24, <3>0, <3>2, <4>2, <4>3
      <4> QED
        BY <4>1, <4>3, <4>4
    <3> QED
      BY <3>1, <3>2
  <2>27. Staged'
    BY <1>0, <1>1 DEF Staged, Now, Holding
  <2>28. (DOMAIN symroot = DOMAIN symroot_name)'
    BY <2>1, <2>5 DEF Whole, Filled
  <2> QED
    BY <2>18, <2>19, <2>21, <2>22, <2>23, <2>26, <2>27, <2>28 DEF Whole
<1> QED
  BY <1>1, <1>2, <1>3 DEF Inv, Shaped

-----------------------------------------------------------------------------
(* The theorems                                                            *)

LEMMA CallStepInv ==
  ASSUME Inv, NEW t \in Threads, CallStep(t)
  PROVE  Inv'
<1>1. CASE DeltagLock(t)
  <2>1. Now(t, "delete", calls[t].tag, calls[t].todo, calls[t].new)
    BY <1>1, GotoIsNow DEF DeltagLock, Inv, Shaped
  <2> QED
    BY <1>1, <2>1, LockOnly DEF DeltagLock, Calling
<1> QED
  BY <1>1, DupsymStep, EndTableStep, OpenStep, ReplaceStep, StoreStep,
     DeltagRemoveStep, DeltagRemoveNameStep, UnlockStep,
     SymaddrLockStep, SymaddrUnlockStep, SymaddrReadStep DEF CallStep

LEMMA NextInv == Inv /\ [Next]_vars => Inv'
<1> SUFFICES ASSUME Inv, [Next]_vars
             PROVE  Inv'
  OBVIOUS
<1>1. CASE tcccrash_install
  BY <1>1, InstallStep
<1>2. CASE tcccrash_uninstall
  BY <1>2, Aside DEF tcccrash_uninstall
<1>3. CASE \E t \in Threads : CallStep(t)
  BY <1>3, CallStepInv
<1>4. CASE \E t \in Threads : HandlerStep(t)
  BY <1>4, EnterStep, LookStep, UseStep, FinishStep DEF HandlerStep
<1>5. CASE \E t \in Threads : Choice(t)
  BY <1>5, ChoiceStep
<1>6. CASE UNCHANGED vars
  BY <1>6, Aside DEF vars
<1> QED
  BY <1>1, <1>2, <1>3, <1>4, <1>5, <1>6 DEF Next

LEMMA InitInv == Init => Inv
BY FreshInv DEF Init, Fresh

LEMMA AlwaysInv == Spec => []Inv
BY InitInv, NextInv, PTL DEF Spec

\* With the mutex free nobody is about to store.
LEMMA NoHole ==
  ASSUME Inv, mutex.owner = NoThread
  PROVE  Whole /\ \A g, a : ~HoleAt(g, a)
BY CrashAssumption DEF Inv, Clean, Shaped, HoldersOwn, HoleAt, Holding

\* Whoever gets the mutex finds both indexes complete: no entry is missing,
\* empty or dangling, and no live info is unreachable, unless it is on its
\* way or its owner was jumped out of.  No interruption can show the middle
\* of tcccrash_symset or of tcccrash_deltag to anybody else.
THEOREM IndexesAlwaysWhole == Spec => []IndexesWhole
<1>1. Inv => IndexesWhole
  <2> SUFFICES ASSUME Inv, mutex.owner = NoThread
               PROVE  /\ DOMAIN symroot = DOMAIN symroot_name
                      /\ \A g \in DOMAIN symroot : \A a \in DOMAIN symroot[g] :
                           /\ symroot[g][a] # NoInfo
                           /\ infos[symroot[g][a]].state = "live"
                           /\ infos[symroot[g][a]].symbol.address = a
                      /\ \A g, h \in DOMAIN symroot :
                           \A a \in DOMAIN symroot[g], b \in DOMAIN symroot[h] :
                             symroot[g][a] = symroot[h][b] => g = h /\ a = b
                      /\ {id \in Infos : infos[id].state = "live"} =
                           Indexed \cup (UNION {Carried(t) : t \in Threads}) \cup (lost \ Indexed)
    BY DEF IndexesWhole
  <2>1. Whole /\ \A g, a : ~HoleAt(g, a)
    BY NoHole
  <2>2. \A g, a : Entry(g, a) => Live(symroot[g][a]) /\ infos[symroot[g][a]].symbol.address = a
    BY <2>1 DEF Whole, EntriesLive
  <2>3. \A g \in DOMAIN symroot : \A a \in DOMAIN symroot[g] :
          /\ symroot[g][a] # NoInfo
          /\ infos[symroot[g][a]].state = "live"
          /\ infos[symroot[g][a]].symbol.address = a
    BY <2>2, CrashAssumption DEF Entry, Live
  <2>4. \A g, h \in DOMAIN symroot : \A a \in DOMAIN symroot[g], b \in DOMAIN symroot[h] :
          symroot[g][a] = symroot[h][b] => g = h /\ a = b
    BY <2>1 DEF Whole, EntriesApart, Entry
  <2>5. \A x : x \in Indexed <=> Stored(x)
    BY DEF Indexed, Stored, Entry, Range
  <2>6. \A x : (x \in lost \/ x \in UNION {Carried(t) : t \in Threads}) <=> Loose(x)
    BY DEF Loose, Carried, Carries
  <2>7. \A x : Live(x) <=> Stored(x) \/ Loose(x)
    <3>1. \A x : Stored(x) => Live(x)
      BY <2>2 DEF Stored
    <3> QED
      BY <2>1, <3>1 DEF Whole, LiveKept, LooseLive, Live
  <2>8. {id \in Infos : infos[id].state = "live"} =
          Indexed \cup (UNION {Carried(t) : t \in Threads}) \cup (lost \ Indexed)
    <3> DEFINE onway == UNION {Carried(t) : t \in Threads}
    <3>1. \A x : (x \in lost \/ x \in onway) <=> Loose(x)
      BY <2>6
    <3> HIDE DEF onway
    <3>2. {id \in Infos : infos[id].state = "live"} = Indexed \cup onway \cup (lost \ Indexed)
      <4>1. \A x : x \in {id \in Infos : infos[id].state = "live"} <=> Live(x)
        BY DEF Live
      <4>2. \A x : x \in Indexed \cup onway \cup (lost \ Indexed) <=> Stored(x) \/ Loose(x)
        BY <2>5, <3>1
      <4> HIDE DEF Indexed
      <4>3. \A x : x \in {id \in Infos : infos[id].state = "live"}
                  <=> x \in Indexed \cup onway \cup (lost \ Indexed)
        BY <2>7, <4>1, <4>2
      <4> QED
        BY <4>3
    <3> QED
      BY <3>2 DEF onway
  <2> QED
    BY <2>1, <2>3, <2>4, <2>8 DEF Whole
<1> QED
  BY <1>1, AlwaysInv, PTL

\* A name of the second index leads to the info that was last stored under
\* it; the info is gone only if its address was registered again under
\* another name.
THEOREM NamesOnlyStaleWhenReplaced == Spec => []NamesStale
<1>1. Inv => NamesStale
  <2> SUFFICES ASSUME Inv, mutex.owner = NoThread,
                      NEW g \in DOMAIN symroot_name, NEW name \in DOMAIN symroot_name[g]
               PROVE  LET s == infos[symroot_name[g][name]].symbol
                          now == symroot[g][s.address]
                      IN /\ s.name = name
                         /\ now # symroot_name[g][name] =>
                              /\ infos[symroot_name[g][name]].state = "freed"
                              /\ infos[now].symbol.name # name
    BY DEF NamesStale
  <2>1. Whole /\ \A h, a : ~HoleAt(h, a)
    BY NoHole
  <2>2. Named(g, name, symroot_name[g][name])
    BY <2>1 DEF Whole, NamesLead
  <2> QED
    BY <2>1, <2>2 DEF Named, Freed
<1> QED
  BY <1>1, AlwaysInv, PTL

-----------------------------------------------------------------------------
(* What calls and indexes hold                                             *)

\* A registration has symbols to store, and an info for the one it is at.
Registering(t) == calls[t].at \in {"lock", "replace", "store"}
CallHeld(t) ==
  /\ calls[t].tag \in Tags \cup {0} /\ calls[t].todo \in Seq(Symbols)
  /\ Registering(t) => calls[t].new \in Infos /\ Here(t) \in Symbols

SymbolsHeld == Symbols # {} => \A id \in Infos : infos[id].symbol \in Symbols
CallsHeld == SymbolsHeld /\ \A t \in Threads : CallHeld(t)

\* The tags are among those scripts have, the addresses are numbers, and
\* what is stored under them is an info.
Addressed(g) ==
  /\ g \in Tags \cup {0} /\ DOMAIN symroot[g] \subseteq Nat
  /\ \A a \in DOMAIN symroot[g] : symroot[g][a] \in Infos \cup {NoInfo}

Registered == CallsHeld /\ \A g \in DOMAIN symroot : Addressed(g)

SymbolsKept == \A id \in Infos : infos'[id].symbol \in {infos[id].symbol} \cup Symbols

LEMMA SymbolsSame ==
  ASSUME CallsHeld, SymbolsKept
  PROVE  SymbolsHeld'
BY DEF CallsHeld, SymbolsHeld, SymbolsKept

LEMMA CallsSame ==
  ASSUME CallsHeld, SymbolsKept, UNCHANGED calls
  PROVE  CallsHeld'
<1>1. \A t \in Threads : CallHeld(t)'
  BY DEF CallsHeld, CallHeld, SymbolsKept, Registering, Here
<1> QED
  BY <1>1, SymbolsSame DEF CallsHeld

LEMMA CallsMoved ==
  ASSUME CallsHeld, SymbolsKept, NEW t \in Threads,
         NEW at, NEW tag \in Tags \cup {0}, NEW todo \in Seq(Symbols), NEW new,
         Now(t, at, tag, todo, new),
         at \in {"lock", "replace", "store"} => new \in Infos /\ infos'[new].symbol \in Symbols
  PROVE  CallsHeld'
<1> SUFFICES ASSUME NEW u \in Threads
             PROVE  CallHeld(u)'
  BY SymbolsSame DEF CallsHeld
<1>1. CASE u = t
  BY <1>1 DEF Now, CallHeld, Registering, Here
<1>2. CASE u # t
  BY <1>2 DEF Now, CallsHeld, CallHeld, SymbolsKept, Registering, Here
<1> QED
  BY <1>1, <1>2

LEMMA IndexSame ==
  ASSUME \A g \in DOMAIN symroot : Addressed(g), UNCHANGED symroot
  PROVE  \A g \in DOMAIN symroot' : Addressed(g)'
BY DEF Addressed

\* A step of a call that leaves the symbols where they are
LEMMA Calm ==
  ASSUME Registered, UNCHANGED <<infos, symroot>>, NEW t \in Threads,
         NEW at, at \notin {"lock", "replace", "store"}, NEW tag \in Tags \cup {0},
         NEW todo \in Seq(Symbols), NEW new, Now(t, at, tag, todo, new)
  PROVE  Registered'
<1>1. SymbolsKept
  BY DEF SymbolsKept
<1> QED
  BY <1>1, CallsMoved, IndexSame DEF Registered

LEMMA Still ==
  ASSUME Registered, UNCHANGED <<infos, symroot, calls>>
  PROVE  Registered'
<1>1. SymbolsKept
  BY DEF SymbolsKept
<1> QED
  BY <1>1, CallsSame, IndexSame DEF Registered

\* The step of a call that goes on, by the state it goes to
LEMMA Going ==
  ASSUME Inv, Registered, NEW t \in Threads, NEW at, Goto(t, at), SymbolsKept,
         at \in {"lock", "replace", "store"} => Registering(t)
  PROVE  CallsHeld'
<1>1. Now(t, at, calls[t].tag, calls[t].todo, calls[t].new)
  BY GotoIsNow DEF Inv, Shaped
<1>2. CallHeld(t)
  BY DEF Registered, CallsHeld
<1>3. Registering(t) => calls[t].new \in Infos /\ infos'[calls[t].new].symbol \in Symbols
  BY <1>2 DEF CallHeld, Here, SymbolsKept
<1>4. calls[t].tag \in Tags \cup {0} /\ calls[t].todo \in Seq(Symbols)
  BY <1>2 DEF CallHeld
<1> QED
  BY <1>1, <1>3, <1>4, CallsMoved DEF Registered

LEMMA FreshRegistered == Fresh => Registered
<1> SUFFICES ASSUME Fresh
             PROVE  Registered
  OBVIOUS
<1>1. \A t \in Threads : calls[t] = [at |-> "idle", tag |-> 0, todo |-> << >>, new |-> NoInfo]
  BY Zenon DEF Fresh, Idle
<1>2. \A t \in Threads : CallHeld(t)
  <2>1. << >> \in Seq(Symbols)
    OBVIOUS
  <2>2. \A t \in Threads : calls[t].at = "idle" /\ calls[t].tag = 0 /\ calls[t].todo = << >>
    BY <1>1
  <2> QED
    BY <2>1, <2>2 DEF CallHeld, Registering
<1>3. DOMAIN symroot = {}
  BY DEF Fresh
<1>4. SymbolsHeld
  <2>1. \A id \in Infos : infos[id].symbol = CHOOSE s \in Symbols : TRUE
    BY DEF Fresh, Nothing
  <2>2. Symbols # {} => (CHOOSE s \in Symbols : TRUE) \in Symbols
    BY Zenon
  <2> QED
    BY <2>1, <2>2 DEF SymbolsHeld
<1> QED
  BY <1>2, <1>3, <1>4 DEF Registered, CallsHeld

LEMMA ExitRegistered ==
  ASSUME NEW why, Exit(why)
  PROVE  Registered'
<1>1. Fresh'
  BY DEF Exit, Fresh
<1>2. Fresh' => Registered'
  BY FreshRegistered, PTL
<1> QED
  BY <1>1, <1>2

LEMMA ChoiceRegistered ==
  ASSUME Inv, Registered, NEW t \in Threads, Choice(t)
  PROVE  Registered'
<1>0. CallsShape /\ << >> \in Seq(Symbols)
  BY DEF Inv, Shaped
<1>1. CASE tcccrash_symtcc(t)
  <2>1. PICK g \in Tags, table \in Tables :
          calls' = [calls EXCEPT ![t] = [Idle EXCEPT !.at = "next", !.tag = g, !.todo = table]]
    BY <1>1 DEF tcccrash_symtcc
  <2>2. UNCHANGED <<infos, symroot>> /\ table \in Seq(Symbols)
    BY <1>1, SymbolAssumption DEF tcccrash_symtcc, index
  <2>3. Now(t, "next", g, table, NoInfo)
    BY <1>0, <2>1, BeginIsNow
  <2> QED
    BY <2>2, <2>3, Calm
<1>2. CASE tcccrash_deltag(t)
  <2>1. PICK g \in Tags :
          calls' = [calls EXCEPT ![t] = [Idle EXCEPT !.at = "dellock", !.tag = g]]
    BY <1>2 DEF tcccrash_deltag
  <2>2. Now(t, "dellock", g, << >>, NoInfo)
    BY <1>0, <2>1, TaggedIsNow
  <2> QED
    BY <1>0, <1>2, <2>2, Calm DEF tcccrash_deltag, index
<1>3. CASE tcccrash_symaddr(t)
  <2> DEFINE c == [Idle EXCEPT !.at = "addrlock"]
  <2>1. /\ DOMAIN c = {"at", "tag", "todo", "new"}
        /\ c.at = "addrlock" /\ c.tag = 0 /\ c.todo = << >> /\ c.new = NoInfo
    BY DEF Idle
  <2>2. Now(t, "addrlock", 0, << >>, NoInfo)
    BY <1>0, <1>3, <2>1, CallIsNow DEF tcccrash_symaddr
  <2> QED
    BY <1>0, <1>3, <2>2, Calm DEF tcccrash_symaddr, index
<1>4. CASE \/ tcccrash_checkpoint(t) \/ ReturnFromFrame(t) \/ Signal(t)
           \/ tcccrash_nullifycheckpoint(t) \/ tcccrash_closethread(t)
  BY <1>4, Still DEF tcccrash_checkpoint, ReturnFromFrame, tcccrash_nullifycheckpoint,
                     tcccrash_closethread, Signal, index
<1> QED
  BY <1>1, <1>2, <1>3, <1>4 DEF Choice

LEMMA HandlerRegistered ==
  ASSUME Inv, Registered, NEW t \in Threads, HandlerStep(t)
  PROVE  Registered'
<1>1. CASE \E why : Exit(why)
  BY <1>1, ExitRegistered
<1>2. CASE UNCHANGED <<infos, symroot, calls>>
  BY <1>2, Still
<1>3. CASE UNCHANGED <<infos, symroot>> /\ calls' = [calls EXCEPT ![t] = Idle]
  <2>1. Now(t, "idle", 0, << >>, NoInfo)
    BY <1>3, IdleIsNow DEF Inv, Shaped
  <2>2. << >> \in Seq(Symbols)
    OBVIOUS
  <2> QED
    BY <1>3, <2>1, <2>2, Calm
<1>4. Enter(t) \/ Look(t) \/ Use(t) => (\E why : Exit(why)) \/ UNCHANGED <<infos, symroot, calls>>
  BY DEF Enter, Look, Use, index
<1>5. Finish(t) => \/ \E why : Exit(why)
                   \/ UNCHANGED <<infos, symroot>> /\ calls' = [calls EXCEPT ![t] = Idle]
  BY DEF Finish, index
<1> QED
  BY <1>1, <1>2, <1>3, <1>4, <1>5 DEF HandlerStep

LEMMA CallRegistered ==
  ASSUME Inv, Registered, NEW t \in Threads, CallStep(t)
  PROVE  Registered'
<1>0. /\ CallsShape /\ InfosShape /\ CallHeld(t) /\ << >> \in Seq(Symbols)
      /\ CallsHeld /\ \A g \in DOMAIN symroot : Addressed(g)
  BY DEF Inv, Shaped, Registered, CallsHeld
<1> DEFINE g == calls[t].tag
           a == Here(t).address
<1>1. CASE dupsym(t)
  <2> DEFINE id == CHOOSE x \in Unused : TRUE
  <2>1. id \in Infos
    BY <1>1 DEF dupsym, Unused
  <2>2. calls[t].todo \in Seq(Symbols) /\ calls[t].todo # << >>
    BY <1>0, <1>1 DEF dupsym, CallHeld
  <2>3. Head(calls[t].todo) \in Symbols /\ Tail(calls[t].todo) \in Seq(Symbols)
    BY <2>2
  <2>4. Became(id, "live", Head(calls[t].todo))
    BY <1>0, <1>1, <2>1, InfoBecame DEF dupsym
  <2>5. Now(t, "lock", calls[t].tag, Tail(calls[t].todo), id)
    BY <1>0, <1>1, CarryIsNow DEF dupsym
  <2>6. UNCHANGED symroot /\ calls[t].tag \in Tags \cup {0}
    BY <1>0, <1>1 DEF dupsym, CallHeld
  <2> HIDE DEF id
  <2>7. SymbolsKept /\ infos'[id].symbol \in Symbols
    BY <2>3, <2>4 DEF SymbolsKept, Became
  <2> QED
    BY <2>1, <2>3, <2>5, <2>6, <2>7, CallsMoved, IndexSame DEF Registered
<1>2. CASE EndTable(t)
  <2>1. Now(t, "idle", 0, << >>, NoInfo)
    BY <1>0, <1>2, IdleIsNow DEF EndTable
  <2> QED
    BY <1>0, <1>2, <2>1, Calm DEF EndTable, index
<1>3. CASE SymsetOpen(t)
  <2>1. SymbolsKept /\ Goto(t, "replace") /\ Registering(t)
    BY <1>3 DEF SymsetOpen, SymbolsKept, Calling, Registering
  <2>2. symroot' = symroot \/ symroot' = Put(symroot, g, << >>)
    BY <1>3 DEF SymsetOpen
  <2>3. ASSUME NEW h \in DOMAIN symroot'
        PROVE  Addressed(h)'
    BY <1>0, <2>2 DEF Addressed, Put, CallHeld
  <2> QED
    BY <2>1, <2>3, Going DEF Registered
<1>4. CASE SymsetReplace(t)
  <2>1. Goto(t, "store") /\ Registering(t)
    BY <1>4 DEF SymsetReplace, Calling, Registering
  <2>2. a \in Nat
    BY <1>0, <2>1, SymbolAssumption DEF CallHeld
  <2>3. SymbolsKept
    <3>1. infos' = infos \/ \E id : infos' = [infos EXCEPT ![id].state = "freed"]
      BY <1>4 DEF SymsetReplace
    <3> QED
      BY <1>0, <3>1 DEF SymbolsKept, InfosShape
  <2>4. symroot' = symroot \/ symroot' = [symroot EXCEPT ![g] = Put(@, a, NoInfo)]
    BY <1>4 DEF SymsetReplace
  <2>5. ASSUME NEW h \in DOMAIN symroot'
        PROVE  Addressed(h)'
    BY <1>0, <2>2, <2>4 DEF Addressed, Put
  <2> QED
    BY <2>1, <2>3, <2>5, Going DEF Registered
<1>5. CASE SymsetStore(t)
  <2>0. calls[t].new \in Infos
    BY <1>0, <1>5 DEF SymsetStore, Calling, CallHeld, Registering
  <2>1. Goto(t, "unlock") /\ SymbolsKept
    BY <1>5 DEF SymsetStore, SymbolsKept
  <2>2. symroot' = [symroot EXCEPT ![g][a] = calls[t].new]
    BY <1>5 DEF SymsetStore
  <2>3. ASSUME NEW h \in DOMAIN symroot'
        PROVE  Addressed(h)'
    BY <1>0, <2>0, <2>2 DEF Addressed
  <2> QED
    BY <2>1, <2>3, Going DEF Registered
<1>6. CASE DeltagRemove(t)
  <2>1. CASE \E why : Exit(why)
    BY <2>1, ExitRegistered
  <2>2. CASE Goto(t, "delname") /\ UNCHANGED <<infos, symroot>>
    <3>1. SymbolsKept
      BY <2>2 DEF SymbolsKept
    <3> QED
      BY <1>0, <2>2, <3>1, Going, IndexSame DEF Registered
  <2>3. CASE /\ infos' = [id \in Infos |-> IF id \in Range(symroot[g])
                                           THEN [infos[id] EXCEPT !.state = "freed"] ELSE infos[id]]
             /\ symroot' = Without(symroot, g) /\ UNCHANGED calls
    <3>1. SymbolsKept
      BY <1>0, <2>3 DEF SymbolsKept, InfosShape
    <3>2. ASSUME NEW h \in DOMAIN symroot'
          PROVE  Addressed(h)'
      BY <1>0, <2>3 DEF Addressed, Without
    <3> QED
      BY <2>3, <3>1, <3>2, CallsSame DEF Registered
  <2> QED
    BY <1>6, <2>1, <2>2, <2>3 DEF DeltagRemove, index
<1>7. CASE DeltagRemoveName(t)
  <2>1. CASE \E why : Exit(why)
    BY <2>1, ExitRegistered
  <2>2. CASE Goto(t, "unlock") /\ UNCHANGED <<infos, symroot>>
    <3>1. SymbolsKept
      BY <2>2 DEF SymbolsKept
    <3> QED
      BY <1>0, <2>2, <3>1, Going, IndexSame DEF Registered
  <2>3. CASE UNCHANGED <<infos, symroot, calls>>
    BY <2>3, Still
  <2> QED
    BY <1>7, <2>1, <2>2, <2>3 DEF DeltagRemoveName, index
<1>8. CASE DeltagLock(t)
  <2>1. SymbolsKept /\ UNCHANGED symroot /\ Goto(t, "delete")
    BY <1>8 DEF SymbolsKept, DeltagLock, index
  <2> QED
    BY <1>0, <2>1, Going, IndexSame DEF Registered
<1>9. CASE CallUnlock(t)
  <2>1. Now(t, "next", calls[t].tag, calls[t].todo, NoInfo)
    BY <1>0, <1>9, DropIsNow DEF CallUnlock
  <2> QED
    BY <1>0, <1>9, <2>1, Calm DEF CallUnlock, index, CallHeld
<1>10. CASE SymaddrLock(t)
  <2>1. PICK found : calls' = [calls EXCEPT ![t].at = "found", ![t].new = found]
    BY <1>10 DEF SymaddrLock
  <2>2. Now(t, "found", calls[t].tag, calls[t].todo, found)
    BY <1>0, <2>1, DropIsNow
  <2> QED
    BY <1>0, <1>10, <2>2, Calm DEF SymaddrLock, index, CallHeld
<1>11. CASE SymaddrUnlock(t)
  <2>1. SymaddrGoes(t) /\ UNCHANGED <<infos, symroot>>
    BY <1>0, <1>11, SymaddrUnlockGoes DEF SymaddrUnlock, index
  <2> QED
    BY <1>0, <2>1, Calm DEF SymaddrGoes, CallHeld
<1>12. CASE SymaddrRead(t)
  <2>1. UNCHANGED <<infos, symroot>>
    BY <1>12 DEF SymaddrRead, index
  <2>2. CASE calls' = [calls EXCEPT ![t] = Idle]
    <3>1. Now(t, "idle", 0, << >>, NoInfo)
      BY <1>0, <2>2, IdleIsNow
    <3> QED
      BY <1>0, <2>1, <3>1, Calm
  <2>3. CASE UNCHANGED calls
    BY <2>1, <2>3, Still
  <2> QED
    BY <1>12, <2>2, <2>3 DEF SymaddrRead
<1> QED
  BY <1>1, <1>2, <1>3, <1>4, <1>5, <1>6, <1>7, <1>8, <1>9, <1>10, <1>11, <1>12 DEF CallStep

LEMMA NextRegistered ==
  ASSUME Inv, Registered, [Next]_vars
  PROVE  Registered'
<1>1. CASE tcccrash_install
  <2> DEFINE c == [Idle EXCEPT !.at = "next", !.todo = InstallSymbols]
  <2>1. /\ DOMAIN c = {"at", "tag", "todo", "new"}
        /\ c.at = "next" /\ c.tag = 0 /\ c.todo = InstallSymbols /\ c.new = NoInfo
    BY DEF Idle
  <2>2. CallsShape /\ Main \in Threads /\ calls' = [calls EXCEPT ![Main] = c]
    BY <1>1, CrashAssumption DEF Inv, Shaped, tcccrash_install
  <2> HIDE DEF c
  <2>3. Now(Main, c.at, c.tag, c.todo, c.new)
    BY <2>1, <2>2, CallIsNow
  <2>4. Now(Main, "next", 0, InstallSymbols, NoInfo)
    BY <2>1, <2>3
  <2>5. InstallSymbols \in Seq(Symbols) /\ UNCHANGED <<infos, symroot>>
    BY <1>1, SymbolAssumption DEF tcccrash_install, index
  <2> QED
    BY <2>2, <2>4, <2>5, Calm
<1>2. CASE tcccrash_uninstall
  BY <1>2, Still DEF tcccrash_uninstall, index
<1>3. CASE \E t \in Threads : CallStep(t) \/ HandlerStep(t) \/ Choice(t)
  BY <1>3, CallRegistered, HandlerRegistered, ChoiceRegistered
<1>4. CASE UNCHANGED vars
  BY <1>4, Still DEF vars, index
<1> QED
  BY <1>1, <1>2, <1>3, <1>4 DEF Next

LEMMA AlwaysRegistered == Spec => []Registered
<1>1. Init => Registered
  BY FreshRegistered DEF Init, Fresh
<1> QED
  BY <1>1, NextRegistered, AlwaysInv, PTL DEF Spec

-----------------------------------------------------------------------------
(* Looking up                                                              *)

\* A set of natural numbers that is not empty has a least one, and one with
\* a bound has a largest one.
LEMMA LeastNumber ==
  ASSUME NEW S \in SUBSET Nat, S # {}
  PROVE  \E n \in S : \A m \in S : n <= m
<1>1. PICK n \in S : \A m \in S : <<m, n>> \notin OpToRel(<, Nat)
  BY WFMin, NatLessThanWellFounded, Zenon
<1>2. \A m \in S : ~(m < n)
  BY <1>1, Zenon DEF OpToRel
<1> QED
  BY <1>2

LEMMA LargestNumber ==
  ASSUME NEW S \in SUBSET Nat, S # {}, NEW bound \in Nat, \A a \in S : a <= bound
  PROVE  Max(S) \in S /\ \A a \in S : a <= Max(S)
<1> DEFINE D == {bound - a : a \in S}
<1>1. D \in SUBSET Nat /\ D # {}
  <2>1. \A a \in S : bound - a \in Nat
    OBVIOUS
  <2>2. \A d \in D : d \in Nat
    BY <2>1
  <2> QED
    BY <2>2, Zenon
<1> HIDE DEF D
<1>2. PICK d \in D : \A e \in D : d <= e
  BY <1>1, LeastNumber
<1>3. PICK a \in S : d = bound - a
  BY DEF D
<1>4. \A b \in S : bound - a <= bound - b
  BY <1>2, <1>3 DEF D
<1>5. \A b \in S : a >= b
  BY <1>4
<1> QED
  BY <1>5 DEF Max

LEMMA LastTag ==
  /\ Tags \cup {0} \in SUBSET Nat
  /\ Max(Tags \cup {0}) \in Nat
  /\ \A g \in Tags \cup {0} : g <= Max(Tags \cup {0})
<1>1. PICK last \in Tags \cup {0} : Tags \subseteq 0 .. last
  BY SymbolAssumption
<1>2. Tags \cup {0} \in SUBSET Nat
  BY CrashAssumption
<1>3. \A g \in Tags \cup {0} : g <= last
  BY <1>1, <1>2
<1> QED
  BY <1>1, <1>2, <1>3, LargestNumber

\* The loop of tcccrash_symget: what it has found once it has seen tag g, as
\* a function f of the tags.
NearerThan(ip, g, best) ==
  \/ best.mindiff = 0
  \/ Diff(g, ip) < best.mindiff /\ Near(g, ip)
Candidate(ip, g) == g \in DOMAIN symroot /\ Below(g, ip) # {}
Seek(ip, f, g) ==
  IF g = -1 THEN [ret |-> NoInfo, mindiff |-> 0]
  ELSE IF Candidate(ip, g) /\ NearerThan(ip, g, f[g - 1])
       THEN [ret |-> Floor(g, ip), mindiff |-> Diff(g, ip)]
       ELSE f[g - 1]
Sought(ip, n, f) == f = [g \in -1 .. n |-> Seek(ip, f, g)]

LEMMA SymgetSeeks ==
  ASSUME NEW ip
  PROVE  tcccrash_symget(ip) = (CHOOSE f : Sought(ip, Max(Tags \cup {0}), f))[Max(Tags \cup {0})]
BY Zenon DEF tcccrash_symget, Sought, Seek, Candidate, NearerThan

\* Such a function exists, however many tags there are.
LEMMA SoughtExists ==
  ASSUME NEW ip, NEW last \in Nat
  PROVE  \E f : Sought(ip, last, f)
<1> DEFINE Bad == {n \in Nat : ~\E f : Sought(ip, n - 1, f)}
<1>1. CASE Bad # {}
  <2>1. PICK n \in Bad : \A m \in Bad : n <= m
    <3>1. Bad \in SUBSET Nat
      OBVIOUS
    <3> HIDE DEF Bad
    <3> QED
      BY <1>1, <3>1, LeastNumber
  <2>2. n \in Nat /\ ~\E f : Sought(ip, n - 1, f)
    OBVIOUS
  <2>3. CASE n = 0
    <3> DEFINE f == [g \in -1 .. -1 |-> [ret |-> NoInfo, mindiff |-> 0]]
    <3>1. Sought(ip, -1, f)
      <4>1. \A g \in -1 .. -1 : Seek(ip, f, g) = [ret |-> NoInfo, mindiff |-> 0]
        BY DEF Seek
      <4> QED
        BY <4>1 DEF Sought
    <3> QED
      BY <2>2, <2>3, <3>1
  <2>4. CASE n # 0
    <3>1. n - 1 \in Nat /\ ~(n <= n - 1)
      BY <2>2, <2>4
    <3>2. n - 1 \notin Bad
      BY <2>1, <3>1
    <3>3. PICK f : Sought(ip, n - 2, f)
      BY <3>1, <3>2
    <3> DEFINE h == [g \in -1 .. n - 1 |-> Seek(ip, f, g)]
    <3>4. \A g \in -1 .. n - 2 : h[g] = f[g]
      BY <2>2, <3>3 DEF Sought
    <3>5. \A g \in -1 .. n - 1 : Seek(ip, h, g) = Seek(ip, f, g)
      <4> HIDE DEF h
      <4> SUFFICES ASSUME NEW g \in -1 .. n - 1, g # -1
                   PROVE  Seek(ip, h, g) = Seek(ip, f, g)
        BY DEF Seek
      <4>1. h[g - 1] = f[g - 1]
        BY <2>2, <3>4
      <4> QED
        BY <4>1, Zenon DEF Seek
    <3>6. Sought(ip, n - 1, h)
      <4>1. h = [g \in -1 .. n - 1 |-> Seek(ip, h, g)]
        BY <3>5, Zenon
      <4> QED
        BY <4>1, Zenon DEF Sought
    <3> QED
      BY <2>2, <3>6
  <2> QED
    BY <2>3, <2>4
<1>2. CASE Bad = {}
  <2>1. last + 1 \in Nat /\ (last + 1) - 1 = last
    OBVIOUS
  <2> QED
    BY <1>2, <2>1
<1> QED
  BY <1>1, <1>2

\* What the loop has found among the tags up to g
Upto(ip, g) == {h \in Offers(ip) : h <= g}
Seen(ip, g, best) == Finds(ip, Upto(ip, g), best)

LEMMA DiffIs ==
  ASSUME Registered, NEW ip \in Nat, NEW g, Candidate(ip, g)
  PROVE  /\ g \in Nat /\ g <= Max(Tags \cup {0}) /\ Diff(g, ip) \in Nat
         /\ Symbols # {} /\ Diff(g, ip) = 0 => Near(g, ip)
<1>1. g \in Tags \cup {0} /\ DOMAIN symroot[g] \subseteq Nat
  BY DEF Registered, Addressed, Candidate
<1>2. Below(g, ip) \in SUBSET Nat /\ Below(g, ip) # {} /\ \A a \in Below(g, ip) : a <= ip
  BY <1>1 DEF Below, Candidate
<1>3. Max(Below(g, ip)) \in Below(g, ip)
  BY <1>2, LargestNumber, Zenon
<1>4. Diff(g, ip) \in Nat
  BY <1>2, <1>3 DEF Diff
<1>5. ASSUME Symbols # {}, Diff(g, ip) = 0
      PROVE  Near(g, ip)
  <2>1. Floor(g, ip) \in Infos
    BY <1>3 DEF Floor, Below, Registered, Addressed, Candidate
  <2>2. infos[Floor(g, ip)].symbol \in Symbols
    BY <1>5, <2>1 DEF Registered, CallsHeld, SymbolsHeld
  <2>3. infos[Floor(g, ip)].symbol.size \in Nat
    BY <2>2, SymbolAssumption
  <2> QED
    BY <1>5, <2>3 DEF Near
<1> QED
  BY <1>1, <1>4, <1>5, LastTag

\* Another tag, after those already seen, by what was found among those
LEMMA FirstOffer ==
  ASSUME NEW ip, NEW g \in Nat, Diff(g, ip) \in Nat
  PROVE  Wins(g, ip, {g})
<1>1. CASE Diff(g, ip) = 0
  <2>1. Since(ip, {g}) = {}
    BY <1>1 DEF Since
  <2> QED
    BY <1>1, <2>1 DEF Wins
<1>2. CASE Diff(g, ip) # 0
  <2>1. Since(ip, {g}) = {g}
    BY <1>2 DEF Since
  <2>2. Counting(ip, {g}) = {g}
    BY <2>1 DEF Counting
  <2> QED
    BY <2>1, <2>2 DEF Wins
<1> QED
  BY <1>1, <1>2

LEMMA NextOffer ==
  ASSUME NEW ip, NEW T \in SUBSET Nat, NEW g \in Nat, \A h \in T : h < g,
         \A h \in T \cup {g} : Diff(h, ip) \in Nat, Diff(g, ip) = 0 => Near(g, ip),
         NEW k \in T, Wins(k, ip, T)
  PROVE  LET nearer == Diff(k, ip) = 0 \/ (Diff(g, ip) < Diff(k, ip) /\ Near(g, ip))
         IN Wins(IF nearer THEN g ELSE k, ip, T \cup {g})
<1> DEFINE nearer == Diff(k, ip) = 0 \/ (Diff(g, ip) < Diff(k, ip) /\ Near(g, ip))
           U == T \cup {g}
<1>0. g \notin T /\ \A h \in T : h \in Nat /\ h < g /\ ~(g < h)
  OBVIOUS
<1>a. \A h \in U : ~(g < h)
  BY <1>0
<1>1. CASE Diff(g, ip) = 0
  <2>1. Since(ip, U) = {}
    <3>1. \A h \in U : \E e \in U : Diff(e, ip) = 0 /\ ~(e < h)
      BY <1>a, <1>1
    <3> HIDE DEF U
    <3> QED
      BY <3>1 DEF Since
  <2>2. CASE Since(ip, T) = {}
    <3>1. Diff(k, ip) = 0
      BY <2>2 DEF Wins
    <3> QED
      BY <1>1, <2>1, <3>1 DEF Wins
  <2>3. CASE Diff(k, ip) = 0
    BY <1>1, <2>1, <2>3 DEF Wins
  <2>4. CASE Since(ip, T) # {} /\ Diff(k, ip) # 0
    <3>1. Diff(g, ip) < Diff(k, ip)
      BY <1>1, <2>4
    <3>2. Near(g, ip)
      BY <1>1
    <3> QED
      BY <1>1, <2>1, <3>1, <3>2 DEF Wins
  <2> QED
    BY <2>2, <2>3, <2>4
<1>2. CASE Diff(g, ip) # 0
  <2>1. Since(ip, U) = Since(ip, T) \cup {g}
    BY <1>0, <1>2 DEF Since
  <2>2. CASE Since(ip, T) = {}
    <3>1. Since(ip, U) = {g} /\ Diff(k, ip) = 0
      BY <2>1, <2>2 DEF Wins
    <3>2. Counting(ip, U) = {g}
      BY <3>1 DEF Counting
    <3>3. Wins(g, ip, U)
      BY <3>1, <3>2, <1>0 DEF Wins
    <3> QED
      BY <3>1, <3>3
  <2>3. CASE Since(ip, T) # {}
    <3>1. k \in Counting(ip, T) /\ \A h \in Counting(ip, T) : Diff(k, ip) <= Diff(h, ip)
      BY <2>3 DEF Wins
    <3>2. Since(ip, T) \subseteq T
      BY DEF Since
    <3>3. Diff(k, ip) # 0
      BY <3>1 DEF Counting, Since
    <3>4. ~\A h \in Since(ip, U) : g <= h
      <4>1. PICK h : h \in Since(ip, T)
        BY <2>3
      <4>2. h \in Since(ip, U)
        BY <2>1, <4>1
      <4>3. h \in T
        BY <3>2, <4>1
      <4>4. h \in Nat /\ h < g
        BY <1>0, <4>3
      <4>5. ~(g <= h)
        BY <4>4
      <4> HIDE DEF U
      <4> QED
        BY <4>2, <4>5
    <3>5. \A h \in Since(ip, T) :
            (\A i \in Since(ip, U) : h <= i) <=> (\A i \in Since(ip, T) : h <= i)
      <4>1. \A h \in Since(ip, T) : h <= g
        <5>1. TAKE h \in Since(ip, T)
        <5>2. h \in T
          BY <3>2
        <5>3. h \in Nat /\ h < g
          BY <1>0, <5>2
        <5> QED
          BY <5>3
      <4> QED
        BY <2>1, <4>1
    <3>6. \A h : h \in Counting(ip, U) <=> h \in Counting(ip, T) \/ (h = g /\ Near(g, ip))
      BY <2>1, <3>4, <3>5 DEF Counting
    <3>7. Since(ip, U) # {}
      BY <2>1
    <3>8. Counting(ip, T) \subseteq T
      BY <3>2 DEF Counting
    <3>9. CASE nearer
      <4>1. Diff(g, ip) < Diff(k, ip) /\ Near(g, ip)
        BY <3>3, <3>9
      <4>2. \A h \in Counting(ip, U) : Diff(g, ip) <= Diff(h, ip)
        BY <3>1, <3>6, <3>8, <4>1
      <4> QED
        BY <3>6, <3>7, <3>9, <4>1, <4>2 DEF Wins
    <3>10. CASE ~nearer
      <4>1. \A h \in Counting(ip, U) : Diff(k, ip) <= Diff(h, ip)
        BY <3>1, <3>6, <3>8, <3>10
      <4> QED
        BY <3>1, <3>6, <3>7, <3>10, <4>1 DEF Wins
    <3> QED
      BY <3>9, <3>10
  <2> QED
    BY <2>2, <2>3
<1> QED
  BY <1>1, <1>2

LEMMA SeenOneMore ==
  ASSUME Registered, Symbols # {}, NEW ip \in Nat, NEW g \in Nat, NEW f, Seen(ip, g - 1, f[g - 1])
  PROVE  Seen(ip, g, Seek(ip, f, g))
<1> DEFINE T == Upto(ip, g - 1)
<1>a. PICK best : best = f[g - 1]
  OBVIOUS
<1>0. Finds(ip, T, best)
  BY <1>a DEF Seen
<1>1. \A h \in Offers(ip) : h \in Nat /\ Diff(h, ip) \in Nat
  BY DiffIs DEF Offers, Candidate
<1>2. T \in SUBSET Nat /\ \A h \in T : h < g /\ Diff(h, ip) \in Nat
  BY <1>1 DEF Upto
<1>3. CASE ~Candidate(ip, g)
  <2>1. Upto(ip, g) = T
    BY <1>1, <1>3 DEF Upto, Offers, Candidate
  <2>2. Seek(ip, f, g) = best
    BY <1>a, <1>3 DEF Seek
  <2> QED
    BY <1>0, <2>1, <2>2 DEF Seen
<1>4. CASE Candidate(ip, g)
  <2>1. Upto(ip, g) = T \cup {g} /\ Diff(g, ip) \in Nat
    BY <1>1, <1>4 DEF Upto, Offers, Candidate
  <2>a. Diff(g, ip) = 0 => Near(g, ip)
    BY <1>4, DiffIs
  <2>2. Seek(ip, f, g) = IF NearerThan(ip, g, best)
                         THEN [ret |-> Floor(g, ip), mindiff |-> Diff(g, ip)] ELSE best
    BY <1>a, <1>4 DEF Seek
  <2> HIDE DEF T
  <2>3. CASE T = {}
    <3>1. best = [ret |-> NoInfo, mindiff |-> 0]
      BY <1>0, <2>3 DEF Finds
    <3>2. NearerThan(ip, g, best)
      BY <3>1 DEF NearerThan
    <3>3. Wins(g, ip, {g}) /\ Upto(ip, g) = {g}
      BY <2>1, <2>3, FirstOffer
    <3> QED
      BY <2>2, <3>2, <3>3 DEF Seen, Finds
  <2>4. CASE T # {}
    <3>1. PICK k \in T : best = [ret |-> Floor(k, ip), mindiff |-> Diff(k, ip)] /\ Wins(k, ip, T)
      BY <1>0, <2>4 DEF Finds
    <3> DEFINE nearer == Diff(k, ip) = 0 \/ (Diff(g, ip) < Diff(k, ip) /\ Near(g, ip))
    <3>2. NearerThan(ip, g, best) <=> nearer
      BY <3>1 DEF NearerThan
    <3>3. Wins(IF nearer THEN g ELSE k, ip, T \cup {g})
      <4>1. \A h \in T \cup {g} : Diff(h, ip) \in Nat
        BY <1>2, <2>1
      <4> QED
        BY <1>2, <2>a, <3>1, <4>1, NextOffer
    <3>4. LET w == IF nearer THEN g ELSE k
          IN Seek(ip, f, g) = [ret |-> Floor(w, ip), mindiff |-> Diff(w, ip)]
      BY <2>2, <3>1, <3>2
    <3>5. (IF nearer THEN g ELSE k) \in Upto(ip, g)
      BY <2>1
    <3> HIDE DEF nearer
    <3> QED
      BY <2>1, <3>3, <3>4, <3>5 DEF Seen, Finds
  <2> QED
    BY <2>3, <2>4
<1> QED
  BY <1>3, <1>4

LEMMA SymgetSees ==
  ASSUME Registered, Symbols # {}, NEW ip \in Nat
  PROVE  Seen(ip, Max(Tags \cup {0}), tcccrash_symget(ip))
<1>a. PICK last : last = Max(Tags \cup {0})
  OBVIOUS
<1>b. last \in Nat
  BY <1>a, LastTag
<1> DEFINE f == CHOOSE f : Sought(ip, last, f)
<1>1. Sought(ip, last, f)
  BY <1>b, SoughtExists, Zenon
<1>2. tcccrash_symget(ip) = f[last]
  BY <1>a, SymgetSeeks, Zenon
<1> HIDE DEF f
<1>3. \A g \in -1 .. last : f[g] = Seek(ip, f, g)
  BY <1>1, Zenon DEF Sought
<1> DEFINE Bad == {g \in Nat : g <= last /\ ~Seen(ip, g, f[g])}
<1>4. Seen(ip, -1, f[-1])
  <2>0. -1 \in -1 .. last
    BY <1>b
  <2>a. f[-1] = Seek(ip, f, -1)
    BY <1>3, <2>0, Zenon
  <2>1. f[-1] = [ret |-> NoInfo, mindiff |-> 0]
    BY <2>a, Zenon DEF Seek
  <2>2. Upto(ip, -1) = {}
    BY DiffIs DEF Upto, Offers, Candidate
  <2> QED
    BY <2>1, <2>2 DEF Seen, Finds
<1>5. CASE Bad # {}
  <2>1. PICK n \in Bad : \A m \in Bad : n <= m
    <3>1. Bad \in SUBSET Nat
      OBVIOUS
    <3> HIDE DEF Bad
    <3> QED
      BY <1>5, <3>1, LeastNumber
  <2>2. n \in Nat /\ n <= last /\ ~Seen(ip, n, f[n])
    OBVIOUS
  <2>3. Seen(ip, n - 1, f[n - 1])
    <3>1. CASE n = 0
      BY <1>4, <3>1
    <3>2. CASE n # 0
      <4>1. n - 1 \in Nat /\ n - 1 <= last /\ ~(n <= n - 1)
        BY <1>b, <2>2, <3>2
      <4> QED
        BY <2>1, <4>1
    <3> QED
      BY <3>1, <3>2
  <2>4. Seen(ip, n, Seek(ip, f, n))
    BY <2>2, <2>3, SeenOneMore
  <2>5. f[n] = Seek(ip, f, n)
    BY <1>b, <1>3, <2>2
  <2> QED
    BY <2>2, <2>4, <2>5
<1>6. CASE Bad = {}
  <2>1. Seen(ip, last, f[last])
    BY <1>b, <1>6
  <2> QED
    BY <1>a, <1>2, <2>1
<1> QED
  BY <1>5, <1>6

\* Which symbol tcccrash_symget answers with, in every state that other
\* threads and signals can leave the index in: of the symbols that the tags
\* offer since the last one with a symbol at the address itself, the nearest
\* among the first and those the address is within 16 bytes of.
THEOREM NearestAlwaysFound == Spec => []NearestFound
<1>1. Registered => NearestFound
  <2> SUFFICES ASSUME Registered, NEW ip \in Probes
               PROVE  Finds(ip, Offers(ip), tcccrash_symget(ip))
    BY DEF NearestFound
  <2>1. ip \in Nat /\ Symbols # {}
    BY SymbolAssumption DEF Probes
  <2>2. Seen(ip, Max(Tags \cup {0}), tcccrash_symget(ip))
    BY <2>1, SymgetSees
  <2>3. Upto(ip, Max(Tags \cup {0})) = Offers(ip)
    BY <2>1, DiffIs DEF Upto, Offers, Candidate
  <2> QED
    BY <2>2, <2>3 DEF Seen
<1> QED
  BY <1>1, AlwaysRegistered, PTL
=============================================================================
