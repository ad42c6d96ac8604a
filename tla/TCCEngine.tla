------------------------------ MODULE TCCEngine ------------------------------
(***************************************************************************)
(* src/tccengine/tccengine.c: scripts compiled at run time by TinyCC and   *)
(* compiled again when their files change.  TinyCC may be used by one      *)
(* thread at a time, so every operation takes one global, recursive mutex. *)
(* The callbacks popfn, postfn and init run with the mutex held and may    *)
(* take and release it again, which leaves it as it was; stop and start    *)
(* run without it.                                                         *)
(*                                                                         *)
(* An engine is named by its main file and used by one thread, as in       *)
(* example_host.c.  TCCStates and images are numbers, 0 is the null        *)
(* pointer.  What a file holds is what compiling it comes to.              *)
(***************************************************************************)
EXTENDS Naturals, FiniteSets

CONSTANTS
  Threads,
  NoThread,             \* nobody holds the mutex
  Files,
  Engines,              \* each named as its main file
  Owner,                \* the thread that uses an engine
  AttachedFiles,        \* the files an engine watches and includes besides
  MAX_ATTACHED_FILES,
  Contents,             \* what a file may hold
  MaxWrites             \* bound: how often files are written

\* "bare" has init but no start and stop; "broken" does not compile; "unlinkable"
\* compiles and cannot be relocated.
Kinds == {"good", "bare", "broken", "unlinkable"}

ASSUME EngineAssumption ==
  /\ Engines # {}
  /\ NoThread \notin Threads
  /\ Engines \subseteq Files
  /\ Owner \in [Engines -> Threads]
  /\ AttachedFiles \in [Engines -> SUBSET Files]
  /\ MAX_ATTACHED_FILES \in Nat
  /\ Contents \in [Files -> SUBSET Kinds]
  /\ MaxWrites \in Nat

VARIABLES
  owner, depth,     \* TCCMutex
  pc,               \* where each thread is; "idle" outside of the engine
  job,              \* its call: engine, `first`, what compiling came to
  noted,            \* its `time`, read before the comparison
  eng,              \* the engines
  states, images,   \* TCCStates and images that are allocated
  time, content,    \* of each file
  writes

fileVars == <<time, content, writes>>
memVars == <<eng, states, images>>
vars == <<owner, depth, pc, job, noted, memVars, fileVars>>

Sources(e) == {e} \cup AttachedFiles[e]
Holds(e, c) == \E f \in Sources(e) : content[f] = c
E(t) == job[t].engine
NoTimes == [f \in Files |-> 0]

\* The state, backup and image of no engine, and entry points of no script.
\* `running`: the image whose start was called and whose stop was not.
\* Only for the properties: `tried`, the times of the files that were last
\* compiled, and `inited`, whether init was called.
NoEngine == [live |-> FALSE, state |-> 0, backuptcc |-> 0, image |-> 0,
             script |-> "none", seen |-> NoTimes, tried |-> NoTimes,
             running |-> 0, inited |-> FALSE]

\* malloc: some number that is free.
Fresh(used) == CHOOSE n \in 1 .. Cardinality(used) + 1 : n \notin used

-----------------------------------------------------------------------------
(* The mutex.                                                              *)

LockFree(t) == owner \in {NoThread, t}

Lock(t) == /\ LockFree(t)
           /\ owner' = t
           /\ depth' = depth + 1

Unlock == /\ depth' = depth - 1
          /\ owner' = IF depth = 1 THEN NoThread ELSE owner

KeepLock == UNCHANGED <<owner, depth>>

NoJob == [engine |-> CHOOSE e \in Engines : TRUE, first |-> FALSE,
          script |-> "none"]

Goto(t, stage) == pc' = [pc EXCEPT ![t] = stage]
Return(t) == Goto(t, "idle") /\ job' = [job EXCEPT ![t] = NoJob]
Store(e, record) == eng' = [eng EXCEPT ![e] = record]

-----------------------------------------------------------------------------
Init ==
  /\ owner = NoThread /\ depth = 0
  /\ pc = [t \in Threads |-> "idle"]
  /\ job = [t \in Threads |-> NoJob]
  /\ noted = [t \in Threads |-> NoTimes]
  /\ eng = [e \in Engines |-> NoEngine]
  /\ states = {} /\ images = {}
  /\ time = [f \in Files |-> 1]
  /\ content \in {c \in [Files -> Kinds] : \A f \in Files : c[f] \in Contents[f]}
  /\ writes = 0

\* Another program writes a file.  Times are whole seconds, so a second
\* write may leave the time as it is.
Write(f) ==
  /\ writes < MaxWrites
  /\ writes' = writes + 1
  /\ \E c \in Contents[f] : content' = [content EXCEPT ![f] = c]
  /\ \E s \in {0, 1} : time' = [time EXCEPT ![f] = @ + s]
  /\ UNCHANGED <<owner, depth, pc, job, noted, memVars>>

\* A thread calls TCCECreate or TCCECheck.
Call(t, e, stage) ==
  /\ pc[t] = "idle"
  /\ Owner[e] = t
  /\ Goto(t, stage)
  /\ job' = [job EXCEPT ![t] = [engine |-> e, first |-> stage = "create",
                                script |-> "none"]]
  /\ KeepLock
  /\ UNCHANGED <<noted, memVars, fileVars>>

CallCreate(t, e) == ~eng[e].live /\ Call(t, e, "create")
CallCheck(t, e) == eng[e].live /\ Call(t, e, "check")

-----------------------------------------------------------------------------
(* TCCECreate.  Only memory of its own is touched between lock and unlock. *)

CreateRefused(t) ==
  /\ pc[t] = "create"
  /\ LockFree(t)
  /\ Cardinality(AttachedFiles[E(t)]) > MAX_ATTACHED_FILES
  /\ Return(t)
  /\ KeepLock
  /\ UNCHANGED <<noted, memVars, fileVars>>

TCCECreate(t) ==
  /\ pc[t] = "create"
  /\ LockFree(t)
  /\ Cardinality(AttachedFiles[E(t)]) <= MAX_ATTACHED_FILES
  /\ Store(E(t), [NoEngine EXCEPT !.live = TRUE])
  /\ Goto(t, "check")
  /\ KeepLock
  /\ UNCHANGED <<job, noted, states, images, fileVars>>

-----------------------------------------------------------------------------
(* TCCECheck, from lock to lock and callback to callback.                  *)

\* Lock, and read the times of the attached files a first time.
CheckLock(t) ==
  /\ pc[t] = "check"
  /\ Lock(t)
  /\ noted' = [noted EXCEPT ![t] = [f \in Files |->
                 IF f \in AttachedFiles[E(t)] THEN time[f] ELSE 0]]
  /\ Goto(t, "files")
  /\ UNCHANGED <<job, memVars, fileVars>>

\* Mutant: only the main file is watched.
Changed_Never(e) == {}

\* The attached files whose time, read a second time, is not the one seen.
Changed(e) == {f \in AttachedFiles[e] : time[f] # eng[e].seen[f]}

CheckSame(t) ==
  /\ pc[t] = "files"
  /\ Changed(E(t)) = {} /\ time[E(t)] = eng[E(t)].seen[E(t)]
  /\ Unlock
  /\ noted' = [noted EXCEPT ![t] = NoTimes]
  /\ Return(t)
  /\ UNCHANGED <<memVars, fileVars>>

SeenTimes(t, e) ==
  [f \in Files |-> IF f = e THEN time[e]
                   ELSE IF f \in Changed(e) THEN noted[t][f]
                   ELSE eng[e].seen[f]]

CheckNew(t) ==
  LET e == E(t)  h == eng[e]  s == Fresh(states) IN
  /\ pc[t] = "files"
  /\ ~ (Changed(e) = {} /\ time[e] = h.seen[e])
  /\ Store(e, [h EXCEPT !.seen = SeenTimes(t, e), !.backuptcc = h.state,
                        !.state = s])
  /\ states' = states \cup {s}
  /\ noted' = [noted EXCEPT ![t] = NoTimes]
  /\ Goto(t, "compile")
  /\ KeepLock
  /\ UNCHANGED <<job, images, fileVars>>

\* tcc_add_file reads the files, which may have been written since.
TimesTried(e) == [f \in Files |-> IF f \in Sources(e) THEN time[f] ELSE 0]

\* Mutant: a file that does not compile is read again at once.
CompileFails_Retries(t) ==
  /\ pc[t] = "compile"
  /\ Holds(E(t), "broken")
  /\ Store(E(t), [eng[E(t)] EXCEPT !.tried = TimesTried(E(t))])
  /\ KeepLock
  /\ UNCHANGED <<pc, job, noted, states, images, fileVars>>

CompileFails(t) ==
  /\ pc[t] = "compile"
  /\ Holds(E(t), "broken")
  /\ Store(E(t), [eng[E(t)] EXCEPT !.tried = TimesTried(E(t))])
  /\ Unlock
  /\ Goto(t, "discard")
  /\ UNCHANGED <<job, noted, states, images, fileVars>>

Compile(t) ==
  LET e == E(t) IN
  /\ pc[t] = "compile"
  /\ ~ Holds(e, "broken")
  /\ Store(e, [eng[e] EXCEPT !.tried = TimesTried(e)])
  /\ job' = [job EXCEPT ![t].script =
               IF Holds(e, "unlinkable") THEN "unlinkable" ELSE content[e]]
  /\ Goto(t, "relocate")
  /\ KeepLock
  /\ UNCHANGED <<noted, states, images, fileVars>>

\* The error path jumps past the unlock: the mutex stays with the thread.
RelocateFails(t) ==
  /\ pc[t] = "relocate"
  /\ job[t].script = "unlinkable"
  /\ Goto(t, "discard")
  /\ KeepLock
  /\ UNCHANGED <<job, noted, memVars, fileVars>>

\* Mutant: the new script decides whether stop is called.
Stopping_New(t) == job[t].script = "good"

\* The script that is linked has a stop function: release the mutex for it.
Stopping(t) == eng[E(t)].script = "good"

RelocateStop(t) ==
  /\ pc[t] = "relocate"
  /\ job[t].script # "unlinkable"
  /\ Stopping(t)
  /\ Unlock
  /\ Goto(t, "stop")
  /\ UNCHANGED <<job, noted, memVars, fileVars>>

RelocateOnly(t) ==
  /\ pc[t] = "relocate"
  /\ job[t].script # "unlinkable"
  /\ ~Stopping(t)
  /\ Goto(t, "link")
  /\ KeepLock
  /\ UNCHANGED <<job, noted, memVars, fileVars>>

\* Mutant: the mutex is not taken again after stop.
Stop_NoRelock(t) ==
  /\ pc[t] = "stop"
  /\ Store(E(t), [eng[E(t)] EXCEPT !.running = 0])
  /\ Goto(t, "link")
  /\ KeepLock
  /\ UNCHANGED <<job, noted, states, images, fileVars>>

Stop(t) ==
  /\ pc[t] = "stop"
  /\ Store(E(t), [eng[E(t)] EXCEPT !.running = 0])
  /\ Goto(t, "relock")
  /\ KeepLock
  /\ UNCHANGED <<job, noted, states, images, fileVars>>

Relock(t) ==
  /\ pc[t] = "relock"
  /\ Lock(t)
  /\ Goto(t, "link")
  /\ UNCHANGED <<job, noted, memVars, fileVars>>

\* Put the new image, its entry points and its state in the old ones' place.
\* backuptcc keeps pointing to the state that is deleted.
Link(t) ==
  LET e == E(t)  h == eng[e]  i == Fresh(images) IN
  /\ pc[t] = "link"
  /\ Store(e, [h EXCEPT !.image = i, !.script = job[t].script,
                        !.inited = @ \/ job[t].first])
  /\ images' = (images \cup {i}) \ {h.image}
  /\ states' = states \ {h.backuptcc}
  /\ Unlock
  /\ Goto(t, "start")
  /\ UNCHANGED <<job, noted, fileVars>>

Start(t) ==
  LET h == eng[E(t)] IN
  /\ pc[t] = "start"
  /\ Store(E(t), [h EXCEPT !.running = IF h.script = "good" THEN h.image ELSE @])
  /\ Return(t)
  /\ KeepLock
  /\ UNCHANGED <<noted, states, images, fileVars>>

\* Mutant: the backup is not put back.
Discard_NoRestore(t) ==
  LET h == eng[E(t)] IN
  /\ pc[t] = "discard"
  /\ states' = states \ {h.state}
  /\ Return(t)
  /\ KeepLock
  /\ UNCHANGED <<eng, noted, images, fileVars>>

\* end_err: on the path from CompileFails the mutex has been released before.
Discard(t) ==
  LET h == eng[E(t)] IN
  /\ pc[t] = "discard"
  /\ states' = states \ {h.state}
  /\ Store(E(t), [h EXCEPT !.state = h.backuptcc])
  /\ Return(t)
  /\ KeepLock
  /\ UNCHANGED <<noted, images, fileVars>>

-----------------------------------------------------------------------------
(* The other calls hand the engine's state to TinyCC, so they need one:    *)
(* after a first compilation that failed there is none.                    *)

Enter(t, e, stage) ==
  /\ pc[t] = "idle"
  /\ Owner[e] = t
  /\ eng[e].live /\ eng[e].state # 0
  /\ Lock(t)
  /\ Goto(t, stage)
  /\ job' = [job EXCEPT ![t].engine = e]
  /\ UNCHANGED <<noted, memVars, fileVars>>

\* TCCEGetSym, TCCESetSym and TCCSetDefine: one call of TinyCC.
EnterSymbol(t, e) == Enter(t, e, "symbol")

Symbol(t) ==
  /\ pc[t] = "symbol"
  /\ Unlock
  /\ Return(t)
  /\ UNCHANGED <<noted, memVars, fileVars>>

EnterDestroy(t, e) == Enter(t, e, "destroy")

\* Stop is not called.
TCCEDestroy(t) ==
  /\ pc[t] = "destroy"
  /\ states' = states \ {eng[E(t)].state}
  /\ images' = images \ {eng[E(t)].image}
  /\ Store(E(t), NoEngine)
  /\ Unlock
  /\ Return(t)
  /\ UNCHANGED <<noted, fileVars>>

-----------------------------------------------------------------------------
\* What a thread does next without waiting for the mutex.
Proceed(t) ==
  \/ CheckSame(t) \/ CheckNew(t)
  \/ CompileFails(t) \/ Compile(t)
  \/ RelocateFails(t) \/ RelocateStop(t) \/ RelocateOnly(t)
  \/ Stop(t) \/ Link(t) \/ Start(t) \/ Discard(t)
  \/ Symbol(t) \/ TCCEDestroy(t)

Acquire(t) == CreateRefused(t) \/ TCCECreate(t) \/ CheckLock(t) \/ Relock(t)

Begin(t, e) == \/ CallCreate(t, e) \/ CallCheck(t, e)
               \/ EnterSymbol(t, e) \/ EnterDestroy(t, e)

Next ==
  \/ \E t \in Threads : \/ Proceed(t) \/ Acquire(t)
                        \/ \E e \in Engines : Begin(t, e)
  \/ \E f \in Files : Write(f)

Spec == Init /\ [][Next]_vars

\* A call that is under way goes on; the mutex is granted again and again to
\* a thread that waits for it; and the host checks an engine again and again.
Fairness ==
  /\ \A t \in Threads : WF_vars(Proceed(t)) /\ SF_vars(Acquire(t))
  /\ \A e \in Engines : SF_vars(CallCheck(Owner[e], e))

FairSpec == Spec /\ Fairness

-----------------------------------------------------------------------------
(* Properties.                                                             *)

Stages == {"idle", "create", "check", "files", "compile", "relocate", "stop",
           "relock", "link", "start", "discard", "symbol", "destroy"}

EngineRecord ==
  [live : BOOLEAN, state : Nat, backuptcc : Nat, image : Nat,
   script : {"none", "good", "bare"}, seen : [Files -> Nat],
   tried : [Files -> Nat], running : Nat, inited : BOOLEAN]

\* Types: the mutex is held exactly when it has been locked more often than
\* released, and what is linked is never a script that failed to compile.
TypeOK ==
  /\ owner \in Threads \cup {NoThread}
  /\ depth \in Nat /\ (depth = 0 <=> owner = NoThread)
  /\ pc \in [Threads -> Stages]
  /\ job \in [Threads -> [engine : Engines, first : BOOLEAN,
                          script : {"none", "good", "bare", "unlinkable"}]]
  /\ noted \in [Threads -> [Files -> Nat]]
  /\ eng \in [Engines -> EngineRecord]
  /\ states \subseteq Nat /\ images \subseteq Nat
  /\ time \in [Files -> Nat]
  /\ content \in [Files -> Kinds]
  /\ writes \in 0 .. MaxWrites

\* In TinyCC, or with its hands on what TinyCC made.
InCompiler(t) == pc[t] \in {"compile", "relocate", "link", "symbol", "destroy"}

\* tccengine.c:38 wants one thread in TinyCC at a time, and so it is but
\* for the deletion of a state that did not compile ("discard"): whoever is
\* in TinyCC holds the mutex, through reloads that give it up for stop.
CompilerLocked ==
  \A t \in Threads :
    InCompiler(t) => owner = t /\ depth > 0

\* The engine's owner is in the middle of its reload.
Reloading(e) == /\ E(Owner[e]) = e
                /\ pc[Owner[e]] \in {"compile", "relocate", "stop", "relock",
                                     "link", "discard"}

StatesOf(e) == ({eng[e].state} \cup
                IF Reloading(e) THEN {eng[e].backuptcc} ELSE {}) \ {0}

\* Nothing leaks and nothing dangles, on any path of a reload: the TCCStates
\* that exist are those of the engines, with the backups of the engines that
\* reload, each once; and the images are those of the engines.
MemoryHeld ==
  /\ states = UNION {StatesOf(e) : e \in Engines}
  /\ images = {eng[e].image : e \in Engines} \ {0}
  /\ \A e, f \in Engines : e # f =>
       /\ StatesOf(e) \cap StatesOf(f) = {}
       /\ eng[e].image # 0 => eng[e].image # eng[f].image
  /\ \A e \in Engines : Reloading(e) => eng[e].state # eng[e].backuptcc

\* A script that was started and not stopped is the one that is linked: its
\* code is not freed under it, and no second script is started beside it.
RunningLinked ==
  \A e \in Engines : eng[e].running # 0 =>
    eng[e].running = eng[e].image /\ eng[e].running \in images

\* The mutex is kept by a thread that will never release it.
Stuck(t) == owner \notin {t, NoThread} /\ pc[owner] = "idle"

\* A check that was called returns, unless another thread left with the mutex.
ChecksReturn ==
  \A t \in Threads : pc[t] = "check" ~> pc[t] = "idle" \/ Stuck(t)

\* A file that bears another time than the one compiled is compiled before
\* long, in whatever stage of a reload it was written.
ScriptsCurrent ==
  \A e \in Engines : \A f \in Sources(e) :
    (eng[e].live /\ eng[e].tried[f] # time[f])
      ~> \/ ~eng[e].live \/ eng[e].tried[f] = time[f] \/ Stuck(Owner[e])

=============================================================================
