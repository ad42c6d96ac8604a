------------------------------ MODULE TCCProofs ------------------------------
(***************************************************************************)
(* Proofs about TCCEngine for every set of threads, engines and files:     *)
(* types, TinyCC used under the mutex, memory owned exactly once, and      *)
(* started scripts linked.                                                 *)
(***************************************************************************)
EXTENDS TCCEngine, FiniteSetTheorems, TLAPS

USE EngineAssumption

\* Stages in which the thread holds the mutex.
Holding == {"files", "compile", "relocate", "link", "symbol", "destroy"}

HoldersOwn == \A t \in Threads : pc[t] \in Holding => owner = t

\* A thread works on an engine of its own, and goes past relocation only
\* with a script that could be relocated.
JobsFit ==
  \A t \in Threads :
    /\ pc[t] # "idle" => Owner[E(t)] = t
    /\ pc[t] \in {"stop", "relock", "link"} => job[t].script # "unlinkable"

Finite == IsFiniteSet(states) /\ IsFiniteSet(images)

TypeInv == TypeOK /\ Finite /\ HoldersOwn /\ JobsFit

-----------------------------------------------------------------------------
\* What malloc returns is a free address that is not null.
LEMMA FreshIsFree ==
  ASSUME NEW used, IsFiniteSet(used)
  PROVE  Fresh(used) \in Nat \ {0} /\ Fresh(used) \notin used
<1> DEFINE n == Cardinality(used)
<1>1. n \in Nat
  BY FS_CardinalityType
<1>2. IsFiniteSet(1 .. n + 1) /\ Cardinality(1 .. n + 1) = n + 1
  BY <1>1, FS_Interval
<1>3. \E k \in 1 .. n + 1 : k \notin used
  <2>1. SUFFICES ASSUME 1 .. n + 1 \subseteq used
                 PROVE  FALSE
    OBVIOUS
  <2>2. Cardinality(1 .. n + 1) <= n
    BY <2>1, FS_Subset
  <2> QED
    BY <1>1, <1>2, <2>2
<1>4. Fresh(used) \in 1 .. n + 1 /\ Fresh(used) \notin used
  BY <1>3 DEF Fresh
<1> QED
  BY <1>1, <1>4

\* The job of a thread that is idle is a record of the right type.
LEMMA NoJobType == NoJob \in [engine : Engines, first : BOOLEAN,
                              script : {"none", "good", "bare", "unlinkable"}]
BY DEF NoJob

\* An engine that has just been cleared is a record of the right type.
LEMMA NoEngineType == NoEngine \in EngineRecord
BY DEF NoEngine, NoTimes, EngineRecord

\* A thread that releases the mutex leaves nobody behind who counts on it.
LEMMA UnlockStep ==
  ASSUME TypeOK, HoldersOwn, NEW t \in Threads, pc[t] \in Holding, Unlock,
         NEW s \in Stages \ Holding, Goto(t, s)
  PROVE  /\ owner' \in Threads \cup {NoThread}
         /\ depth' \in Nat /\ (depth' = 0 <=> owner' = NoThread)
         /\ pc' \in [Threads -> Stages]
         /\ HoldersOwn'
<1>1. owner = t /\ depth > 0 /\ depth \in Nat
  BY DEF HoldersOwn, TypeOK
<1>2. \A u \in Threads : u # t => pc[u] \notin Holding
  BY <1>1 DEF HoldersOwn
<1>3. \A u \in Threads : pc'[u] \notin Holding
  BY <1>2 DEF Goto, TypeOK
<1> QED
  BY <1>1, <1>3 DEF Unlock, Goto, TypeOK, HoldersOwn

\* A thread that takes the mutex finds nobody else in a stage that needs it.
LEMMA LockStep ==
  ASSUME TypeOK, HoldersOwn, NEW t \in Threads, Lock(t),
         NEW s \in Stages, Goto(t, s)
  PROVE  /\ owner' \in Threads \cup {NoThread}
         /\ depth' \in Nat /\ (depth' = 0 <=> owner' = NoThread)
         /\ pc' \in [Threads -> Stages]
         /\ HoldersOwn'
<1>1. \A u \in Threads : u # t => pc[u] \notin Holding
  BY DEF Lock, LockFree, HoldersOwn
<1> QED
  BY <1>1 DEF Lock, LockFree, Goto, TypeOK, HoldersOwn

\* A thread that keeps the mutex may stay in such stages and leave them.
LEMMA KeepStep ==
  ASSUME TypeOK, HoldersOwn, NEW t \in Threads, KeepLock,
         NEW s \in Stages, Goto(t, s), s \in Holding => pc[t] \in Holding
  PROVE  /\ owner' \in Threads \cup {NoThread}
         /\ depth' \in Nat /\ (depth' = 0 <=> owner' = NoThread)
         /\ pc' \in [Threads -> Stages]
         /\ HoldersOwn'
BY DEF KeepLock, Goto, TypeOK, HoldersOwn

JobRecord == [engine : Engines, first : BOOLEAN,
              script : {"none", "good", "bare", "unlinkable"}]

\* Every thread has a job of the right type.
LEMMA JobType ==
  ASSUME TypeOK, NEW t \in Threads
  PROVE  job[t] \in JobRecord
BY DEF TypeOK, JobRecord

\* Changing the engine or the script of a job keeps its type.
LEMMA FieldOfJob ==
  ASSUME NEW j \in JobRecord
  PROVE  /\ \A e \in Engines : [j EXCEPT !.engine = e] \in JobRecord
         /\ \A c \in {"none", "good", "bare", "unlinkable"} :
              [j EXCEPT !.script = c] \in JobRecord
BY DEF JobRecord

\* A job that goes on, and one that ends.
LEMMA JobGoesOn ==
  ASSUME TypeOK, JobsFit, NEW t \in Threads, pc[t] # "idle", UNCHANGED job,
         NEW s \in Stages, Goto(t, s),
         s \in {"stop", "relock", "link"} => job[t].script # "unlinkable"
  PROVE  job' \in [Threads -> JobRecord] /\ JobsFit'
BY DEF TypeOK, JobsFit, Goto, E, JobRecord

\* A call that returns leaves an empty job.
LEMMA JobEnds ==
  ASSUME TypeOK, JobsFit, NEW t \in Threads, Return(t)
  PROVE  job' \in [Threads -> JobRecord] /\ JobsFit'
<1>1. job' \in [Threads -> JobRecord]
  BY NoJobType DEF TypeOK, Return, JobRecord
<1>2. pc' = [pc EXCEPT ![t] = "idle"] /\ job' = [job EXCEPT ![t] = NoJob]
  BY DEF Return, Goto
<1> QED
  BY <1>1, <1>2 DEF TypeOK, JobsFit, E

\* Storing a record in the table of engines.
LEMMA StoreType ==
  ASSUME TypeOK, NEW e \in Engines, NEW h \in EngineRecord, Store(e, h)
  PROVE  eng' \in [Engines -> EngineRecord]
BY DEF TypeOK, Store

-----------------------------------------------------------------------------
\* Every step keeps the types and who holds the mutex.

\* At the start nobody holds the mutex and nothing is allocated.
LEMMA TypeInit == Init => TypeInv
<1> SUFFICES ASSUME Init PROVE TypeInv
  OBVIOUS
<1>1. IsFiniteSet({})
  BY FS_EmptySet
<1>2. TypeOK
  BY NoJobType, NoEngineType DEF Init, TypeOK, Stages, NoTimes
<1> QED
  BY <1>1, <1>2 DEF Init, TypeInv, Finite, HoldersOwn, Holding, JobsFit

\* The beginning of a call.
LEMMA TypeCalls ==
  ASSUME TypeInv, NEW t \in Threads, NEW e \in Engines, Begin(t, e)
  PROVE  TypeInv'
<1> USE DEF TypeInv, Stages, Holding
<1>1. ASSUME NEW s \in {"create", "check"}, Call(t, e, s)
      PROVE  TypeInv'
  <2>1. job' \in [Threads -> JobRecord] /\ JobsFit'
    BY <1>1 DEF Call, Goto, TypeOK, JobRecord, JobsFit, E
  <2> QED
    BY <1>1, <2>1, KeepStep DEF Call, TypeOK, Finite, JobRecord, memVars, fileVars
<1>2. ASSUME NEW s \in {"symbol", "destroy"}, Enter(t, e, s)
      PROVE  TypeInv'
  <2>1. job' \in [Threads -> JobRecord] /\ JobsFit'
    <3>1. /\ job' = [job EXCEPT ![t] = [job[t] EXCEPT !.engine = e]]
          /\ Owner[e] = t /\ pc' = [pc EXCEPT ![t] = s]
      BY <1>2 DEF Enter, Goto, TypeOK
    <3>2. [job[t] EXCEPT !.engine = e] \in JobRecord
      BY JobType, FieldOfJob
    <3>3. job' \in [Threads -> JobRecord]
      BY <3>1, <3>2 DEF TypeOK, JobRecord
    <3>4. \A u \in Threads : u # t => job'[u] = job[u] /\ pc'[u] = pc[u]
      BY <3>1 DEF TypeOK
    <3>5. job'[t].engine = e /\ pc'[t] = s
      BY <3>1 DEF TypeOK
    <3> QED
      BY <3>1, <3>3, <3>4, <3>5 DEF JobsFit, E
  <2> QED
    BY <1>2, <2>1, LockStep DEF Enter, TypeOK, Finite, JobRecord, memVars, fileVars
<1> QED
  BY <1>1, <1>2 DEF Begin, CallCreate, CallCheck, EnterSymbol, EnterDestroy

\* The steps that wait for the mutex.
LEMMA TypeAcquire ==
  ASSUME TypeInv, NEW t \in Threads, Acquire(t)
  PROVE  TypeInv'
<1> USE DEF TypeInv, Stages, Holding
<1>1. CASE CreateRefused(t)
  BY <1>1, JobEnds, KeepStep
  DEF CreateRefused, Return, TypeOK, Finite, JobRecord, memVars, fileVars
<1>2. CASE TCCECreate(t)
  <2>1. E(t) \in Engines
    BY DEF TypeOK, E
  <2>2. [NoEngine EXCEPT !.live = TRUE] \in EngineRecord
    BY NoEngineType DEF EngineRecord
  <2>3. eng' \in [Engines -> EngineRecord]
    BY <1>2, <2>1, <2>2, StoreType DEF TCCECreate
  <2> QED
    BY <1>2, <2>3, JobGoesOn, KeepStep
    DEF TCCECreate, TypeOK, Finite, JobRecord, fileVars
<1>3. CASE CheckLock(t)
  <2>1. noted' \in [Threads -> [Files -> Nat]]
    BY <1>3 DEF CheckLock, TypeOK
  <2> QED
    BY <1>3, <2>1, JobGoesOn, LockStep
    DEF CheckLock, TypeOK, Finite, JobRecord, memVars, fileVars
<1>4. CASE Relock(t)
  <2>1. job[t].script # "unlinkable"
    BY <1>4 DEF Relock, JobsFit
  <2> QED
    BY <1>4, <2>1, JobGoesOn, LockStep
    DEF Relock, TypeOK, Finite, JobRecord, memVars, fileVars
<1> QED
  BY <1>1, <1>2, <1>3, <1>4 DEF Acquire

\* The steps of a call that is under way.
LEMMA TypeProceed ==
  ASSUME TypeInv, NEW t \in Threads, Proceed(t)
  PROVE  TypeInv'
<1> USE DEF TypeInv, Stages, Holding
<1> DEFINE e == E(t)
           h == eng[e]
<1>1. e \in Engines /\ h \in EngineRecord
  BY DEF TypeOK, E
<1> HIDE DEF e, h
<1>2. CASE CheckSame(t)
  <2>1. noted' \in [Threads -> [Files -> Nat]]
    BY <1>2 DEF CheckSame, TypeOK, NoTimes
  <2> QED
    BY <1>2, <2>1, JobEnds, UnlockStep
    DEF CheckSame, Return, TypeOK, Finite, JobRecord, memVars, fileVars
<1>3. CASE CheckNew(t)
  <2> DEFINE s == Fresh(states)
             r == [h EXCEPT !.seen = SeenTimes(t, e), !.backuptcc = h.state,
                            !.state = s]
  <2>1. s \in Nat
    BY FreshIsFree DEF Finite
  <2>2. SeenTimes(t, e) \in [Files -> Nat]
    BY <1>1 DEF SeenTimes, TypeOK, h, EngineRecord
  <2>3. r \in EngineRecord
    BY <1>1, <2>1, <2>2 DEF EngineRecord
  <2>4. Store(e, r) /\ states' = states \cup {s}
    BY <1>3 DEF CheckNew, e, h
  <2> HIDE DEF r, s
  <2>5. eng' \in [Engines -> EngineRecord]
    BY <1>1, <2>3, <2>4, StoreType
  <2>6. states' \subseteq Nat /\ IsFiniteSet(states')
    BY <2>1, <2>4, FS_AddElement DEF TypeOK, Finite
  <2>7. noted' \in [Threads -> [Files -> Nat]]
    BY <1>3 DEF CheckNew, TypeOK, NoTimes
  <2> QED
    BY <1>3, <2>5, <2>6, <2>7, JobGoesOn, KeepStep
    DEF CheckNew, TypeOK, Finite, JobRecord, fileVars
<1>4. CASE CompileFails(t)
  <2>1. [h EXCEPT !.tried = TimesTried(e)] \in EngineRecord
    BY <1>1 DEF TimesTried, TypeOK, EngineRecord
  <2>2. eng' \in [Engines -> EngineRecord]
    BY <1>1, <1>4, <2>1, StoreType DEF CompileFails, e, h
  <2> QED
    BY <1>4, <2>2, JobGoesOn, UnlockStep
    DEF CompileFails, TypeOK, Finite, JobRecord, fileVars
<1>5. CASE Compile(t)
  <2>1. [h EXCEPT !.tried = TimesTried(e)] \in EngineRecord
    BY <1>1 DEF TimesTried, TypeOK, EngineRecord
  <2>2. eng' \in [Engines -> EngineRecord]
    BY <1>1, <1>5, <2>1, StoreType DEF Compile, e, h
  <2> DEFINE c == IF Holds(e, "unlinkable") THEN "unlinkable" ELSE content[e]
  <2>3. c \in {"good", "bare", "unlinkable"}
    BY <1>1, <1>5 DEF Compile, Holds, Sources, TypeOK, Kinds, e
  <2>4. job' = [job EXCEPT ![t] = [job[t] EXCEPT !.script = c]]
    BY <1>5 DEF Compile, TypeOK, e
  <2> HIDE DEF c
  <2>5. [job[t] EXCEPT !.script = c] \in JobRecord
    BY <2>3, JobType, FieldOfJob
  <2>6. job' \in [Threads -> JobRecord]
    BY <2>4, <2>5 DEF TypeOK, JobRecord
  <2>7. pc' = [pc EXCEPT ![t] = "relocate"] /\ pc[t] = "compile"
    BY <1>5 DEF Compile, Goto
  <2>8. \A u \in Threads : job'[u].engine = job[u].engine
    BY <2>4 DEF TypeOK
  <2>9. \A u \in Threads : u # t => job'[u] = job[u] /\ pc'[u] = pc[u]
    BY <2>4, <2>7 DEF TypeOK
  <2>10. JobsFit'
    BY <2>7, <2>8, <2>9 DEF JobsFit, E, TypeOK
  <2> QED
    BY <1>5, <2>2, <2>6, <2>10, KeepStep
    DEF Compile, TypeOK, Finite, JobRecord, fileVars
<1>6. CASE RelocateFails(t)
  BY <1>6, JobGoesOn, KeepStep
  DEF RelocateFails, TypeOK, Finite, JobRecord, memVars, fileVars
<1>7. CASE RelocateStop(t)
  BY <1>7, JobGoesOn, UnlockStep
  DEF RelocateStop, TypeOK, Finite, JobRecord, memVars, fileVars
<1>8. CASE RelocateOnly(t)
  BY <1>8, JobGoesOn, KeepStep
  DEF RelocateOnly, TypeOK, Finite, JobRecord, memVars, fileVars
<1>9. CASE Stop(t)
  <2>1. [h EXCEPT !.running = 0] \in EngineRecord
    BY <1>1 DEF EngineRecord
  <2>2. eng' \in [Engines -> EngineRecord]
    BY <1>1, <1>9, <2>1, StoreType DEF Stop, e, h
  <2>3. job[t].script # "unlinkable"
    BY <1>9 DEF Stop, JobsFit
  <2> QED
    BY <1>9, <2>2, <2>3, JobGoesOn, KeepStep
    DEF Stop, TypeOK, Finite, JobRecord, fileVars
<1>10. CASE Link(t)
  <2> DEFINE i == Fresh(images)
             r == [h EXCEPT !.image = i, !.script = job[t].script,
                            !.inited = @ \/ job[t].first]
  <2>1. i \in Nat
    BY FreshIsFree DEF Finite
  <2>2. job[t].script \in {"none", "good", "bare"} /\ job[t].first \in BOOLEAN
    BY <1>10 DEF Link, JobsFit, TypeOK
  <2>3. r \in EngineRecord
    BY <1>1, <2>1, <2>2 DEF EngineRecord
  <2>4. /\ Store(e, r)
        /\ images' = (images \cup {i}) \ {h.image}
        /\ states' = states \ {h.backuptcc}
    BY <1>10 DEF Link, e, h
  <2> HIDE DEF i, r
  <2>5. eng' \in [Engines -> EngineRecord]
    BY <1>1, <2>3, <2>4, StoreType
  <2>6. IsFiniteSet(images \cup {i})
    BY FS_AddElement DEF Finite
  <2>7. /\ images' \subseteq Nat /\ IsFiniteSet(images')
        /\ states' \subseteq Nat /\ IsFiniteSet(states')
    BY <2>1, <2>4, <2>6, FS_Difference DEF TypeOK, Finite
  <2> QED
    BY <1>10, <2>5, <2>7, JobGoesOn, UnlockStep
    DEF Link, TypeOK, Finite, JobRecord, fileVars
<1>11. CASE Start(t)
  <2>1. [h EXCEPT !.running = IF h.script = "good" THEN h.image ELSE @]
          \in EngineRecord
    BY <1>1 DEF EngineRecord
  <2>2. eng' \in [Engines -> EngineRecord]
    BY <1>1, <1>11, <2>1, StoreType DEF Start, e, h
  <2> QED
    BY <1>11, <2>2, JobEnds, KeepStep
    DEF Start, Return, TypeOK, Finite, JobRecord, fileVars
<1>12. CASE Discard(t)
  <2>1. [h EXCEPT !.state = h.backuptcc] \in EngineRecord
    BY <1>1 DEF EngineRecord
  <2>2. eng' \in [Engines -> EngineRecord]
    BY <1>1, <1>12, <2>1, StoreType DEF Discard, e, h
  <2>3. states' \subseteq Nat /\ IsFiniteSet(states')
    BY <1>12, FS_Difference DEF Discard, TypeOK, Finite
  <2> QED
    BY <1>12, <2>2, <2>3, JobEnds, KeepStep
    DEF Discard, Return, TypeOK, Finite, JobRecord, fileVars
<1>13. CASE Symbol(t)
  BY <1>13, JobEnds, UnlockStep
  DEF Symbol, Return, TypeOK, Finite, JobRecord, memVars, fileVars
<1>14. CASE TCCEDestroy(t)
  <2>1. eng' \in [Engines -> EngineRecord]
    BY <1>1, <1>14, NoEngineType, StoreType DEF TCCEDestroy, e
  <2>2. /\ images' \subseteq Nat /\ IsFiniteSet(images')
        /\ states' \subseteq Nat /\ IsFiniteSet(states')
    BY <1>14, FS_Difference DEF TCCEDestroy, TypeOK, Finite
  <2> QED
    BY <1>14, <2>1, <2>2, JobEnds, UnlockStep
    DEF TCCEDestroy, Return, TypeOK, Finite, JobRecord, fileVars
<1> QED
  BY <1>2, <1>3, <1>4, <1>5, <1>6, <1>7, <1>8, <1>9, <1>10, <1>11, <1>12,
     <1>13, <1>14 DEF Proceed

\* A file is written.
LEMMA TypeWrite ==
  ASSUME TypeInv, NEW f \in Files, Write(f)
  PROVE  TypeInv'
<1>1. \A c \in Contents[f] : c \in Kinds
  OBVIOUS
<1>2. /\ writes' \in 0 .. MaxWrites
      /\ time' \in [Files -> Nat] /\ content' \in [Files -> Kinds]
  BY <1>1 DEF TypeInv, TypeOK, Write
<1> QED
  BY <1>2
  DEF Write, TypeInv, TypeOK, Finite, HoldersOwn, JobsFit, E, memVars

\* Nothing happens.
LEMMA TypeStutter ==
  ASSUME TypeInv, UNCHANGED vars
  PROVE  TypeInv'
BY DEF TypeInv, TypeOK, Finite, HoldersOwn, JobsFit, E, vars, memVars, fileVars

\* Types, finiteness of the memory and the stages of the threads.
LEMMA TypeInvariant == Spec => []TypeInv
<1>1. TypeInv /\ [Next]_vars => TypeInv'
  BY TypeCalls, TypeAcquire, TypeProceed, TypeWrite, TypeStutter DEF Next
<1> QED
  BY TypeInit, <1>1, PTL DEF Spec

\* The engine's variables stay within their types; in particular the mutex
\* is free exactly when every lock has been matched by an unlock.
THEOREM TypeCorrect == Spec => []TypeOK
BY TypeInvariant, PTL DEF TypeInv

\* Whoever uses TinyCC (tccengine.c:38) holds the mutex, whatever becomes of
\* the files, and although reloads give the mutex up for stop.
THEOREM MutexHeld == Spec => []CompilerLocked
<1>1. TypeInv => CompilerLocked
  BY DEF TypeInv, TypeOK, HoldersOwn, Holding, CompilerLocked, InCompiler
<1> QED
  BY <1>1, TypeInvariant, PTL

-----------------------------------------------------------------------------
(* What is allocated: each step is one replacement of what one engine owns. *)

ReloadStages == {"compile", "relocate", "stop", "relock", "link", "discard"}

\* What an engine with the record h owns while its thread is in stage s.
StatesIn(h, s) ==
  ({h.state} \cup IF s \in ReloadStages THEN {h.backuptcc} ELSE {}) \ {0}
ImagesIn(h) == {h.image} \ {0}

StateTable == [e \in Engines |-> StatesOf(e)]
ImageTable == [e \in Engines |-> ImagesIn(eng[e])]

\* A is split among the engines as the table S says.
Split(A, S) ==
  /\ A = UNION {S[e] : e \in Engines}
  /\ \A e, f \in Engines : e # f => S[e] \cap S[f] = {}

\* An engine with the record h whose thread is in stage s.
RecordFits(h, s) ==
  /\ ~h.live => h.state = 0 /\ h.image = 0 /\ h.running = 0
  /\ h.running # 0 => h.running = h.image /\ h.script = "good"
  /\ s \in ReloadStages => h.state # h.backuptcc
  /\ s = "create" => ~h.live
  /\ s \notin {"idle", "create"} => h.live
  /\ s \in {"relock", "link"} => h.running = 0

MemInv ==
  /\ Split(states, StateTable)
  /\ Split(images, ImageTable)
  /\ \A e \in Engines : RecordFits(eng[e], "idle")
  /\ \A t \in Threads : pc[t] # "idle" => RecordFits(eng[E(t)], pc[t])

\* The engine e gives up its part S[e] of A and takes T[e], which is free.
Replaced(A, B, S, T, e) ==
  /\ \A f \in Engines : f # e => T[f] = S[f]
  /\ B = (A \ S[e]) \cup T[e]
  /\ T[e] \cap (A \ S[e]) = {}

\* A split survives the replacement of one part.
LEMMA Replace ==
  ASSUME NEW A, NEW B, NEW S, NEW T, NEW e \in Engines, Split(A, S),
         Replaced(A, B, S, T, e)
  PROVE  Split(B, T)
<1> USE DEF Replaced
<1>1. \A f \in Engines : S[f] \subseteq A
  BY DEF Split
<1>2. \A f \in Engines : f # e => S[f] \subseteq A \ S[e]
  BY <1>1 DEF Split
<1>3. \A f, g \in Engines : f # g => T[f] \cap T[g] = {}
  BY <1>2 DEF Split
<1>4. ASSUME NEW x \in B
      PROVE  \E f \in Engines : x \in T[f]
  <2>1. CASE x \in T[e]
    BY <2>1
  <2>2. CASE x \notin T[e]
    <3>1. x \in A /\ x \notin S[e]
      BY <2>2, <1>4
    <3>2. PICK f \in Engines : x \in S[f]
      BY <3>1 DEF Split
    <3> QED
      BY <3>1, <3>2
  <2> QED
    BY <2>1, <2>2
<1>5. ASSUME NEW f \in Engines
      PROVE  T[f] \subseteq B
  BY <1>2
<1>6. B = UNION {T[f] : f \in Engines}
  BY <1>4, <1>5
<1> QED
  BY <1>3, <1>6 DEF Split

\* A step of one thread that replaces what its engine owns.
LEMMA MemStep ==
  ASSUME TypeInv, MemInv, NEW t \in Threads, pc[t] # "idle",
         NEW s \in Stages, Goto(t, s),
         \A u \in Threads : u # t => job'[u] = job[u],
         s = "idle" \/ job'[t].engine = E(t),
         NEW h \in EngineRecord, Store(E(t), h),
         RecordFits(h, "idle"), RecordFits(h, s),
         states' = (states \ StatesIn(eng[E(t)], pc[t])) \cup StatesIn(h, s),
         StatesIn(h, s) \cap (states \ StatesIn(eng[E(t)], pc[t])) = {},
         images' = (images \ ImagesIn(eng[E(t)])) \cup ImagesIn(h),
         ImagesIn(h) \cap (images \ ImagesIn(eng[E(t)])) = {}
  PROVE  MemInv'
<1>0. E(t) \in Engines
  BY DEF TypeInv, TypeOK, E
<1>a. PICK e \in Engines : e = E(t)
  BY <1>0
<1>1. e \in Engines /\ Owner[e] = t
  BY <1>a DEF TypeInv, TypeOK, JobsFit, E
<1>2. /\ pc' = [pc EXCEPT ![t] = s] /\ pc \in [Threads -> Stages]
      /\ eng' = [eng EXCEPT ![e] = h] /\ eng \in [Engines -> EngineRecord]
  BY <1>a DEF TypeInv, TypeOK, Goto, Store
<1>3. \A u \in Threads : u # t /\ pc[u] # "idle" => E(u) \in Engines \ {e}
  BY <1>1 DEF TypeInv, TypeOK, JobsFit, E
<1>4. \A f \in Engines : f # e => (StatesOf(f))' = StatesOf(f)
  <2> SUFFICES ASSUME NEW f \in Engines, f # e
               PROVE  (StatesOf(f))' = StatesOf(f)
    OBVIOUS
  <2>1. eng'[f] = eng[f]
    BY <1>2
  <2>2. Owner[f] \in Threads
    OBVIOUS
  <2>3. CASE Owner[f] = t
    BY <1>a, <1>2, <2>1, <2>3 DEF StatesOf, Reloading, E
  <2>4. CASE Owner[f] # t
    BY <1>2, <2>1, <2>2, <2>4 DEF StatesOf, Reloading, E
  <2> QED
    BY <2>3, <2>4
<1>5. /\ StatesOf(e) = StatesIn(eng[e], pc[t])
      /\ (StatesOf(e))' = StatesIn(h, s)
  BY <1>a, <1>1, <1>2 DEF StatesOf, Reloading, StatesIn, ReloadStages, E
<1>6. Split(states, StateTable)'
  <2>a. PICK S : S = StateTable
    OBVIOUS
  <2>b. PICK T : T = StateTable'
    OBVIOUS
  <2>1. S[e] = StatesIn(eng[e], pc[t]) /\ T[e] = StatesIn(h, s)
    BY <1>1, <1>5, <2>a, <2>b DEF StateTable
  <2>2. \A f \in Engines : f # e => T[f] = S[f]
    BY <1>4, <2>a, <2>b DEF StateTable
  <2>3. Split(states, S)
    BY <2>a DEF MemInv
  <2>4. states' = (states \ S[e]) \cup T[e] /\ T[e] \cap (states \ S[e]) = {}
    BY <2>1, <1>a
  <2>5. Replaced(states, states', S, T, e)
    BY <2>2, <2>4 DEF Replaced
  <2>6. Split(states', T)
    BY <2>3, <2>5, Replace
  <2> QED
    BY <2>6, <2>b DEF Split
<1>7. Split(images, ImageTable)'
  <2>a. PICK S : S = ImageTable
    OBVIOUS
  <2>b. PICK T : T = ImageTable'
    OBVIOUS
  <2>1. S[e] = ImagesIn(eng[e]) /\ T[e] = ImagesIn(h)
    BY <1>1, <1>2, <1>a, <2>a, <2>b DEF ImageTable, ImagesIn
  <2>2. \A f \in Engines : f # e => T[f] = S[f]
    BY <1>2, <2>a, <2>b DEF ImageTable, ImagesIn
  <2>3. Split(images, S)
    BY <2>a DEF MemInv
  <2>4. images' = (images \ S[e]) \cup T[e] /\ T[e] \cap (images \ S[e]) = {}
    BY <2>1, <1>a
  <2>5. Replaced(images, images', S, T, e)
    BY <2>2, <2>4 DEF Replaced
  <2>6. Split(images', T)
    BY <2>3, <2>5, Replace
  <2> QED
    BY <2>6, <2>b DEF Split
<1>8. \A f \in Engines : RecordFits(eng'[f], "idle")
  BY <1>2 DEF MemInv
<1>9. ASSUME NEW u \in Threads, pc'[u] # "idle"
      PROVE  RecordFits(eng'[job'[u].engine], pc'[u])
  <2>1. CASE u = t
    <3>1. job'[u].engine = e /\ pc'[u] = s /\ eng'[e] = h
      BY <1>1, <1>2, <1>9, <2>1, <1>a
    <3> QED
      BY <3>1
  <2>2. CASE u # t
    <3>1. /\ job'[u] = job[u] /\ pc'[u] = pc[u]
          /\ E(u) \in Engines \ {e}
      BY <1>2, <1>3, <1>9, <2>2
    <3>2. eng'[job'[u].engine] = eng[E(u)]
      BY <1>2, <3>1 DEF E
    <3> QED
      BY <1>9, <3>1, <3>2 DEF MemInv
  <2> QED
    BY <2>1, <2>2
<1> QED
  BY <1>6, <1>7, <1>8, <1>9 DEF MemInv, RecordFits, E

\* A step that allocates and frees nothing.
LEMMA MemKept ==
  ASSUME TypeInv, MemInv, NEW t \in Threads, pc[t] # "idle",
         NEW s \in Stages, Goto(t, s), s \in ReloadStages <=> pc[t] \in ReloadStages,
         \A u \in Threads : u # t => job'[u] = job[u],
         s = "idle" \/ job'[t].engine = E(t),
         NEW h \in EngineRecord, Store(E(t), h),
         h.state = eng[E(t)].state, h.backuptcc = eng[E(t)].backuptcc,
         h.image = eng[E(t)].image,
         RecordFits(h, "idle"), RecordFits(h, s),
         UNCHANGED <<states, images>>
  PROVE  MemInv'
<1>1. E(t) \in Engines /\ pc[t] \in Stages
  BY DEF TypeInv, TypeOK, E
<1>2. StatesIn(h, s) = StatesIn(eng[E(t)], pc[t])
  BY DEF StatesIn
<1>3. ImagesIn(h) = ImagesIn(eng[E(t)])
  BY DEF ImagesIn
<1>4. StatesIn(h, s) \subseteq states
  <2>1. E(Owner[E(t)]) = E(t) /\ Owner[E(t)] = t
    BY DEF TypeInv, JobsFit
  <2>2. StatesOf(E(t)) = StatesIn(eng[E(t)], pc[t])
    BY <2>1 DEF StatesOf, Reloading, StatesIn, ReloadStages
  <2>3. StatesOf(E(t)) \subseteq states
    BY <1>1 DEF MemInv, Split, StateTable
  <2> QED
    BY <1>2, <2>2, <2>3
<1>5. ImagesIn(h) \subseteq images
  BY <1>1, <1>3 DEF MemInv, Split, ImageTable
<1> QED
  BY <1>2, <1>3, <1>4, <1>5, MemStep

\* Steps that do not touch any engine, and the call that makes the job.
LEMMA MemEngineKept ==
  ASSUME TypeInv, MemInv, NEW t \in Threads, pc[t] # "idle",
         NEW s \in Stages, Goto(t, s), s \in ReloadStages <=> pc[t] \in ReloadStages,
         \A u \in Threads : u # t => job'[u] = job[u],
         s = "idle" \/ job'[t].engine = E(t),
         RecordFits(eng[E(t)], s), UNCHANGED memVars
  PROVE  MemInv'
<1>1. E(t) \in Engines /\ eng[E(t)] \in EngineRecord
  BY DEF TypeInv, TypeOK, E
<1>2. Store(E(t), eng[E(t)])
  BY DEF Store, memVars, TypeInv, TypeOK
<1>3. RecordFits(eng[E(t)], "idle")
  BY <1>1 DEF MemInv
<1> QED
  BY <1>1, <1>2, <1>3, MemKept DEF memVars

\* A step that changes neither engines nor memory nor any thread in a reload.
LEMMA MemIdle ==
  ASSUME TypeInv, MemInv, UNCHANGED memVars,
         \A e \in Engines : Reloading(e)' <=> Reloading(e),
         \A u \in Threads : pc'[u] # "idle" =>
            RecordFits(eng[job'[u].engine], pc'[u])
  PROVE  MemInv'
<1>1. \A e \in Engines : (StatesOf(e))' = StatesOf(e)
  BY DEF StatesOf, memVars
<1>2. StateTable' = StateTable /\ ImageTable' = ImageTable
  BY <1>1 DEF StateTable, ImageTable, ImagesIn, memVars
<1>3. Split(states, StateTable)' /\ Split(images, ImageTable)'
  BY <1>2 DEF MemInv, Split, memVars
<1> QED
  BY <1>3 DEF MemInv, RecordFits, E, memVars

\* The beginning of a call.
LEMMA MemCalls ==
  ASSUME TypeInv, MemInv, NEW t \in Threads, NEW e \in Engines, Begin(t, e)
  PROVE  MemInv'
<1>1. PICK s \in {"create", "check", "symbol", "destroy"} :
        /\ pc[t] = "idle" /\ Owner[e] = t /\ pc' = [pc EXCEPT ![t] = s]
        /\ job' = [job EXCEPT ![t] = job'[t]] /\ job'[t].engine = e
        /\ UNCHANGED memVars
        /\ s = "create" <=> ~eng[e].live
  <2>1. CASE CallCreate(t, e)
    BY <2>1 DEF CallCreate, Call, Goto, TypeInv, TypeOK
  <2>2. CASE CallCheck(t, e)
    BY <2>2 DEF CallCheck, Call, Goto, TypeInv, TypeOK
  <2>3. CASE EnterSymbol(t, e)
    BY <2>3 DEF EnterSymbol, Enter, Goto, TypeInv, TypeOK
  <2>4. CASE EnterDestroy(t, e)
    BY <2>4 DEF EnterDestroy, Enter, Goto, TypeInv, TypeOK
  <2> QED
    BY <2>1, <2>2, <2>3, <2>4 DEF Begin
<1>2. /\ pc'[t] = s
      /\ \A u \in Threads : u # t => pc'[u] = pc[u] /\ job'[u] = job[u]
  BY <1>1 DEF TypeInv, TypeOK
<1>3. \A f \in Engines : Reloading(f)' <=> Reloading(f)
  <2> SUFFICES ASSUME NEW f \in Engines
               PROVE  Reloading(f)' <=> Reloading(f)
    OBVIOUS
  <2>1. CASE Owner[f] = t
    BY <1>1, <1>2, <2>1 DEF Reloading
  <2>2. CASE Owner[f] # t
    BY <1>2, <2>2 DEF Reloading, E
  <2> QED
    BY <2>1, <2>2
<1>4. ASSUME NEW u \in Threads, pc'[u] # "idle"
      PROVE  RecordFits(eng[job'[u].engine], pc'[u])
  <2>1. CASE u = t
    <3>1. RecordFits(eng[e], "idle")
      BY DEF MemInv
    <3> QED
      BY <1>1, <1>2, <2>1, <3>1 DEF RecordFits, ReloadStages
  <2>2. CASE u # t
    BY <1>2, <1>4, <2>2 DEF MemInv, E
  <2> QED
    BY <2>1, <2>2
<1> QED
  BY <1>1, <1>3, <1>4, MemIdle

\* The steps that wait for the mutex.
LEMMA MemAcquire ==
  ASSUME TypeInv, MemInv, NEW t \in Threads, Acquire(t)
  PROVE  MemInv'
<1> USE DEF ReloadStages, Stages
<1> DEFINE h == eng[E(t)]
<1>1. E(t) \in Engines /\ h \in EngineRecord
  BY DEF TypeInv, TypeOK, E
<1>2. pc[t] # "idle" => RecordFits(h, pc[t])
  BY DEF MemInv
<1>3. CASE CreateRefused(t)
  <2>1. RecordFits(h, "idle")
    BY <1>1 DEF MemInv
  <2>2. \A u \in Threads : u # t => job'[u] = job[u]
    BY <1>3 DEF CreateRefused, Return, TypeInv, TypeOK
  <2> QED
    BY <1>3, <2>1, <2>2, MemEngineKept DEF CreateRefused, Return
<1>4. CASE TCCECreate(t)
  <2> DEFINE r == [NoEngine EXCEPT !.live = TRUE]
  <2>1. /\ r \in EngineRecord /\ r.state = 0 /\ r.backuptcc = 0
        /\ r.image = 0 /\ r.running = 0 /\ r.live
    BY NoEngineType DEF NoEngine, EngineRecord
  <2>2. Store(E(t), r)
    BY <1>4 DEF TCCECreate
  <2> HIDE DEF r
  <2>3. h.state = 0 /\ h.image = 0 /\ pc[t] = "create"
    BY <1>2, <1>4 DEF TCCECreate, RecordFits
  <2>4. RecordFits(r, "idle") /\ RecordFits(r, "check")
    BY <2>1 DEF RecordFits
  <2>5. /\ StatesIn(h, pc[t]) = {} /\ StatesIn(r, "check") = {}
        /\ ImagesIn(h) = {} /\ ImagesIn(r) = {}
    BY <2>1, <2>3 DEF StatesIn, ImagesIn
  <2>6. /\ states' = (states \ StatesIn(h, pc[t])) \cup StatesIn(r, "check")
        /\ images' = (images \ ImagesIn(h)) \cup ImagesIn(r)
    BY <1>4, <2>5 DEF TCCECreate
  <2>7. job' = job /\ job'[t].engine = E(t) /\ Goto(t, "check")
    BY <1>4 DEF TCCECreate, E
  <2> QED
    BY <2>1, <2>2, <2>3, <2>4, <2>5, <2>6, <2>7, MemStep
<1>5. CASE CheckLock(t)
  <2>1. RecordFits(h, "files")
    BY <1>2, <1>5 DEF CheckLock, RecordFits
  <2> QED
    BY <1>5, <2>1, MemEngineKept DEF CheckLock, E
<1>6. CASE Relock(t)
  <2>1. RecordFits(h, "link")
    BY <1>2, <1>6 DEF Relock, RecordFits
  <2> QED
    BY <1>6, <2>1, MemEngineKept DEF Relock, E
<1> QED
  BY <1>3, <1>4, <1>5, <1>6 DEF Acquire

\* What an engine owns is allocated.
LEMMA Owned ==
  ASSUME TypeInv, MemInv, NEW t \in Threads, pc[t] # "idle"
  PROVE  /\ E(t) \in Engines /\ eng[E(t)] \in EngineRecord
         /\ RecordFits(eng[E(t)], pc[t]) /\ RecordFits(eng[E(t)], "idle")
         /\ StatesIn(eng[E(t)], pc[t]) \subseteq states
         /\ ImagesIn(eng[E(t)]) \subseteq images
         /\ 0 \notin states /\ 0 \notin images
<1>1. E(t) \in Engines /\ eng[E(t)] \in EngineRecord
  BY DEF TypeInv, TypeOK, E
<1>2. StatesOf(E(t)) = StatesIn(eng[E(t)], pc[t])
  BY DEF StatesOf, Reloading, StatesIn, ReloadStages, TypeInv, JobsFit
<1>3. StatesOf(E(t)) \subseteq states /\ ImagesIn(eng[E(t)]) \subseteq images
  BY <1>1 DEF MemInv, Split, StateTable, ImageTable
<1>4. 0 \notin states /\ 0 \notin images
  BY DEF MemInv, Split, StateTable, StatesOf, ImageTable, ImagesIn
<1> QED
  BY <1>1, <1>2, <1>3, <1>4 DEF MemInv

\* The steps of a call that is under way.
LEMMA MemProceed ==
  ASSUME TypeInv, MemInv, NEW t \in Threads, Proceed(t)
  PROVE  MemInv'
<1> USE DEF ReloadStages, Stages
<1> DEFINE h == eng[E(t)]
<1>1. pc[t] # "idle"
  BY DEF Proceed, CheckSame, CheckNew, CompileFails, Compile, RelocateFails,
         RelocateStop, RelocateOnly, Stop, Link, Start, Discard, Symbol,
         TCCEDestroy
<1>2. /\ E(t) \in Engines /\ h \in EngineRecord
      /\ RecordFits(h, pc[t]) /\ RecordFits(h, "idle")
      /\ StatesIn(h, pc[t]) \subseteq states /\ ImagesIn(h) \subseteq images
      /\ 0 \notin states /\ 0 \notin images
  BY <1>1, Owned
<1>3. \A u \in Threads : u # t => job'[u] = job[u]
  BY DEF Proceed, CheckSame, CheckNew, CompileFails, Compile, RelocateFails,
         RelocateStop, RelocateOnly, Stop, Link, Start, Discard, Symbol,
         TCCEDestroy, Return, TypeInv, TypeOK
<1>4. CASE CheckSame(t)
  BY <1>2, <1>3, <1>4, MemEngineKept DEF CheckSame, Return
<1>5. CASE Symbol(t)
  BY <1>2, <1>3, <1>5, MemEngineKept DEF Symbol, Return
<1>6. CASE RelocateFails(t)
  <2>1. RecordFits(h, "discard")
    BY <1>2, <1>6 DEF RelocateFails, RecordFits
  <2> QED
    BY <1>3, <1>6, <2>1, MemEngineKept DEF RelocateFails, E
<1>7. CASE RelocateStop(t)
  <2>1. RecordFits(h, "stop")
    BY <1>2, <1>7 DEF RelocateStop, RecordFits
  <2> QED
    BY <1>3, <1>7, <2>1, MemEngineKept DEF RelocateStop, E
<1>8. CASE RelocateOnly(t)
  <2>1. RecordFits(h, "link")
    BY <1>2, <1>8 DEF RelocateOnly, Stopping, RecordFits
  <2> QED
    BY <1>3, <1>8, <2>1, MemEngineKept DEF RelocateOnly, E
<1>9. CASE CompileFails(t)
  <2> DEFINE r == [h EXCEPT !.tried = TimesTried(E(t))]
  <2>1. /\ r \in EngineRecord
        /\ \A x \in {"live", "state", "backuptcc", "image", "running", "script"} :
             r[x] = h[x]
    BY <1>2 DEF EngineRecord, TimesTried, TypeInv, TypeOK
  <2>2. Store(E(t), r) /\ pc[t] = "compile" /\ Goto(t, "discard") /\ UNCHANGED job
    BY <1>9 DEF CompileFails
  <2> HIDE DEF r
  <2>3. RecordFits(r, "idle") /\ RecordFits(r, "discard")
    BY <1>2, <2>1, <2>2 DEF RecordFits
  <2> QED
    BY <1>3, <1>9, <2>1, <2>2, <2>3, MemKept DEF CompileFails, E
<1>10. CASE Compile(t)
  <2> DEFINE r == [h EXCEPT !.tried = TimesTried(E(t))]
  <2>1. /\ r \in EngineRecord
        /\ \A x \in {"live", "state", "backuptcc", "image", "running", "script"} :
             r[x] = h[x]
    BY <1>2 DEF EngineRecord, TimesTried, TypeInv, TypeOK
  <2>2. Store(E(t), r) /\ pc[t] = "compile" /\ Goto(t, "relocate")
    BY <1>10 DEF Compile
  <2> HIDE DEF r
  <2>3. RecordFits(r, "idle") /\ RecordFits(r, "relocate")
    BY <1>2, <2>1, <2>2 DEF RecordFits
  <2>4. job'[t].engine = E(t)
    BY <1>10 DEF Compile, E, TypeInv, TypeOK
  <2> QED
    BY <1>3, <1>10, <2>1, <2>2, <2>3, <2>4, MemKept DEF Compile
<1>11. CASE Stop(t)
  <2> DEFINE r == [h EXCEPT !.running = 0]
  <2>1. /\ r \in EngineRecord /\ r.running = 0
        /\ \A x \in {"live", "state", "backuptcc", "image", "script"} : r[x] = h[x]
    BY <1>2 DEF EngineRecord
  <2>2. Store(E(t), r) /\ pc[t] = "stop" /\ Goto(t, "relock") /\ UNCHANGED job
    BY <1>11 DEF Stop
  <2> HIDE DEF r
  <2>3. RecordFits(r, "idle") /\ RecordFits(r, "relock")
    BY <1>2, <2>1, <2>2 DEF RecordFits
  <2> QED
    BY <1>3, <1>11, <2>1, <2>2, <2>3, MemKept DEF Stop, E
<1>12. CASE Start(t)
  <2> DEFINE r == [h EXCEPT !.running = IF h.script = "good" THEN h.image ELSE @]
  <2>1. /\ r \in EngineRecord
        /\ r.running = IF h.script = "good" THEN h.image ELSE h.running
        /\ \A x \in {"live", "state", "backuptcc", "image", "script"} : r[x] = h[x]
    BY <1>2 DEF EngineRecord
  <2>2. Store(E(t), r) /\ pc[t] = "start" /\ Goto(t, "idle")
    BY <1>12 DEF Start, Return
  <2> HIDE DEF r
  <2>3. RecordFits(r, "idle")
    BY <1>2, <2>1, <2>2 DEF RecordFits
  <2> QED
    BY <1>3, <1>12, <2>1, <2>2, <2>3, MemKept DEF Start
<1>13. CASE CheckNew(t)
  <2> DEFINE s == Fresh(states)
             r == [h EXCEPT !.seen = SeenTimes(t, E(t)),
                            !.backuptcc = h.state, !.state = s]
  <2>1. s \in Nat \ {0} /\ s \notin states
    BY FreshIsFree DEF TypeInv, Finite
  <2>2. SeenTimes(t, E(t)) \in [Files -> Nat]
    BY <1>2 DEF SeenTimes, TypeInv, TypeOK, EngineRecord
  <2>3. /\ r \in EngineRecord /\ r.state = s /\ r.backuptcc = h.state
        /\ \A x \in {"live", "image", "running", "script"} : r[x] = h[x]
    BY <1>2, <2>1, <2>2 DEF EngineRecord
  <2>4. /\ Store(E(t), r) /\ pc[t] = "files" /\ Goto(t, "compile")
        /\ states' = states \cup {s} /\ UNCHANGED <<job, images>>
    BY <1>13 DEF CheckNew
  <2> HIDE DEF r, s
  <2>5. /\ StatesIn(h, pc[t]) = {h.state} \ {0}
        /\ StatesIn(r, "compile") = {s, h.state} \ {0}
        /\ ImagesIn(r) = ImagesIn(h)
    BY <2>3, <2>4 DEF StatesIn, ImagesIn
  <2>6. s # h.state
    BY <1>2, <2>1, <2>5
  <2>7. RecordFits(r, "idle") /\ RecordFits(r, "compile")
    BY <1>2, <2>3, <2>4, <2>6 DEF RecordFits
  <2>8. /\ states' = (states \ StatesIn(h, pc[t])) \cup StatesIn(r, "compile")
        /\ StatesIn(r, "compile") \cap (states \ StatesIn(h, pc[t])) = {}
    BY <1>2, <2>1, <2>4, <2>5
  <2>9. /\ images' = (images \ ImagesIn(h)) \cup ImagesIn(r)
        /\ ImagesIn(r) \cap (images \ ImagesIn(h)) = {}
    BY <1>2, <2>4, <2>5
  <2>10. job'[t].engine = E(t)
    BY <2>4 DEF E
  <2> QED
    BY <1>1, <1>3, <2>3, <2>4, <2>7, <2>8, <2>9, <2>10, MemStep
<1>14. CASE Link(t)
  <2> DEFINE i == Fresh(images)
             r == [h EXCEPT !.image = i, !.script = job[t].script,
                            !.inited = @ \/ job[t].first]
  <2>1. i \in Nat \ {0} /\ i \notin images
    BY FreshIsFree DEF TypeInv, Finite
  <2>2. job[t].script \in {"none", "good", "bare"} /\ job[t].first \in BOOLEAN
    BY <1>14 DEF Link, JobsFit, TypeInv, TypeOK
  <2>3. /\ r \in EngineRecord /\ r.image = i
        /\ \A x \in {"live", "state", "backuptcc", "running"} : r[x] = h[x]
    BY <1>2, <2>1, <2>2 DEF EngineRecord
  <2>4. /\ Store(E(t), r) /\ pc[t] = "link" /\ Goto(t, "start")
        /\ images' = (images \cup {i}) \ {h.image}
        /\ states' = states \ {h.backuptcc} /\ UNCHANGED job
    BY <1>14 DEF Link
  <2> HIDE DEF r, i
  <2>5. /\ StatesIn(h, pc[t]) = {h.state, h.backuptcc} \ {0}
        /\ StatesIn(r, "start") = {h.state} \ {0}
        /\ ImagesIn(r) = {i}
    BY <2>1, <2>3, <2>4 DEF StatesIn, ImagesIn
  <2>6. h.state # h.backuptcc /\ h.running = 0 /\ h.live
    BY <1>2, <2>4 DEF RecordFits
  <2>7. RecordFits(r, "idle") /\ RecordFits(r, "start")
    BY <2>3, <2>6 DEF RecordFits
  <2>8. /\ states' = (states \ StatesIn(h, pc[t])) \cup StatesIn(r, "start")
        /\ StatesIn(r, "start") \cap (states \ StatesIn(h, pc[t])) = {}
    BY <1>2, <2>4, <2>5, <2>6
  <2>9. /\ images' = (images \ ImagesIn(h)) \cup ImagesIn(r)
        /\ ImagesIn(r) \cap (images \ ImagesIn(h)) = {}
    BY <1>2, <2>1, <2>4, <2>5 DEF ImagesIn
  <2>10. job'[t].engine = E(t)
    BY <2>4 DEF E
  <2> QED
    BY <1>1, <1>3, <2>3, <2>4, <2>7, <2>8, <2>9, <2>10, MemStep
<1>15. CASE Discard(t)
  <2> DEFINE r == [h EXCEPT !.state = h.backuptcc]
  <2>1. /\ r \in EngineRecord /\ r.state = h.backuptcc
        /\ \A x \in {"live", "image", "script", "running"} : r[x] = h[x]
    BY <1>2 DEF EngineRecord
  <2>2. /\ Store(E(t), r) /\ pc[t] = "discard" /\ Goto(t, "idle")
        /\ states' = states \ {h.state} /\ UNCHANGED images
    BY <1>15 DEF Discard, Return
  <2> HIDE DEF r
  <2>3. /\ StatesIn(h, pc[t]) = {h.state, h.backuptcc} \ {0}
        /\ StatesIn(r, "idle") = {h.backuptcc} \ {0}
        /\ ImagesIn(r) = ImagesIn(h)
    BY <2>1, <2>2 DEF StatesIn, ImagesIn
  <2>4. h.state # h.backuptcc /\ h.live
    BY <1>2, <2>2 DEF RecordFits
  <2>5. RecordFits(r, "idle")
    BY <1>2, <2>1, <2>4 DEF RecordFits
  <2>6. /\ states' = (states \ StatesIn(h, pc[t])) \cup StatesIn(r, "idle")
        /\ StatesIn(r, "idle") \cap (states \ StatesIn(h, pc[t])) = {}
    BY <1>2, <2>2, <2>3, <2>4
  <2>7. /\ images' = (images \ ImagesIn(h)) \cup ImagesIn(r)
        /\ ImagesIn(r) \cap (images \ ImagesIn(h)) = {}
    BY <1>2, <2>2, <2>3
  <2> QED
    BY <1>1, <1>3, <2>1, <2>2, <2>5, <2>6, <2>7, MemStep
<1>16. CASE TCCEDestroy(t)
  <2> DEFINE r == NoEngine
  <2>1. /\ r \in EngineRecord /\ ~r.live
        /\ r.state = 0 /\ r.backuptcc = 0 /\ r.image = 0 /\ r.running = 0
    BY NoEngineType DEF NoEngine
  <2>2. /\ Store(E(t), r) /\ pc[t] = "destroy" /\ Goto(t, "idle")
        /\ states' = states \ {h.state} /\ images' = images \ {h.image}
    BY <1>16 DEF TCCEDestroy, Return
  <2> HIDE DEF r
  <2>3. /\ StatesIn(h, pc[t]) = {h.state} \ {0} /\ ImagesIn(h) = {h.image} \ {0}
        /\ StatesIn(r, "idle") = {} /\ ImagesIn(r) = {}
    BY <2>1, <2>2 DEF StatesIn, ImagesIn
  <2>4. RecordFits(r, "idle")
    BY <2>1 DEF RecordFits
  <2>5. /\ states' = (states \ StatesIn(h, pc[t])) \cup StatesIn(r, "idle")
        /\ StatesIn(r, "idle") \cap (states \ StatesIn(h, pc[t])) = {}
        /\ images' = (images \ ImagesIn(h)) \cup ImagesIn(r)
        /\ ImagesIn(r) \cap (images \ ImagesIn(h)) = {}
    BY <1>2, <2>2, <2>3
  <2> QED
    BY <1>1, <1>3, <2>1, <2>2, <2>4, <2>5, MemStep
<1> QED
  BY <1>4, <1>5, <1>6, <1>7, <1>8, <1>9, <1>10, <1>11, <1>12, <1>13, <1>14,
     <1>15, <1>16 DEF Proceed

\* At the start no engine owns anything.
LEMMA MemInit == Init => MemInv
<1> SUFFICES ASSUME Init PROVE MemInv
  OBVIOUS
<1>1. \A e \in Engines : eng[e] = NoEngine
  BY DEF Init
<1>2. \A e \in Engines : RecordFits(eng[e], "idle")
  BY <1>1 DEF RecordFits, NoEngine, ReloadStages
<1>3. \A t \in Threads : pc[t] = "idle"
  BY DEF Init
<1>4. \A e \in Engines : StatesOf(e) = {} /\ ImagesIn(eng[e]) = {}
  BY <1>1, <1>3 DEF StatesOf, Reloading, NoEngine, ImagesIn
<1>5. Split(states, StateTable) /\ Split(images, ImageTable)
  BY <1>4 DEF Init, Split, StateTable, ImageTable
<1> QED
  BY <1>2, <1>3, <1>5 DEF MemInv

\* Steps of other programs.
LEMMA MemOthers ==
  ASSUME TypeInv, MemInv, UNCHANGED <<pc, job, memVars>>
  PROVE  MemInv'
<1>1. \A e \in Engines : Reloading(e)' <=> Reloading(e)
  BY DEF Reloading, E
<1> QED
  BY <1>1, MemIdle DEF MemInv, E

\* The invariant holds throughout.
LEMMA MemInvariant == Spec => []MemInv
<1>1. TypeInv /\ MemInv /\ [Next]_vars => MemInv'
  <2> SUFFICES ASSUME TypeInv, MemInv, [Next]_vars PROVE MemInv'
    OBVIOUS
  <2>1. CASE \E f \in Files : Write(f)
    BY <2>1, MemOthers DEF Write
  <2>2. CASE UNCHANGED vars
    BY <2>2, MemOthers DEF vars
  <2> QED
    BY <2>1, <2>2, MemCalls, MemAcquire, MemProceed DEF Next
<1> QED
  BY MemInit, <1>1, TypeInvariant, PTL DEF Spec

\* On every path of a reload, the failing ones included, the TCCStates and
\* images that exist are those the engines point to, each owned once.
THEOREM NothingLeaksOrDangles == Spec => []MemoryHeld
<1>1. TypeInv /\ MemInv => MemoryHeld
  <2> SUFFICES ASSUME TypeInv, MemInv PROVE MemoryHeld
    OBVIOUS
  <2>1. states = UNION {StatesOf(e) : e \in Engines}
    BY DEF MemInv, Split, StateTable
  <2>2. images = UNION {ImagesIn(eng[e]) : e \in Engines}
    BY DEF MemInv, Split, ImageTable
  <2>3. images = {eng[e].image : e \in Engines} \ {0}
    BY <2>2 DEF ImagesIn
  <2>4. \A e, f \in Engines : e # f =>
          /\ StatesOf(e) \cap StatesOf(f) = {}
          /\ ImagesIn(eng[e]) \cap ImagesIn(eng[f]) = {}
    BY DEF MemInv, Split, StateTable, ImageTable
  <2>5. \A e \in Engines : Reloading(e) => eng[e].state # eng[e].backuptcc
    <3> SUFFICES ASSUME NEW e \in Engines, Reloading(e)
                 PROVE  eng[e].state # eng[e].backuptcc
      OBVIOUS
    <3>1. /\ Owner[e] \in Threads /\ E(Owner[e]) = e
          /\ pc[Owner[e]] \in ReloadStages
      BY DEF Reloading, ReloadStages
    <3>2. RecordFits(eng[e], pc[Owner[e]])
      BY <3>1 DEF MemInv, ReloadStages
    <3> QED
      BY <3>1, <3>2 DEF RecordFits
  <2> QED
    BY <2>1, <2>3, <2>4, <2>5 DEF MemoryHeld, ImagesIn
<1> QED
  BY <1>1, TypeInvariant, MemInvariant, PTL

\* A script that runs is the one that is linked; its code is still there.
THEOREM OnlyTheLinkedRuns == Spec => []RunningLinked
<1>1. MemInv => RunningLinked
  <2> SUFFICES ASSUME MemInv, NEW e \in Engines, eng[e].running # 0
               PROVE  eng[e].running = eng[e].image /\ eng[e].running \in images
    BY DEF RunningLinked
  <2>1. eng[e].running = eng[e].image
    BY DEF MemInv, RecordFits
  <2>2. ImagesIn(eng[e]) \subseteq images
    BY DEF MemInv, Split, ImageTable
  <2> QED
    BY <2>1, <2>2 DEF ImagesIn
<1> QED
  BY <1>1, MemInvariant, PTL
=============================================================================
