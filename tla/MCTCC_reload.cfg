SPECIFICATION FairSpec
CONSTANTS
  t1 = t1
  t2 = t2
  e1 = e1
  e2 = e2
  e3 = e3
  NoThread = NoThread
  Threads = {t1, t2}
  Engines = {e1, e2, e3}
  Files = {e1, e2, e3}
  Owner <- OwnerOf
  AttachedFiles <- AttachedTo
  Contents <- HeldBy
  MAX_ATTACHED_FILES = 1
  MaxWrites = 1
INVARIANTS
  CompilerLocked
  MemoryHeld
  RunningLinked
PROPERTIES
  ChecksReturn
  ScriptsCurrent
