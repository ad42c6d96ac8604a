SPECIFICATION Spec
CONSTANTS
  t1 = t1
  t2 = t2
  Threads = {t1, t2}
  Main = t1
  NoThread = NoThread
  Tags = {1}
  InstallSymbols <- Program
  Tables <- Script
  Infos = {1, 2, 3, 4, 5, 6}
  NoInfo = 0
  MAXBTDEPTH = 1
  MAX_SIGNALS = 2
  MAX_CALLS = 3
CHECK_DEADLOCK FALSE
INVARIANTS
  IndexesWhole
  NamesStale
  NearestFound
PROPERTIES
  CrashesAnswered
