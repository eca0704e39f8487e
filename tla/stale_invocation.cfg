SPECIFICATION HistorySpec
CONSTANTS
  f = f
  None = None
  ReloadFn = ReloadFn
  InfoFn = InfoFn
  Threads = {t1, t2}
  Modules = {m1, m2, m3}
  Functions = {f}
  Versions = {1, 2}
  Exports <- MCExportsKept
  MaxCalls = 3
INVARIANTS
  NewCallsRunNewBuild
CHECK_DEADLOCK FALSE
