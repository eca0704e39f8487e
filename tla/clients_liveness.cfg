SPECIFICATION ClientSpec
CONSTANTS
  f = f
  None = None
  ReloadFn = ReloadFn
  InfoFn = InfoFn
  Threads = {t1, t2}
  Modules = {m1, m2, m3}
  Functions = {f}
  Versions = {1, 2}
  Exports <- MCExportsLost
  MaxCalls = 3
PROPERTIES
  CallsReturn
  OnlyCurrentStays
  UnloadsRetired
CHECK_DEADLOCK FALSE
