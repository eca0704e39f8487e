SPECIFICATION Spec
CONSTANTS
  t1 = t1  t2 = t2  t3 = t3
  m1 = m1  m2 = m2  m3 = m3  m4 = m4
  f = f
  None = None
  ReloadFn = ReloadFn
  InfoFn = InfoFn
  Threads <- MCThreads2
  Modules <- MCModules
  Functions = {f}
  Versions = {1, 2}
  Exports <- MCExportsKept
SYMMETRY Symmetry2
PROPERTIES
  CurrentNeverOlder
