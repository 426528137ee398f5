CONSTANTS
  Threads = {t1, t2}
  Jobs <- WholeFile
  Reads = {2}
  Capacity = 2
  MaxCalls = 1
SPECIFICATION Spec
INVARIANT NoHoles
