CONSTANTS
  Threads = {t1, t2}
  Events = {e1, e2}
  Fds = {fd1, fd2, fd3}
  MaxWait = 2
  EventfdMax = 2
  NULL = NULL
SPECIFICATION Spec
SYMMETRY Symmetry
INVARIANTS TypeOK FlagMatchesCounter DescriptorsOwned Inv
PROPERTY ImplementsManualResetEvent
