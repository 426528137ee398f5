CONSTANTS
  Threads = {t1, t2}
  Events = {e1}
  Fds = {fd1, fd2}
  MaxWait = 1
  EventfdMax = 2
  NULL = NULL
SPECIFICATION FairSpec
PROPERTIES MutexReleased WaiterWoken
