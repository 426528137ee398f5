CONSTANTS
  Threads = {t1, t2}
  Versions <- SomeVersions
  ErrorCodes = {"0", "WSAEINVAL"}
  MaxCount = 2
  NULL = NULL
SPECIFICATION FairSpec
INVARIANTS TypeOK CountIsBalance Inv
PROPERTIES RefusedOnlyWhenClean MutexReleased
