CONSTANTS
  Threads = {t1, t2}
  Requests = {r1, r2, r3}
  Kinds = {"hostbyname", "servbyname"}
  MaxHandle = 3
  NULL = NULL
SPECIFICATION Spec
SYMMETRY Symmetry
INVARIANT ListHoldsPushed
CHECK_DEADLOCK FALSE
