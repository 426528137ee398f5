CONSTANTS
  Threads = {t1, t2}
  Requests = {r1, r2, r3, r4}
  Kinds = {"hostbyname", "servbyname"}
  MaxHandle = 3
  NULL = NULL
SPECIFICATION Spec
SYMMETRY Symmetry
INVARIANTS TypeOK HandlesDistinct RunningIsAllocated ListHoldsUnlessRaced
CHECK_DEADLOCK FALSE
