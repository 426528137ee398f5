CONSTANTS
  Threads = {t1, t2}
  Sockets = {s1}
  Events = {e1}
  Maps = {m1, m2}
  Masks <- ReadOrNothing
  Conditions = {"EPOLLIN"}
  NULL = NULL
SPECIFICATION FairSpec
INVARIANTS TypeOK OneMappingPerSocket BlocksOwned MonitorsServeListed AssociationRecorded
PROPERTIES LockReleased KeepsNotifying
