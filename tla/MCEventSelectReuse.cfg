CONSTANTS
  Threads = {t1}
  Sockets = {s1}
  Events = {e1}
  Maps = {m1}
  Masks <- ReadOnly
  Conditions = {"EPOLLIN"}
  NULL = NULL
SPECIFICATION Spec
INVARIANT AssociationWatched
