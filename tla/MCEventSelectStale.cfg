CONSTANTS
  Threads = {t1}
  Sockets = {s1}
  Events = {e1}
  Maps = {m1}
  Masks <- ReadOrNothing
  Conditions = {"EPOLLIN", "EPOLLERR"}
  NULL = NULL
SPECIFICATION Spec
INVARIANT MonitorSetsOpenEvent
