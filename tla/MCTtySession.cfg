CONSTANTS
  Sockets = {s1, s2}
  Fds = {f1, f2}
  MaxSessions = 2
  MaxTasks = 1
SPECIFICATION Spec
SYMMETRY Symmetry
INVARIANTS
  TypeOK
  OnlyJoinedSessionsLeak
PROPERTIES
  ClosedForACause
  ReaderHearsItsOwn
