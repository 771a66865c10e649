\* Liveness, without symmetry: one address and one descriptor, two sessions.
CONSTANTS
  Sockets = {s1}
  Fds = {f1}
  MaxSessions = 2
  MaxTasks = 1
SPECIFICATION FairSpec
PROPERTY EndsWithItsAuthenticator
