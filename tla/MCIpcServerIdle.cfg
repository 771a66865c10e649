\* The comment on Executable against the timeout of a CallReplyCallback.
CONSTANTS
  Daemons = {api}
  Authenticators = {a1}
  Pids = {1, 2}
  MaxFailures = 2
  Nobody = Nobody
  Conns = {c1}
  Pipes = {h1}
  MaxCalls = 1
SPECIFICATION ServerSpec
PROPERTY RescheduledUntilDone
