\* Liveness on one connection slot, reused by every peer, two calls each.
CONSTANTS
  Daemons = {api}
  Authenticators = {a1}
  Pids = {1, 2}
  MaxFailures = 2
  Nobody = Nobody
  Conns = {c1}
  Pipes = {h1}
  MaxCalls = 2
SPECIFICATION FairServerSpec
PROPERTY EveryCallIsSettled
