CONSTANTS
  Daemons = {api}
  Authenticators = {a1}
  Pids = {1, 2}
  MaxFailures = 2
  Nobody = Nobody
  Conns = {c1, c2}
  Pipes = {h1, h2}
  MaxCalls = 1
SPECIFICATION ServerSpec
SYMMETRY Symmetry
INVARIANTS
  ServerTypeOK
  LiveCallNotRefused
  ServedAsItself
  StrayMailNeedsADeath
PROPERTIES
  AnsweredAfterSpawn
