\* The code's limit of five lives, one daemon, two authenticator slots.
CONSTANTS
  Daemons = {api}
  Authenticators = {a1, a2}
  Pids = {1, 2, 3}
  MaxFailures = 5
  Nobody = Nobody
SPECIFICATION FairSpec
INVARIANTS
  TypeOK
  RegistryIsExact
  OneLifeline
  CreatorHearsOnce
PROPERTIES
  ImplementsLifecycle
  DeadChildIsReplaced
