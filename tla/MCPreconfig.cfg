CONSTANTS
  NumKeys = 3
  NumFiles = 2
  PiccDiversify = TRUE
  AppDiversify = {0, 1}
SPECIFICATION Spec
INVARIANTS
  TypeOK
  KeysBeforeFiles
  OneUidPerCard
  ZeroKeysNeedACut
  Recoverable
