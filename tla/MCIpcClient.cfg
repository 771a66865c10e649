CONSTANT MaxId = 3
SPECIFICATION FairSpec
INVARIANTS
  TypeOK
  NoLostWakeup
  OnlyTimeoutsLeak
  RacesNeedATimeout
PROPERTIES
  ImplementsRequestReply
  CallReturns
  QueueDrains
