SPECIFICATION FairSpec
CONSTANTS
  Threads = {t1, t2, t3}
  Half = 5
  NoThread = NoThread
INVARIANTS
  TypeOK
  WordCountsOwners
  NoLostWakeUp
  NoLostDrain
  WriterIdIsOwner
PROPERTIES
  ImplementsReadersWriter
  ClaimSucceeds
  SleepersWake
