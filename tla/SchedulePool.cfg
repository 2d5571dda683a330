SPECIFICATION FairSpec
CONSTANTS
  Tasks = {t1, t2}
  Workers = {w1, w2}
  Started = {w1}
  NoTask = NoTask
  Caller = Caller
  MaxQueue = 2
INVARIANTS
  FlagsAgree
  NoLostSchedule
PROPERTIES
  EveryRequestRuns
  ShutdownEnds
CHECK_DEADLOCK FALSE
