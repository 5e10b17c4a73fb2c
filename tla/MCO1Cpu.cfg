SPECIFICATION MCSpec
CONSTANTS
  t1 = t1
  t2 = t2
  t3 = t3
  Task = {t1, t2, t3}
  Pair = {t1, t2}
  NoTask = NoTask
  kBasePrio = 119
  kNumPrio = 2
  TimeSlice = 1
  Nice <- MCNice
  Charges <- MCCharges
INVARIANTS RunQueueOK StatesAgree
PROPERTIES RefinesPolicy NoTaskStarves
