SPECIFICATION Spec
CONSTANTS
  c1 = c1
  c2 = c2
  Cpu = {c1, c2}
  CpuOrder <- MCTwoCpus
  Task = {t1}
  NoTask = NoTask
  NoCpu = NoCpu
  Agent = Agent
  Idle = Idle
  kBasePrio = 120
  kNumPrio = 1
  Nice = {0}
  TimeSlice = 1
  Charges = {1}
  SwitchTask = {}
  MaxPending = 2
  LateMessages = TRUE
INVARIANTS
  SafeToMigrate
CHECK_DEADLOCK FALSE
