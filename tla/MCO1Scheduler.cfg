SPECIFICATION Spec
CONSTANTS
  c1 = c1
  c2 = c2
  Cpu = {c1, c2}
  CpuOrder <- MCTwoCpus
  Task = {t1, t2}
  NoTask = NoTask
  NoCpu = NoCpu
  Agent = Agent
  Idle = Idle
  kBasePrio = 120
  kNumPrio = 1
  Nice = {0}
  TimeSlice = 1
  Charges = {1}
  SwitchTask = {t1, t2}
  MaxPending = 1
  LateMessages = FALSE
SYMMETRY MCSymmetry
INVARIANTS
  NoCheckFails
  TasksAreKept
  IdleCpuIsWoken
