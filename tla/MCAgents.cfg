SPECIFICATION ASpec
CONSTANTS
  Cpu = {c1, c2}
  Overlap = FALSE
  Task = {t1, t2}
  NoTask = none
INVARIANTS HandoverSafe NoWorkLeftAsleep
PROPERTIES TransitionsComplete
CHECK_DEADLOCK FALSE
