SPECIFICATION SSpec
CONSTANTS
  Thread = {t1, t2, t3}
  Note = {ready, finished}
  NoNote = NoNote
  Child = {alpha, beta}
  Handler = {beta}
INVARIANTS NoLostWakeup EndsAreReported
PROPERTIES ImplementsEvent ChildrenDieWithParent WaitEnds
CHECK_DEADLOCK FALSE
