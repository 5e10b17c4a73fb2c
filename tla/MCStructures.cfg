SPECIFICATION MCSpec
CONSTANTS
  List = {l1, l2}
  Cpu = {c1, c2}
  Thread = {t1, t2}
  MaxLoops = 2
  ChainDeparts = FALSE
  EarlyReturn = FALSE
  None = None
SYMMETRY Symmetry
VIEW MCView
INVARIANTS TreesAreSound ThreadsAreKept LoadIsKept
PROPERTIES TreeIsSortedQueue ListsAreTailQ
