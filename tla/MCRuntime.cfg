SPECIFICATION RSpec
CONSTANTS
  a1 = a1
  a2 = a2
  p1 = p1
  p2 = p2
  g1 = g1
  t1 = t1
  t2 = t2
  None = None
  Agent = {a1, a2}
  Cpu = {1, 2, 3}
  Target = {t1, t2}
  Solo <- NoSolo
  Groups <- Overlapping
  MaxOps = 2
  AwaitCommit = TRUE
  Clients = {c1, c2}
  Owner = owner
  Main = main
  Rpc = rpc
  Requests = {t1, t2}
  Parts = {"overlap", "solo", "makers", "takeover", "rpc", "slot", "wrap"}
SYMMETRY Symmetry
INVARIANTS
  OwnedIsMine TransactionsAreExact MakerHasItsOwn TakenOverExactly OwnAnswer RingIsSound
CHECK_DEADLOCK FALSE
