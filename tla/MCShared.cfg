SPECIFICATION SSpec
CONSTANTS
  Writer = {w1, w2}
  NumItems = 2
  Cap = 1
  NumRetries = 0
  SeqMod = 8
  MaxUpdates = 2
  Creators = {t1, t2}
  Attachers = {c1}
  Servers = {s1, s2}
  Askers = {a1, a2}
  Nil = Nil
INVARIANTS NoTornRead NoLostUpdate AttachedIsInitialized ServesOnce
PROPERTIES ClientsReturn PublishedIsTaken ImplementsQueue
