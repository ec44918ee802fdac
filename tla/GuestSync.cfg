SPECIFICATION SyncSpec
CONSTANTS
  k1 = k1
  k2 = k2
  c1 = c1
  Threads = {t1, t2}
  NoThread = NoThread
  Objects = {k1, k2, c1}
  NoObject = NoObject
  NSlots = 2
  Mutexes = {k1, k2}
  Conds = {c1}
  MutexOf <- MCMutexOf
  Types = {"normal", "recursive", "errorcheck"}
  MaxDepth = 2
  w1 = w1
  w2 = w2
  w3 = w3
  FutexThreads = {u1, u2, u3}
  Nobody = Nobody
  Words = {w1, w2, w3}
  NoWord = NoWord
  Hash <- MCHash
  NFutexes = 2
  Values = {0, 1}
  Main = main
  Handles = {h1, h2, h3}
SYMMETRY Symmetry
INVARIANTS
  HoldersOwnSlot NoStaleSlot NoMissedSignal
  NoMissedWake WaitersExact
  OneReclaimer JoinerKeeps FreedAfterEnd
