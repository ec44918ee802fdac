SPECIFICATION Spec
CONSTANTS
  GlThreads = {g1, g2}
  NoGlThread = NoGlThread
  DeleteThreshold = 2
  ForceThreshold = 1
  Batch = 1
  MaxSeq = 3
  Callbacks = {c1, c2}
  NoCallback = NoCallback
  NSlots = 2
  Stall = 1
  Frame = 1
  MaxNow = 4
  Fingers = {f1, f2}
  NoFinger = NoFinger
  Threads = {t1, t2}
  NoThread = NoThread
  Fds = {f1, f2}
  LooperFds = {f1}
  NLoopers = 2
  MaxRegs = 1
  MaxMs = 1
  HeapStarts = {0, 1, 3}
  HeapSizes <- MCHeapSizes
  Slot = 2
  ArenaMax = 66
  SoArena = 3
  MinNewlib = 24
  BootHeap = 29
  AddrSpan = 256
  Libs <- MCLibs
SYMMETRY Symmetry
INVARIANTS
   NothingMissed PostedRunsOnce OnePointer WholeOrNothing ArenasFit
PROPERTIES ClockForward
CHECK_DEADLOCK FALSE
