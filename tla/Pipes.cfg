SPECIFICATION Spec
CONSTANTS
  Threads = {t1, t2}
  NFds = 3
  Addrs = {a1}
  NoAddr = NoAddr
  Cap = 2
  MaxCount = 2
  Uses = {"dup", "dup2", "setfl", "poll"}
VIEW View
SYMMETRY Symmetry
INVARIANTS RefcountsExact NoUseAfterFree
PROPERTIES ImplementsChannels
CHECK_DEADLOCK FALSE
