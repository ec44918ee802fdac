SPECIFICATION Spec
CONSTANTS
  Threads = {t1, t2}
  NoThread = NoThread
  NFds = 3
  NSlots = 2
  MaxGiven = 4
SYMMETRY Symmetry
INVARIANTS RecordsTrue RecordsKept HandleOfOwnFile
