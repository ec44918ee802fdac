SPECIFICATION FairSpec
CONSTANTS
  Mutators = {m1, m2}
  Collector = gc
  NoThread = NoThread
  MaxCount = 2
INVARIANTS NoLostPost WorldStopped
PROPERTIES PausedRunsAgain
