\* With R = 2 a logical window (two regions less one unit) already ends inside its
\* second region; with 3 a guest can also give back only a part of the region
\* after the kept ones.
SPECIFICATION Spec
CONSTANTS
  Threads = {t1, t2}
  R = 3
  NSlots = 3
  Keep256 = 2
  MaxRec = 3
  HeapRegions = 1
  Kinds = {"window", "direct", "aligned256", "small"}
  Guest = "tails"
INVARIANTS ArenaExact BackingExact
PROPERTIES UnmapKeepsMatch
