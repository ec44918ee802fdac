\* R = 2 is the smallest size at which a logical window (two regions less one unit)
\* ends inside its second region.
SPECIFICATION Spec
CONSTANTS
  Threads = {t1}
  R = 2
  NSlots = 2
  Keep256 = 2
  MaxRec = 2
  HeapRegions = 1
  Kinds = {"window", "direct", "aligned256", "small"}
  Guest = "prompt"
PROPERTIES UnmapHitsOwner
