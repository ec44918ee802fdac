SPECIFICATION FairSpec
CONSTANTS
  Versions = {1, 2}
  Patchable = {1}
  Checked = {"data", "guid", "metadata"}
  Managed = {"metadata", "resources"}
INVARIANTS MarkerMeansComplete StartedComplete MediaKept
PROPERTIES StartsUnlessDamaged
