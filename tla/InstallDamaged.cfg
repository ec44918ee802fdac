SPECIFICATION FairSpec
CONSTANTS
  Versions = {1}
  Patchable = {1}
  Checked = {"data", "guid"}
  Managed = {"resources"}
PROPERTIES LaunchPrepares
