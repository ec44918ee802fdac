SPECIFICATION Spec
CONSTANTS
  Threads = {t1, t2}
  R = 3
  NSlots = 3
  Keep256 = 2
  MaxRec = 2
  HeapRegions = 1
  Kinds = {"direct", "aligned256", "small", "file"}
  Guest = "any"
INVARIANTS RecordsMatchGuest
PROPERTIES ImplementsAddressSpace
