SPECIFICATION FairSpec
CONSTANTS
  Threads = {t1, t2, t3}
  NFds = 3
  Addrs = {a1}
  NoAddr = NoAddr
  Cap = 1
  MaxCount = 2
  Uses = {"setfl"}
INVARIANTS NoLostWakeup
PROPERTIES HangupEndsCall
CHECK_DEADLOCK FALSE
