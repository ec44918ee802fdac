SPECIFICATION FairSpec
CONSTANTS
  Streams = {s1, s2}
  NoStream = NoStream
  NBuf = 3
INVARIANTS OneOwner ThreadConfined BuffersInFlight
PROPERTIES StopReturns DeviceRestarts
