SPECIFICATION MCSpec
CONSTANTS
  A = A  B = B  s = s  t = t
  Messages <- MCMessages
  SocketBuf = 12
  MaxRcvBuf = 6
  MaxFrames = 3
  Nodes = {A, B}
  Streams = {s, t}
  MaxObject = 1
  WireCap = 1
  MaxSent = 2
CHECK_DEADLOCK FALSE
ACTION_CONSTRAINT MCBound
INVARIANTS
  FramesWhole
  ExitExplained
  StreamsTypeOK
  NoCrossTalk
  
PROPERTIES
  FramesRead
