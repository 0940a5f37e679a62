SPECIFICATION Spec
CONSTANTS
  A = A  B = B  ctl = ctl  in = in  peer = peer
  Nodes = {A, B}
  Queues = {ctl, in, peer}
  None = None
  Home <- MCHome
  Dir <- MCDir
  MaxQq = 2
  PipeCap = 2
  MaxSent = 3
CHECK_DEADLOCK FALSE
ACTION_CONSTRAINT MCBound
INVARIANTS
  NodesTypeOK
  WakeUpForEveryMessage
  NoEcho
PROPERTIES
  BroadcastSpec
  ReadersServed
