CONSTANTS
  Clients = {c1, c2}
  Controls = {t1, t2}
  None = none
  MaxAttempts = 3
  c1 = c1
  c2 = c2
  MaxRequests <- MCMaxRequests
SPECIFICATION Spec
CHECK_DEADLOCK FALSE
INVARIANTS
  ControlTypeOK
  OneClientServed
PROPERTY
  DataHandled
