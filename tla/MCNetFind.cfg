SPECIFICATION Spec
CONSTANTS
  a = a  b = b  host = host  o1 = o1  o2 = o2
  Ids = {a, b}
  Addrs = {host}
  Addr <- MCAddr
  Objects = {o1, o2}
  None = None
  MaxFailure = 1
  PingIds = {p1}
  MaxNet = 2
CHECK_DEADLOCK FALSE
ACTION_CONSTRAINT MCBound
INVARIANTS
  NetFindTypeOK
  RefsExact
  TablesAgree
PROPERTIES
  ForgottenForGood
