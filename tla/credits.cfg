SPECIFICATION Spec
CONSTANTS
  Slots = {s1, s2}
  Keys = {k1, k2}
  Users = {u1}
  Org = org
  Nobody = nobody
  NoLimit = nolimit
  Limit <- Limits
  KeyCap = 45
  UserLimit = 20
  OrgLimit = 50
  Costs = {20}
  ByokRows = {TRUE, FALSE}
  StartBalance = 20
  Threshold = 20
  TopUp = 20
  MaxByok = 2
  MaxPlain = 3
  MaxRequests <- RequestBound
  MaxTopUps = 1
SYMMETRY Interchangeable
INVARIANTS
  BooksBalance
  EveryCrossingSeen
  OvershootBounded
CHECK_DEADLOCK FALSE
