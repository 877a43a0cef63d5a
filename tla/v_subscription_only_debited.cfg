SPECIFICATION Spec
CONSTANTS
  Slots = {s1, s2}
  Keys = {k1}
  Users = {u1}
  Org = org
  Nobody = nobody
  NoLimit = nolimit
  Limit <- Limits
  KeyCap = nolimit
  UserLimit = nolimit
  OrgLimit = nolimit
  Costs = {20}
  ByokRows = {TRUE}
  StartBalance = 20
  Threshold = 20
  TopUp = 40
  MaxByok = 2
  MaxPlain = 2
  MaxRequests <- RequestBound
  MaxTopUps = 0
SYMMETRY Interchangeable
PROPERTIES
  SubscriptionOnlyIsFree
CHECK_DEADLOCK FALSE
