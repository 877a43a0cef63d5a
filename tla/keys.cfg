SPECIFICATION FairSpec
\* The requests to come are not bounded, the administrative calls are.
CHECK_DEADLOCK FALSE
CONSTANTS
  k1 = k1
  k2 = k2
  k3 = k3
  v1 = v1
  v2 = v2
  a1 = a1
  a2 = a2
  r1 = r1
  r2 = r2
  Keys = {k1, k2, k3}
  Issued = {k1}
  Replicas = {r1, r2}
  Verifiers = {v1, v2}
  Admins = {a1, a2}
  Home <- HomeDouble
  Asks <- AsksShared
  Calls <- CallsShared
  MaxChanges = 2
INVARIANT OnlyBaredOutliveInvalidation
INVARIANT OneSuccessor
INVARIANT IndexedIsCached
PROPERTY ChangeReachesEveryReplica
