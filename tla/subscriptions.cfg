SPECIFICATION Spec
CONSTANTS
  r1 = r1
  r2 = r2
  Callers <- AllCallers
  Spent = 2
  Constrained = 1
  Length <- Lengths
  TTL = 1
  MaxTime = 3
SYMMETRY Slots
INVARIANT NearCapIsRemembered
INVARIANT ReadingsAreOwn
INVARIANT WithoutCreditsOnlyThePlan
