SPECIFICATION Spec
\* A stream ends.
CHECK_DEADLOCK FALSE
CONSTANTS
  Paths <- AllPaths
  Slots = {1, 2}
  Marker = TRUE
  Footer = TRUE
  HadTools = TRUE
  MaxEvents <- EnoughEvents
INVARIANT BlocksAreBracketed
INVARIANT EndIsEarned
INVARIANT NothingIsLost
