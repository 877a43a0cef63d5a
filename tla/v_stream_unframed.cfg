SPECIFICATION Spec
CHECK_DEADLOCK FALSE
CONSTANTS
  Paths <- GeminiChain
  Slots = {1}
  Marker = TRUE
  Footer = TRUE
  HadTools = TRUE
  MaxEvents <- EnoughEvents
INVARIANT FailedStreamIsFramed
