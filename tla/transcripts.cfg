SPECIFICATION Spec
\* A transcript is bounded.
CHECK_DEADLOCK FALSE
CONSTANTS
  Clients <- AllClients
  Weight <- Sizes
  Window = 7
  Trigger = 6
  KeepResults = 1
  KeepRecent = 3
  Rescues <- Trims
  LoopWindow = 2
  LoopRepeats = 2
  CycleWindow = 4
  CycleCalls = 4
  CycleTenths = 6
  TextWindow = 3
  TextRepeats = 2
INVARIANT PairedUpstream
INVARIANT RefusedOnlyAtFloor
INVARIANT CachePolicyHolds
INVARIANT LoopsAreBroken
INVARIANT GeminiStaysEligible
