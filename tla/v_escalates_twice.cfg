SPECIFICATION Spec
\* A behaviour ends when its bounded number of requests has been served.
CHECK_DEADLOCK FALSE
CONSTANTS
  opus = opus
  kimi = kimi
  anthropic = anthropic
  together = together
  groq = groq
  t1 = t1
  t2 = t2
  Models = {opus, kimi}
  Providers = {anthropic, together}
  NoModel = NoModel
  NoProvider = NoProvider
  Turns = {t1, t2}
  MaxRequests = 3
  Bind <- BindSingle
  Scorers = {"cluster"}
  Baseline = opus
  EscalateModel = opus
  Anthropic = anthropic
  RefusalFallback = opus
  Features = {"cyclicLoop"}
INVARIANT EscalatesOnce
