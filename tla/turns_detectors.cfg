SPECIFICATION FairSpec
\* A behaviour ends when its bounded number of requests has been served.
CHECK_DEADLOCK FALSE
CONSTANTS
  opus = opus
  kimi = kimi
  anthropic = anthropic
  together = together
  groq = groq
  t1 = t1
  t2 = t2
  Models = {opus, kimi}
  Providers = {anthropic, together}
  NoModel = NoModel
  NoProvider = NoProvider
  Turns = {t1}
  MaxRequests = 2
  Bind <- BindSingle
  Scorers = {"cluster", "hmm", "perTurn"}
  Baseline = opus
  EscalateModel = opus
  Anthropic = anthropic
  RefusalFallback = opus
  Features = {"force", "degenerate", "lapse", "noProgress", "textLoop", "toolLoop", "cyclicLoop", "guards", "refusal", "bypass", "bypassFails", "baseline", "crash", "sweep"}
INVARIANT TypeOK
INVARIANT EscalatesOnce
PROPERTY RequestsFinish
