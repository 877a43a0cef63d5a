SPECIFICATION Spec
CONSTANTS
  anthropic = anthropic
  google = google
  openai = openai
  groq = groq
  together = together
  Providers = {anthropic, google, openai, groq, together}
  Anthropic = anthropic
  Google = google
  OpenAI = openai
  NoProvider = NoProvider
  Catalogs <- Bound
  Workload <- Everything
  MaxSameBindingRetries = 2
INVARIANT ExplainedErrorReachesResponses
