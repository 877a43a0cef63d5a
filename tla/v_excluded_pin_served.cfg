SPECIFICATION Spec
CONSTANTS
  Models <- MCModels
  NoModel = "none"
  Available <- MCModels
  Tier <- MCTier
  Price <- MCPrice
  ReadMult <- MCReadMult
  Whole = 10
  Horizon = 3
  Threshold = 10
  Providers <- Every
  NoProvider = "noprovider"
  Wired <- Every
  Bindings <- MCBindings
  Window <- MCWindow
  Names <- MCNames
  ToolUseLow <- MCLow
  AgenticLow <- MCAgentic
  TextOnly <- MCText
  Clusters = {1, 2}
  Quality <- MCQuality
  Nearest <- MCNearest
  Alpha <- MCAlpha
  AlphaFloor <- MCFloor
  Press <- MCPress
  Band = 20
  Settings <- MCSettings
  Requests <- MCRequests
  Policies <- MCPolicies
  Gemini3 <- MCGemini3
  Factors <- MCFactors
PROPERTY
  PolicyBindsThePin
