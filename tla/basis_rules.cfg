SPECIFICATION Spec
CONSTANTS
  Table <- MCTable
  Classify <- ClassifyOp
  Emit <- ApplyRule
  None <- NoMnemonic
  Gate <- MCGate
  Kernels <- MCKernels
  Orders <- MCOrders
  MaxRounds = 2
  ExemptRules <- UnfaithfulRules
  TableEntries <- AllEntries
  NativeSets <- RuleNatives
  InputGates <- PlainGates
  PairGates = {}
  OneKernel = TRUE
  AllOrders = FALSE
PROPERTIES
  RewritesKeepMeaning
