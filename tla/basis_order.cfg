SPECIFICATION Spec
CONSTANTS
  Table <- MCTable
  Classify <- ClassifyOp
  Emit <- ApplyRule
  None <- NoMnemonic
  Gate <- MCGate
  Kernels <- MCKernels
  Orders <- MCOrders
  MaxRounds = 64
  TableEntries <- RotationEntries
  NativeSets <- RotationNatives
  InputGates = {}
  PairGates = {}
  OneKernel = FALSE
  AllOrders = TRUE
INVARIANTS
  WitnessesAreRanked
  WitnessesAreComplete
