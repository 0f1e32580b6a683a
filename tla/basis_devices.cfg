SPECIFICATION Spec
CONSTANTS
  Table <- MCTable
  Classify <- ClassifyOp
  Emit <- ApplyRule
  None <- NoMnemonic
  Gate <- MCGate
  Kernels <- MCKernels
  Orders <- MCOrders
  MaxRounds = 64
  TableEntries <- AllEntries
  NativeSets <- DevicesAndPoor
  InputGates <- DeviceGates
  PairGates <- DevicePairs
  OneKernel = FALSE
  AllOrders = FALSE
INVARIANTS
  TypeOK
  SuccessIsNative
  RoundsAreBounded
  EmitsResolvable
  DeclaresItsEmissions
PROPERTIES
  KeepsContract
