SPECIFICATION Spec
CONSTANTS
  Calls <- MCCalls
  NumQubits = 3
  Coupling <- Line
  MaxSwaps = 1
  SharedRefs = TRUE
  CompareKeys <- OnlyBoth
  ConsideredEquivalent <- SameCircuit
  Table <- MCTable
  Classify <- ClassifyOp
  Emit <- ApplyRule
  None <- NoMnemonic
  Orders <- MCOrders
  MaxRounds = 64
INVARIANTS
  CompiledRunsOnTheDevice
  CompiledKeepsTheProgram
  VerifiedKeepsTheKernel
  AliasesAreDeclared
  ConversionStaysCoupled
