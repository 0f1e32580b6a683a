SPECIFICATION Spec
CONSTANTS
  Kernels <- MCKernels
  Alphabet <- PassGates
  MaxLength = 2
  ReductionModes <- Reductions
  MaxOps = 7
INVARIANTS
  TypeOK
PROPERTIES
  ValuesAreKept
  ExecutionIsKept
  StaysLinear
  LoweringRunsTheKernel
  NothingErasedIsUsed
  OnlyNullRotationsAreRejected
CHECK_DEADLOCK FALSE
