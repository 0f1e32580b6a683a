SPECIFICATION Spec
CONSTANTS
  Kernels <- MCKernels
  Alphabet <- CliffordGates
  MaxLength = 3
  Allocated = TRUE
  CompareKeys <- OnlyBoth
  ReductionModes <- Reductions
  MaxGates = 0
PROPERTIES
  MeaningIsKept
