SPECIFICATION Spec
CONSTANTS
  Kernels <- LongerKernels
  Alphabet <- PassGates
  MaxLength = 3
  Allocated = TRUE
  CompareKeys <- OnlyBoth
  ReductionModes <- Reductions
  MaxGates = 2
INVARIANTS
  TypeOK
PROPERTIES
  MeaningIsKeptElsewhere
