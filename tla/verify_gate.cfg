SPECIFICATION Spec
CONSTANTS
  Names = {bell}
  KernelLabels = {"flip", "flip HZH", "phase", "empty"}
  Kernels <- MCKernels
  ConsideredEquivalent <- SameCircuit
  AssertsEnabled = TRUE
INVARIANT Gate
CHECK_DEADLOCK FALSE
