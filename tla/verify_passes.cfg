SPECIFICATION Spec
CONSTANTS
  Names = {bell, main}
  KernelLabels = {"flip", "flip HZH", "flip flip", "empty", "cy", "u3", "dynamic", "gone"}
  Kernels <- MCKernels
  ConsideredEquivalent <- SameCircuit
  AssertsEnabled = FALSE
SYMMETRY Symmetry
INVARIANTS TypeOK Sound NoFalseAlarm
CHECK_DEADLOCK FALSE
