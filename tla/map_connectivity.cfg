SPECIFICATION Spec
CONSTANTS
  NumQubits = 3
  Coupling <- Line
  Kernels <- SomeKernels
  Alphabet = {"cx 0 1", "cy 0 2"}
  MaxLength = 2
  AddMeasurements = {TRUE}
  SharedRefs = FALSE
  MaxSwaps = 2
INVARIANT RespectsConnectivity
CHECK_DEADLOCK FALSE
