SPECIFICATION Spec
CONSTANTS
  NumQubits = 3
  Coupling <- Line
  Kernels <- SomeKernels
  Alphabet = {"sdg 1", "cx 0 2", "cz 2 1", "cy 0 2", "mz 0"}
  MaxLength = 3
  AddMeasurements = {TRUE, FALSE}
  SharedRefs = TRUE
  MaxSwaps = 2
INVARIANTS TypeOK ConnectsWhatIsLoaded KeepsTheProgram
CHECK_DEADLOCK FALSE
