SPECIFICATION Spec
CONSTANTS
  Programs <- AShrProgram
  FreeOrder = 3
INVARIANT MeaningKept
