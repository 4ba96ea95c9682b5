SPECIFICATION Spec
CONSTANTS
  Programs <- MCPrograms
  FreeOrder = 4
INVARIANTS
  TypeOK
  MeaningKept
  Simplified
  InputsDriven
PROPERTY Converges
