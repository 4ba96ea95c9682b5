SPECIFICATION Spec
CONSTANTS
  Netlists <- Unfed
  MaxSlow = 1
INVARIANTS EveryCycleBroken
