SPECIFICATION Spec
CONSTANTS
  Netlists <- Fed
  MaxSlow = 1
INVARIANTS TypeOK DataflowKept OneConsumer EveryCycleBroken DependentOutputsMeet
PROPERTIES Terminates
