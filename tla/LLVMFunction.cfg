SPECIFICATION Spec
CONSTANTS
  Functions <- AllFunctions
  Samples <- Arguments
  Calls = 2
  Slots = 3
  Modulus = 4
INVARIANTS InputsAreTheLiveValues AbortsOnlyForTheFlowGraph FollowsLLVM
PROPERTIES EveryCallAnswered
