SPECIFICATION FairSpec
CONSTANTS
  Data = {a, b}
  Outputs = {o1, o2, o3}
  MaxTokens = 4
INVARIANTS
  EveryOutputEveryToken
  NeverAllAccepted
PROPERTIES
  InputNeverStuck
