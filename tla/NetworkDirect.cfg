SPECIFICATION Spec
CONSTANTS
  Circuits <- DirectCircuits
  Channels <- MCChannels
  dataWidth = 32
  addrWidth = 6
  addrOffset = 16
INVARIANT AnswersReachTheirCaller
