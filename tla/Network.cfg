SPECIFICATION FairSpec
CONSTANTS
  Circuits <- MCCircuits
  Channels <- MCChannels
  dataWidth = 32
  addrWidth = 6
  addrOffset = 16
INVARIANTS
  MutualExclusion
  AnswersReachTheirCaller
  WordsInPlace
  ReadYourWrites
  ConsumersAgree
PROPERTY EverythingArrives
