SPECIFICATION FairSpec
CONSTANTS
  Data = {a, b}
  MaxTokens = 5
INVARIANTS
  SlotTwoNeverOverrun
  FullThroughput
PROPERTIES
  ChannelSpec
  EventuallyDelivered
