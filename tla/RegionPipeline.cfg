SPECIFICATION FairSpec
CONSTANTS
  Regions <- MCRegions
  MaxLate = 3
  MaxTokens = 3
INVARIANTS ScheduleSound
PROPERTIES ChannelSpec EventuallyDelivered
