SPECIFICATION FairSpec
CONSTANTS
  Opinion = {1, 2, 3}
  Claims <- FirstTwo
  JobId <- LaterShare
  Unreadable = {3}
  Recorded = {1, 3}
  Workers = 2
  Stranger = 0
  MaxEntries <- FirstRepeats
  MaxFaults = 1
  ShadowText <- SomeText
INVARIANTS
  EveryJobAccounted
PROPERTIES
  OneAnswerEach
  NeverAskedAgain
  EveryClaimDone
