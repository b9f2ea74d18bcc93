CONSTANTS
  Matches = {m1}
  MaxChannels = 2
  ChannelLists <- MixedLists
  MaxRetries = 2
  MaxDbErrors = 2
  MaxCrashes = 1
  MaxEdits = 1
SPECIFICATION Spec
INVARIANTS OneAttemptAtATime SendsBounded NoNeedlessDuplicate SentMeansAccepted RestsOnlyWhenSettled
PROPERTIES KeepsPromise
CHECK_DEADLOCK FALSE
