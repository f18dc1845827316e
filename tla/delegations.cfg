CONSTANTS
  N = 2
  Calls <- MCCalls
  Caller = {c, d}
SPECIFICATION FairSpec
INVARIANTS DelegationInv CancelOrOutcome OneStory
PROPERTIES CancelCloses ParallelCloses
CHECK_DEADLOCK FALSE
