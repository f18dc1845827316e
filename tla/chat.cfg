SPECIFICATION FairSpec
CHECK_DEADLOCK FALSE
CONSTANTS
  a1 = a1  a2 = a2
  Agent <- Pair
  Prompt = {1, 2, 3}
  Settings <- MCSettings
INVARIANTS
  ChatInv
  CancelReachesRun
  NothingLeftBehind
PROPERTIES
  StopIsFinal
  EveryPromptEnds
