CONSTANTS
  App = {p, q}
  Home = p
  Participants = 2
  MaxRounds = 2
  Quorum = 2
  Item = {1, 2}
  Plans <- MCPlans
  DependsOn <- MCDependsOn
  MaxCrashes = 1
SPECIFICATION FairSpec
INVARIANTS DebateInv
PROPERTIES DebateEnds
CHECK_DEADLOCK FALSE
