CONSTANTS
  a = a  b = b  f = f  g = g  none = none
  Task = {1, 2}
  Agent <- Agents
  NoAgent = none
  Workflow = {f}
  NoWorkflow = none
  WorkflowOf <- AllOfF
  Writes = {1, 2}
  Deps <- ChainDeps
  Suggested <- FirstForA
  MaxTaskAttempts = 1
  FirstPlan <- PlanOfF
  MaxReplans = 1
  MaxConsults = 1
  MaxOpenWorkflows = 1
  Worker <- OneSession
  AgentOf <- SlotAgent
  SessionOf <- SlotSession
  NoTask = 0
  MaxSession = 1
  MaxFaults = 1
SPECIFICATION FairSpec
INVARIANTS TypeOK DeliveryOfCurrentAttempt PlanIsClosed
PROPERTIES CompletionIsReviewed WorkflowSettles
CHECK_DEADLOCK FALSE
