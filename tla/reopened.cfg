CONSTANTS
  a = a  b = b  f = f  g = g  none = none
  Task = {1, 2}
  Agent = {a}
  NoAgent = none
  Workflow = {f}
  NoWorkflow = none
  WorkflowOf <- AllOfF
  Writes = {1}
  Deps <- NoDeps
  Suggested <- NobodySuggested
  MaxTaskAttempts = 1
  FirstPlan <- GrowingPlan
  MaxReplans = 1
  MaxConsults = 1
  MaxOpenWorkflows = 1
  Worker <- LoneSlots
  AgentOf <- SlotAgent
  SessionOf <- SlotSession
  NoTask = 0
  MaxSession = 2
  MaxFaults = 0
SPECIFICATION FairSpec
PROPERTIES WorkflowSettles
CHECK_DEADLOCK FALSE
