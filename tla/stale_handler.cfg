CONSTANTS
  a = a  b = b  f = f  g = g  none = none
  Task = {1}
  Agent <- Agents
  NoAgent = none
  Workflow = {f}
  NoWorkflow = none
  WorkflowOf <- AllOfF
  Writes = {1}
  Deps <- NoDeps
  Suggested <- NobodySuggested
  MaxTaskAttempts = 2
  FirstPlan <- PlanOfF
  MaxReplans = 0
  MaxConsults = 1
  MaxOpenWorkflows = 1
  Worker <- OneSession
  AgentOf <- SlotAgent
  SessionOf <- SlotSession
  NoTask = 0
  MaxSession = 1
  MaxFaults = 2
SPECIFICATION Spec
PROPERTIES OldAttemptWritesNothing
CHECK_DEADLOCK FALSE
