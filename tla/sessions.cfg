CONSTANTS
  a = a  b = b  f = f  g = g  none = none
  Task = {1, 2}
  Agent <- Agents
  NoAgent = none
  Workflow = {f}
  NoWorkflow = none
  WorkflowOf <- AllOfF
  Writes = {2}
  Deps <- ChainDeps
  Suggested <- NobodySuggested
  MaxTaskAttempts = 1
  FirstPlan <- GrowingPlan
  MaxReplans = 1
  MaxConsults = 1
  MaxOpenWorkflows = 1
  Worker <- TwoSessions
  AgentOf <- SlotAgent
  SessionOf <- SlotSession
  NoTask = 0
  MaxSession = 2
  MaxFaults = 0
SPECIFICATION Spec
SYMMETRY SwapAgents
INVARIANTS AttemptInv PrerequisitesStayCompleted JobOfPlan
CHECK_DEADLOCK FALSE
