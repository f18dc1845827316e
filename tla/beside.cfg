CONSTANTS
  a = a  b = b  f = f  g = g  none = none
  Task = {1, 2}
  Agent <- Agents
  NoAgent = none
  Workflow = {f}
  NoWorkflow = none
  WorkflowOf <- BesidePlain
  Writes = {1}
  Deps <- NoDeps
  Suggested <- NobodySuggested
  MaxTaskAttempts = 2
  FirstPlan <- GrowingPlan
  MaxReplans = 0
  MaxConsults = 1
  MaxOpenWorkflows = 1
  Worker <- OneSession
  AgentOf <- SlotAgent
  SessionOf <- SlotSession
  NoTask = 0
  MaxSession = 1
  MaxFaults = 0
SPECIFICATION Spec
SYMMETRY SwapAgents
INVARIANTS ReworkBound
PROPERTIES ImplementsLifecycle
CHECK_DEADLOCK FALSE
