CONSTANTS
  a = a  b = b  f = f  g = g  none = none
  Task = {1, 2}
  Agent <- Agents
  NoAgent = none
  Workflow = {f, g}
  NoWorkflow = none
  WorkflowOf <- TwoOf
  Writes = {1, 2}
  Deps <- NoDeps
  Suggested <- NobodySuggested
  MaxTaskAttempts = 1
  FirstPlan <- TwoPlans
  MaxReplans = 0
  MaxConsults = 1
  MaxOpenWorkflows = 2
  Worker <- OneSession
  AgentOf <- SlotAgent
  SessionOf <- SlotSession
  NoTask = 0
  MaxSession = 1
  MaxFaults = 0
SPECIFICATION Spec
SYMMETRY SwapAgents
INVARIANTS WriterExclusion WritersOverlapOnlyWhenCancelled InterruptReachesEveryRun
CHECK_DEADLOCK FALSE
