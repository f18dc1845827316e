CONSTANTS
  a = a  b = b  f = f  none = none
  Task = {1, 2}
  Agent = {a, b}
  NoAgent = none
  Workflow = {f}
  NoWorkflow = none
  WorkflowOf <- AllOfF
  Writes = {}
  Deps <- NoDeps
  Suggested <- EachSuggested
  MaxTaskAttempts = 1
  FirstPlan <- GrowingPlan
  MaxReplans = 1
  MaxConsults = 1
  MaxOpenWorkflows = 1
  Reconciler = {monitor}
  Caller = {caller}
  MaxFaults = 1
SPECIFICATION FairSpec
INVARIANTS CoordinatorInv
PROPERTIES BlocksOnlyStuck AnswerFitsDecision AcceptedIsConcluded
CHECK_DEADLOCK FALSE
