SPECIFICATION Spec
CHECK_DEADLOCK FALSE
CONSTANTS
    consumer = consumer
    first = first
    second = second
    Jobs <- MCJobs
    Request = {first, second}
    Cancellable = {second}
    Tool <- MCTool
    Manager = {"chat", "fork"}
    KeysOf <- MCKeysOf
    Pump = {pump}
    Gate = {"pipe", "textual"}
    MaxLines = 2
    Scoped = {"patch_ab", "patch_ba"}
    ScopeUses = 1
    Budget = 1
    Chat = "chat"
    MaxGrants = 1
INVARIANTS
    LineIsAnswer
    ChatGetsStdinBack
    ApprovedBySomebody
    ApprovalInv
    OnePrompt
PROPERTIES
    ChatLeavesAnswers
    EveryCallEnds
