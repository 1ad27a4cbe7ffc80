SPECIFICATION ServiceSpec
CONSTANTS
    x = x
    Agents <- MCAgents
    Messages = 2
    Spec <- MCSpec
    Burst = 1
    Refill = 1
    History = 2
    Conversations = 1
    MaxToolRounds = 1
    MaxQuestions = 1
    MaxMemory = 1
    Grant = 2
    Ticks = 1
    MaxEdits = 2
    MaxRestarts = 1
    MaxFaults = 1
INVARIANT
    MessageInFlightCompletes
CHECK_DEADLOCK FALSE
