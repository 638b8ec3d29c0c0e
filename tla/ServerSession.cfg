SPECIFICATION ServerSpec
CONSTANTS
    Factories <- MCFactories
    PushLists <- MCPushLists
    Infos <- MCInfos
    MaxRequests = 1
    MaxToClient = 1
    Pre = 1
    Post = 2
    HaltDelay = 2
    RelayDelay = 4
    Delays = {1, 6}
    KeyTimes <- MCKeyTimes
    Infinite = 12
    MaxLate = 1
    MaxCalls = 3
INVARIANTS DisconnectArmed
PROPERTIES ContractSpec
CHECK_DEADLOCK FALSE
