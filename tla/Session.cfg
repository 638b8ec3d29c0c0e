SPECIFICATION FairSpec
CONSTANTS
    Configs <- MCConfigs
    Errors = {"TUN_ERROR"}
    PushLists <- MCPushLists
    Infos <- MCInfos
    MaxRequests = 1
    MaxPosts = 1
    MaxSessions = 2
    MaxToClient = 1
INVARIANTS SessionTypeOK InfoInOrder NoAuthLoop PreservedIdIsKept
PROPERTIES  SessionResolves
CHECK_DEADLOCK FALSE
