SPECIFICATION FairSpec
CONSTANTS
    ControlAcks = 2
    AuthPackets <- MCAuthPackets
    MaxSaid <- MCMaxSaid
PROPERTY RequestCompletes
CHECK_DEADLOCK FALSE
