SPECIFICATION FairSpec
CONSTANTS
    ControlAcks = 2
    AuthPackets <- MCAuthPackets
    MaxSaid <- MCMaxSaid
PROPERTY AgreementSpec
PROPERTY ClientRequestCompletes
CHECK_DEADLOCK FALSE
