SPECIFICATION Spec
CONSTANTS
  client = client
  server = server
  reset = reset
  tls1 = tls1
  tls2 = tls2
  Peer <- MCPeer
  Payload <- MCPayload2
  TlsPayload <- MCTls2
  MaxId = 3
  SendSpan = 2
  RecvSpan = 2
  ControlAcks = 1
  ReackCap = 2
  MaxMsgs <- MCMaxMsgs31
  MaxNet = 2
INVARIANTS TypeOK DeliveredPrefix AckedOnlyIfArrived NeverBeyondWindow QueuedOnlyIfFull
PROPERTIES InvalidatedIsFinal ChannelSpec
CHECK_DEADLOCK FALSE
SYMMETRY MCSymmetry
