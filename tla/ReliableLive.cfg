SPECIFICATION FairSpec
CONSTANTS
  client = client
  server = server
  reset = reset
  tls1 = tls1
  tls2 = tls2
  Peer <- MCPeer
  Payload <- MCPayload
  TlsPayload <- MCTls
  MaxId = 2
  SendSpan = 1
  RecvSpan = 1
  ControlAcks = 1
  ReackCap = 1
  MaxMsgs <- MCMaxMsgs21
  MaxNet = 2
PROPERTIES EventuallyDelivered
CHECK_DEADLOCK FALSE
