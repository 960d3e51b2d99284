CONSTANTS
  p1 = p1
  p2 = p2
  Peers <- MCPeers
  Listener = Listener
  EventsLength = 2
  TCPBufferSize = 2
  KernelBuffer = 2
  HeaderLength = 1
  MaxRequests <- MCMaxRequests
SPECIFICATION Spec
INVARIANTS
  TypeOK
  ListsAgree
  HangupNeverMissed
  NoRequestIsLost
  RepliesInOrder
PROPERTIES
  NothingUnreadWhenDropped
  RepliesFit
  ConnectionsAreAccepted
  RequestsAreServed
