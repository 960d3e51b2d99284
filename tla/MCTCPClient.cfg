CONSTANTS
  TCPBufferSize = 2
  KernelBuffer = 2
  MaxFd = 2
  MaxAddresses = 2
  MaxBytes = 3
  MaxConnects = 2
SPECIFICATION Spec
INVARIANTS
  TypeOK
PROPERTIES
  OnlyCreateSocketLeaks
  ImplementsOutbound
  ImplementsInbound
  EverythingIsReceived
