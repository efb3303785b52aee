SPECIFICATION Spec
CONSTANTS
  Addrs = {1, 2}
  Servers <- MCServers
  Fates <- MCFates
  Conns = {1, 2}
  Fds = {1, 2, 3}
  Objects <- AllObjects
  MaxStarts = 2
  BodySizes = {0, 2}
  MaxCalls = 5
  MaxTimeouts = 1
  BufferSize = 3
  Bits4 = 6
  Bytes6 = 3
  ByteWidth = 3
  Groups6 = 8
  MaxHost = 5
INVARIANTS FdOwned InStep AddressesAgree
PROPERTY StopEnds
CHECK_DEADLOCK FALSE
