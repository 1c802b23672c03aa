SPECIFICATION Spec
CONSTANTS
  Transports = {"tcp", "udp", "websocket", "file"}
  Lengths = {0, 1, 5}
  SenderMtus = {2, 3, 4}
  Mtu = 3
  Overhead = 1
  SizeBytes = 2
  Limits = {2}
  MaxMessages = 2
  MaxDatagrams = 3
  MaxStarts = 2
INVARIANTS ProcessExact MessagesWhole
CHECK_DEADLOCK FALSE
