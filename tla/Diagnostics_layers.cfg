CONSTANTS
  BlockSize = 1
  StMin = 1
  NBs = 2
  NCr = 2
  NWftMax = 2
  Sizes = {1, 3}
  Modes = {{}, {"lossy"}, {"foreign"}, {"blocks"}, {"overlap", "lossy"}}
  MaxPdus <- Pdus
  MaxFaults = 2
  MaxPending = 3
  P2 = 1
  S3 = 2
  Did = {"vin", "d", "e"}
  Value = {1}
  TableSize = 2
  NewTable <- Table
  MaxRequests = 3
SPECIFICATION Spec
INVARIANT ResponsesMatch
PROPERTIES ImplementsPduChannel PdusArrive WaitsEnd SessionRule RequestsSent
