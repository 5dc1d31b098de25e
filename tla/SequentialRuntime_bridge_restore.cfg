CONSTANTS
  NBCL = 2
  Plan <- ReceivePlan
  BridgeOrder <- OneBridge
  KeyframeInterval = 2
  Endings = {"Continue"}
  LogMayFail = FALSE
  MaxClid = 3
SPECIFICATION SeqSpec
INVARIANT KeyframeRestorable
