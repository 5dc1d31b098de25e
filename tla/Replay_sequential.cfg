CONSTANTS
  NBCL = 3
  Plan <- SendPlan
  BridgeOrder <- OneBridge
  KeyframeInterval = 2
  Endings = {"Continue", "Abort", "Shutdown", "Panic"}
  LogMayFail = TRUE
  MaxClid = 5
  Recordings <- Logs
  Times = {0, 1, 5, 11, 21, 41, 60}
  Fleets <- LogFleets
SPECIFICATION Spec
INVARIANTS RingIsStack EndTarget LoggedUnlessLost SlotsLostToErrors
  KeyframeIsPrefix KeyframeHasList
  ShowsTheRecording StuckOnlyOnCycles OutputFaithful
PROPERTIES JumpsLand ImplementsCausalReplay
