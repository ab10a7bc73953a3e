SPECIFICATION FairSpec
CONSTANTS
  Battery = TRUE
  Volts = {0, 1, 2, 3, 4}
  BadMv = 1
  CriticalMv = 3
  StartMv = 4
  MayFail = {"orchestrator", "ap", "beep", "slow"}
INVARIANTS
  ShutdownSafe
  NothingPulledAway
PROPERTIES
  ShutdownDone
  LowBatterySleeps
