CONSTANTS
  Cards <- MCCards
  Passwords = {"right", "wrong"}
  Configured = {"right"}
  NoPassword = "none"
  LastSector = 1
  MaxCalls = 1
SPECIFICATION SdSpec
CHECK_DEADLOCK FALSE
INVARIANT LockedCardMounted
