SPECIFICATION LiveSpec
CONSTANTS
  plain = plain
  named = named
  blocked = blocked
  Servers <- MCTwoServers
  Obfuscated = {plain}
  Static = {plain}
  DynIP = {named}
  Filtered = {}
  MaxSim = 2
  Reconnect = TRUE
  StaticOnly = FALSE
  CryptRequested = TRUE
  CryptRequired = FALSE
  DeadRetries = 0
  AddressReuse = FALSE
  UserOps = {"any", "cancel", "remove"}
  Chosen = {plain, named}
  MaxSockets = 5
  MaxMarked = 0
  MaxLookups = 1
PROPERTIES
  TryEnds
