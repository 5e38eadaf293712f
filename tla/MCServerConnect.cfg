SPECIFICATION Spec
CONSTANTS
  plain = plain
  named = named
  blocked = blocked
  Servers <- MCServers
  Obfuscated = {plain}
  Static = {plain, blocked}
  DynIP = {named}
  Filtered = {blocked}
  MaxSim = 2
  Reconnect = TRUE
  StaticOnly = FALSE
  CryptRequested = FALSE
  CryptRequired = FALSE
  DeadRetries = 0
  AddressReuse = FALSE
  UserOps = {"any", "disconnect"}
  Chosen = {named}
  MaxSockets = 6
  MaxMarked = 1
  MaxLookups = 1
INVARIANTS
  
  
  
  NothingLeftOpen
  SearchGoesOn
PROPERTIES
  
  NoUnfoundedBlame
  OnlyOwnFailureDisconnects
  OwnFailureEndsSingle
