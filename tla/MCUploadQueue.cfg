SPECIFICATION Spec
CONSTANTS
  high = high
  low = low
  source = source
  file = file
  Clients = {high, low, source}
  LowID = {low}
  Sources = {source}
  Chat = {}
  Files = {file}
  FileOf <- MCFileOf
  MaxSlots = 1
  QueueSize = 2
  MaxBlocks = 1
  MaxUpsets = 2
  End = End
INVARIANTS
  ListsAgree
  
  
  SocketOutlivesUse
PROPERTIES
  KeepsItsPlace
