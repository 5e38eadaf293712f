SPECIFICATION Spec
CONSTANTS
  FileSize = 7
  PartSize = 3
INVARIANTS
  GapsApart
  PartCacheRight
  GapSizesExact
PROPERTIES
  ImplementsMissingBytes
