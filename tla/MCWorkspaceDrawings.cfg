CONSTANTS
  ann = ann  bob = bob
  Pages = {ann, bob}
  None = None
  Seeded = TRUE
  Editing <- DrawAndType
  Slow = {}
  Restless = {}
  TooLarge = {}
  MaxEdits = 3
  MaxRevision = 3
  MaxSeq = 2
  MaxRetries = 1
SPECIFICATION Spec
INVARIANT DrawingsAreKept
CHECK_DEADLOCK FALSE
