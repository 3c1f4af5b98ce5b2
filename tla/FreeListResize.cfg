CONSTANTS
  InitialTotal = 4
  Totals = {6, 8}
  Size = {1, 2}
  EntryBytes = 4
  ResizeBytes = 2
  MinEntries = 3
  Null = Null
  NoAnswer = NoAnswer
  Refused = Refused
SPECIFICATION Spec
INVARIANTS ResizeKeepsList
