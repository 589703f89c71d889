SPECIFICATION HelpersSpec
CONSTANTS
  Entries = {e1, e2}
  Holders = {e1, e2}
  NoHolder = NoHolder
  e1 = e1
  e2 = e2
  MaxOrphans = 1
SYMMETRY SymmetricEntries
INVARIANTS
  TasksMatchState
  
