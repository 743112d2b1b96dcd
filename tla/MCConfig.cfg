SPECIFICATION Spec
CONSTANTS
  Files <- TwoFiles
  Contents <- Edited
  Executable = {"/bin/ok"}
  Intervals = {"10", "60"}
  MaxRuns = 2
INVARIANTS
  TypeOK
  NamesUnique
  WildcardListsAll
PROPERTIES
  ImplementsLoader
