SPECIFICATION StorageSpec
CONSTANTS
  Values = {"x", "y"}
  Nil = Nil
  MaxItems = 3
  MaxCells = 9
INVARIANTS CountsTuples NothingLeftBehind
PROPERTIES ImplementsTupleQueue
