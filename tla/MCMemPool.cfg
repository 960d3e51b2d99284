CONSTANT
  NumElems = 7
SPECIFICATION Spec
INVARIANTS
  TypeOK
  PoolMatchesClient
  CursorNeverStale
  RunsOutOnlyWhenFull
