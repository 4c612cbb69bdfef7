SPECIFICATION MCSpec
CONSTANTS
  c1 = c1
  c2 = c2
  Ids = {1, 2}
  Values <- MCValues
  Tags <- MCTags
  Queries <- MCQueries
  IndexId = 20
  MaxByte = 255
  MaxWrites = 1
INVARIANTS PagesExact SearchExact
SYMMETRY Symmetry
CHECK_DEADLOCK FALSE
