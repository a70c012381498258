CONSTANTS
  p1 = p1
  p2 = p2
  r1 = r1
  r2 = r2
  Points <- MCPoints
  BoxSets <- MCBoxSets
  Readers <- MCReaders
  MaxSearches = 1
  MaxLogged = 3
SPECIFICATION Spec
INVARIANTS NearestSearchExcluded LockedSearchesGone LogCatchesUp
PROPERTIES CallsReturn RebuildServed
CHECK_DEADLOCK FALSE
