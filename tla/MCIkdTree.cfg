CONSTANTS
  Dims = 2
  downsample_size = 2
  Points <- MCPoints
  Boxes <- MCBoxes
  Clouds <- MCClouds
  nullptr = nullptr
  Minimal_Unbalanced_Tree_Size = 2
  delete_criterion_param = 50
  balance_criterion_param = 60
  Queries <- MCQueries
  NearestCounts = {1, 3}
  MaxDists = {1, 2}
  MaxNodes = 4
SPECIFICATION Spec
INVARIANT SummariesExact
PROPERTY PointSetRefined
