CONSTANTS
  t1 = t1
  t2 = t2
  x1 = x1
  x2 = x2
  Tasks <- MCTasks
  RowIds <- MCRowIds
  MaxKills = 2
  Threshold = 3
SPECIFICATION FairSpec
INVARIANTS TypeOK AppliedOnceInOrder ServingIsMigrated CategoriesAreClosed
PROPERTIES EveryTaskServes
