CONSTANTS
  Retention = 3
  MaxEvents = 2
  MaxDbs = 2
  MaxObjects = 2
  MaxDays = 4
SPECIFICATION Spec
INVARIANTS TypeOK PassedIsInTable CopiesAreExplained NothingIsLostByWaiting
