SPECIFICATION FairSpec
CONSTANTS
  t1 = t1
  t2 = t2
  Tasks = {t1, t2}
  Filters <- AllFilters
  MaxBlock = 2
  MaxPolls = 1
INVARIANTS TypeOK NoGap FailsOnlyWhenQuiet
PROPERTIES EveryBlockReported MutexReleased
