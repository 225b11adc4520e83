SPECIFICATION Spec
CONSTANTS
  t1 = t1
  t2 = t2
  Tasks = {t1}
  Filters <- OneFilter
  MaxBlock = 2
  MaxPolls = 1
PROPERTY CurrentBlockNotIncluded
