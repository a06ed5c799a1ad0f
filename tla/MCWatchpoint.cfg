SPECIFICATION Spec
CONSTANTS
  NR_WP = 3
  e1 = e1
  e2 = e2
  bad = bad
  NULL = NULL
  Blank = Blank
  Exprs <- MCExprs
  BadExprs <- MCBadExprs
  Values <- MCValues
  Args <- MCArgs
INVARIANTS
  PoolPartition
  ListsEnd
  WatchesCurrent
PROPERTY AbsSpec
\* an assertion that fails ends the process
CHECK_DEADLOCK FALSE
