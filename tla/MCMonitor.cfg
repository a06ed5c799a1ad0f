SPECIFICATION FairSpec
CONSTANTS
  NR_WP = 2
  e1 = e1
  bad = bad
  NULL = NULL
  Blank = Blank
  Exprs <- MCExprs
  BadExprs <- MCBadExprs
  Values <- MCValues
  Args <- MCArgs
  Steps <- MCSteps
  DIFFTEST = TRUE
  DEVICE = TRUE
INVARIANTS
  StepCount
  BatchVerdict
PROPERTIES
  WatchSpec
  TrapIsNoMismatch
  EndLeftOnlyByWatch
  RunsOnlyWhileRunning
  StepsEnd
  CloseEndsRun
\* the process exits, or an assertion ends it
CHECK_DEADLOCK FALSE
