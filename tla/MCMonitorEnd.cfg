SPECIFICATION Spec
CONSTANTS
  NR_WP = 2
  e1 = e1
  bad = bad
  NULL = NULL
  Blank = Blank
  Exprs <- MCExprs
  BadExprs <- MCBadExprs
  Values <- MCValues
  Args <- MCArgs
  Steps <- MCSteps
  DIFFTEST = FALSE
  DEVICE = FALSE
PROPERTY EndIsFinal
\* the process exits, or an assertion ends it
CHECK_DEADLOCK FALSE
