CONSTANTS
  f1 = f1
  f2 = f2
  Fns <- MCFns
  Vertices = {0, 1}
  MaxPriority = 2
  NCpus = 2
  Budgets = {2}
  Timeouts = {1}
  TermFunctions = TRUE
  MaxAdds = 2
  MaxStarts = 2

SPECIFICATION Spec

INVARIANT TypeOK
INVARIANT JobsMatchTasks

PROPERTY StartReturns
PROPERTY CompletedMeansDrained
