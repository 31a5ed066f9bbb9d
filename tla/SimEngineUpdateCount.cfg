CONSTANTS
  f1 = f1
  f2 = f2
  Fns <- MCFns
  Vertices = {0, 1}
  MaxPriority = 2
  NCpus = 2
  Budgets = {0}
  Timeouts = {0}
  TermFunctions = FALSE
  MaxAdds = 2
  MaxStarts = 2

SPECIFICATION Spec

INVARIANT UpdateCountExact
