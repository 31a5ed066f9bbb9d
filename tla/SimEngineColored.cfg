CONSTANTS
  NCpus = 2
  MaxIterations = 1
  Timeout = 1
  TaskBudget = 0
  Vertices <- MCVertices
  VColor <- MCVColor
  Edges <- MCEdges

SPECIFICATION EngineSpec

PROPERTY TimeoutEndsRun
