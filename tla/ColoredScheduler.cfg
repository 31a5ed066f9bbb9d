CONSTANTS
  NCpus = 4
  MaxIterations = 2
  Vertices <- MCVertices
  VColor <- MCVColor
  Edges <- MCEdges

SPECIFICATION Spec

INVARIANT TypeOK
INVARIANT NoAdjacentConcurrentUpdates
INVARIANT SweepExactlyOnce

PROPERTY AllWorkersReturn
PROPERTY ImplementsSweep
