------------------------ MODULE MCSimEngineColored --------------------------
EXTENDS SimEngineColored, TLC

MCVertices == 0..4
MCVColor == (0 :> 0) @@ (1 :> 1) @@ (2 :> 0) @@ (3 :> 1) @@ (4 :> 2)
MCEdges == {{0, 1}, {1, 2}, {2, 3}, {3, 4}, {4, 0}}
=============================================================================
