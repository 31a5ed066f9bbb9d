------------------------- MODULE MCColoredScheduler -------------------------
(* Scenario C of the spec: a 5-cycle 0-1-2-3-4-0 with the valid          *)
(* 3-coloring 0,1,0,1,2, so color blocks of sizes 2, 2 and 1 (a block    *)
(* smaller than the number of cpus leaves a worker with an empty slice), *)
(* two passes over the colors.                                           *)
EXTENDS ColoredScheduler, TLC

MCVertices == 0..4
MCVColor == (0 :> 0) @@ (1 :> 1) @@ (2 :> 0) @@ (3 :> 1) @@ (4 :> 2)
MCEdges == {{0, 1}, {1, 2}, {2, 3}, {3, 4}, {4, 0}}
=============================================================================
