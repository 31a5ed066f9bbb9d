------------------------- MODULE MCSimThreadEngine --------------------------
(* Two vertices and two update functions: a task can be posted anew, on  *)
(* a vertex that already has one, or again while pending (a promotion).  *)
(* Priorities 0..2 include the dropped non-positive one.                *)
EXTENDS SimThreadEngine, TLC

CONSTANTS f1, f2

MCFns == {f1, f2}
=============================================================================
