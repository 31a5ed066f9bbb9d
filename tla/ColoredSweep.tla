---------------------------- MODULE ColoredSweep ----------------------------
(***************************************************************************)
(* What the colored schedule promises (spec 4.4, "Colored"), without the   *)
(* per-cpu indices and the waiting counter: the color blocks take turns,   *)
(* 0, 1, ..., C-1, then again, for max_iterations passes.  During a turn   *)
(* the workers update the vertices of that color, each exactly once, and   *)
(* possibly at the same time; the next turn starts only once every vertex  *)
(* of the color has been updated and no update is running.  As the        *)
(* coloring is valid, the updates running together are never adjacent.   *)
(***************************************************************************)
EXTENDS Naturals

CONSTANTS
  Workers,        \* the worker threads
  Vertices,
  VColor,         \* a valid coloring
  NColors,        \* the number of colors
  MaxIterations,  \* passes over the colors
  Idle            \* what a worker updates when it updates nothing

VARIABLES
  turn,           \* the current turn; its color is turn % NColors
  active,         \* active[w]: the vertex worker w is updating, or Idle
  done            \* the vertices of the current color updated this turn

vars == <<turn, active, done>>

Last == MaxIterations * NColors
Current == {v \in Vertices : VColor[v] = turn % NColors}
Busy == {active[w] : w \in Workers} \ {Idle}

Init ==
  /\ turn = 0
  /\ active = [w \in Workers |-> Idle]
  /\ done = {}

\* An idle worker starts the update of a vertex of the current color that
\* nobody has updated this turn nor is updating.
Begin(w, v) ==
  /\ turn < Last
  /\ active[w] = Idle
  /\ v \in Current \ (done \cup Busy)
  /\ active' = [active EXCEPT ![w] = v]
  /\ UNCHANGED <<turn, done>>

End(w) ==
  /\ active[w] # Idle
  /\ done' = done \cup {active[w]}
  /\ active' = [active EXCEPT ![w] = Idle]
  /\ UNCHANGED turn

\* The color block has been swept: the next color's turn.
NextTurn ==
  /\ turn < Last
  /\ done = Current
  /\ Busy = {}
  /\ turn' = turn + 1
  /\ done' = {}
  /\ UNCHANGED active

Next ==
  \/ \E w \in Workers : End(w) \/ \E v \in Vertices : Begin(w, v)
  \/ NextTurn

\* Every pass is finished: some idle worker takes up a pending vertex,
\* every update ends, and a swept color hands over to the next.
Spec ==
  /\ Init /\ [][Next]_vars
  /\ WF_vars(\E w \in Workers, v \in Vertices : Begin(w, v))
  /\ \A w \in Workers : WF_vars(End(w))
  /\ WF_vars(NextTurn)

=============================================================================
