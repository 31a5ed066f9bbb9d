-------------------------- MODULE ColoredScheduler --------------------------
(***************************************************************************)
(* The colored scheduler of src/src/graphlab/schedulers/                   *)
(* colored_scheduler.hpp, driven by NCpus worker threads that run the      *)
(* engine worker loop of spec section 4.5.                                 *)
(*                                                                         *)
(* Each worker owns cpu_index, cpu_color and cpu_waiting; the workers      *)
(* share the atomics `color` and `waiting` and the terminator.  The body   *)
(* of get_next_task up to `waiting.inc()` touches only the worker's own    *)
(* state and one read of `color`, so it is one step (GetNextTask); the     *)
(* overrun path is split at each access to a shared atomic: waiting.inc(), *)
(* the store waiting.value = 0 and color.inc() are three steps.            *)
(***************************************************************************)
EXTENDS Integers, Sequences, FiniteSets, FiniteSetsExt

CONSTANTS
  NCpus,          \* number of worker threads (cpu ids 0..NCpus-1)
  Vertices,       \* vertex ids, a set of naturals
  VColor,         \* graph.color(v): a valid coloring, [Vertices -> 0..]
  Edges,          \* the graph's edges, as a set of {u, v} pairs
  MaxIterations   \* the scheduler option max_iterations

ASSUME NCpus \in Nat \ {0}
ASSUME MaxIterations \in Nat
ASSUME \A e \in Edges : \A u, v \in e : u # v => VColor[u] # VColor[v]

Cpus == 0..(NCpus - 1)

\* color_blocks.size(): the largest color plus one
NColors == 1 + Max({VColor[v] : v \in Vertices})

\* color_blocks[c]: the vertices of color c, pushed back in id order
Block(c) ==
  LET S == {v \in Vertices : VColor[v] = c}
  IN  [i \in 1..Cardinality(S) |->
         CHOOSE v \in S : Cardinality({u \in S : u < v}) = i - 1]

\* cpu_color[i] = -1 in start(): (size_t)-1, never equal to color
NoColor == -1
NoTask == -1

VARIABLES
  color,          \* atomic<size_t> color
  waiting,        \* atomic<size_t> waiting
  cpu_index,      \* std::vector<size_t> cpu_index
  cpu_color,      \* std::vector<size_t> cpu_color
  cpu_waiting,    \* std::vector<size_t> cpu_waiting
  terminated,     \* the controlled_termination has been completed
  pc,             \* where each worker is in the loop
  task,           \* the vertex a worker is updating
  runs            \* history: how many updates each vertex has received

vars == <<color, waiting, cpu_index, cpu_color, cpu_waiting, terminated,
          pc, task, runs>>

\* The scheduler after its constructor and start(); no worker has asked
\* for a task yet.
Init ==
  /\ color = 0
  /\ waiting = 0
  /\ cpu_index = [c \in Cpus |-> c]
  /\ cpu_color = [c \in Cpus |-> NoColor]
  /\ cpu_waiting = [c \in Cpus |-> TRUE]
  /\ terminated = FALSE
  /\ pc = [c \in Cpus |-> "get"]
  /\ task = [c \in Cpus |-> NoTask]
  /\ runs = [v \in Vertices |-> 0]

Goto(c, to) == pc' = [pc EXCEPT ![c] = to]

\* get_next_task(cpuid, ret_task) up to the overrun, with the index moving
\* on by `stride` (cpu_index.size() in the code).  A waiting worker whose
\* color is still current gets EMPTY; one that sees a new color starts
\* its slice at index cpuid; otherwise the index moves on.  Past
\* max_iterations passes the terminator completes (EMPTY); inside the
\* color block the vertex is returned (NEWTASK); beyond it the worker goes
\* on to waiting.inc().  `color` is read once: it cannot change between
\* the two reads of lines 119 and 122, since it only advances once every
\* worker, this one included, has incremented `waiting` again.
NextTaskWithStride(c, stride) ==
  LET wasWaiting == cpu_waiting[c]
      col == IF wasWaiting THEN color ELSE cpu_color[c]
      idx == IF wasWaiting THEN c ELSE cpu_index[c] + stride
      blk == Block(col % NColors)
  IN  /\ pc[c] = "get"
      /\ IF wasWaiting /\ cpu_color[c] = color
           THEN /\ Goto(c, "empty")
                /\ UNCHANGED <<cpu_index, cpu_color, cpu_waiting, terminated, task, runs>>
           ELSE /\ cpu_color' = [cpu_color EXCEPT ![c] = col]
                /\ cpu_index' = [cpu_index EXCEPT ![c] = idx]
                /\ cpu_waiting' = [cpu_waiting EXCEPT ![c] = FALSE]
                /\ CASE col \div NColors >= MaxIterations ->
                          /\ terminated' = TRUE
                          /\ Goto(c, "empty")
                          /\ UNCHANGED <<task, runs>>
                     [] idx < Len(blk) ->
                          /\ task' = [task EXCEPT ![c] = blk[idx + 1]]
                          /\ runs' = [runs EXCEPT ![blk[idx + 1]] = @ + 1]
                          /\ Goto(c, "run")
                          /\ UNCHANGED terminated
                     [] OTHER ->
                          /\ Goto(c, "inc")
                          /\ UNCHANGED <<terminated, task, runs>>
  /\ UNCHANGED <<color, waiting>>

\* Mutant of GetNextTask: the index advances by one instead of by the
\* number of cpus, so the workers' slices overlap.
GetNextTaskStepOne(c) == NextTaskWithStride(c, 1)

GetNextTask(c) == NextTaskWithStride(c, NCpus)

\* current_waiting = waiting.inc(); cpu_waiting[cpuid] = true; the worker
\* whose increment makes `waiting` equal to `last` (cpu_index.size() in
\* the code) goes on to reset it and advance the color, every other one
\* returns EMPTY.
IncWaitingUpTo(c, last) ==
  /\ pc[c] = "inc"
  /\ waiting' = waiting + 1
  /\ cpu_waiting' = [cpu_waiting EXCEPT ![c] = TRUE]
  /\ Goto(c, IF waiting + 1 = last THEN "reset" ELSE "empty")
  /\ UNCHANGED <<color, cpu_index, cpu_color, terminated, task, runs>>

\* Mutant of IncWaiting: the last-waiter test is off by one, so the color
\* advances while one worker is still in its slice.
IncWaitingEarly(c) == IncWaitingUpTo(c, NCpus - 1)

\* Mutant of IncWaiting: the last-waiter test never holds.
IncWaitingNeverLast(c) == IncWaitingUpTo(c, NCpus + 1)

IncWaiting(c) == IncWaitingUpTo(c, NCpus)

\* Mutant of ResetWaiting: the counter is not reset for the next color.
ResetWaitingMissing(c) ==
  /\ pc[c] = "reset"
  /\ Goto(c, "advance")
  /\ UNCHANGED <<color, waiting, cpu_index, cpu_color, cpu_waiting,
                 terminated, task, runs>>

\* waiting.value = 0
ResetWaiting(c) ==
  /\ pc[c] = "reset"
  /\ waiting' = 0
  /\ Goto(c, "advance")
  /\ UNCHANGED <<color, cpu_index, cpu_color, cpu_waiting, terminated, task, runs>>

\* color.inc(); return EMPTY
AdvanceColor(c) ==
  /\ pc[c] = "advance"
  /\ color' = color + 1
  /\ Goto(c, "empty")
  /\ UNCHANGED <<waiting, cpu_index, cpu_color, cpu_waiting, terminated, task, runs>>

\* The engine on EMPTY: stop when the terminator reports finished,
\* otherwise sleep and ask again.
WorkerEmpty(c) ==
  /\ pc[c] = "empty"
  /\ Goto(c, IF terminated THEN "done" ELSE "get")
  /\ UNCHANGED <<color, waiting, cpu_index, cpu_color, cpu_waiting, terminated, task, runs>>

\* The engine on NEWTASK: acquire the scope, run the update function,
\* release the scope, then completed_task (a no-op for this scheduler).
RunTask(c) ==
  /\ pc[c] = "run"
  /\ task' = [task EXCEPT ![c] = NoTask]
  /\ Goto(c, "get")
  /\ UNCHANGED <<color, waiting, cpu_index, cpu_color, cpu_waiting, terminated, runs>>

\* Every worker has returned: start() joins them and returns.
Finished ==
  /\ \A c \in Cpus : pc[c] = "done"
  /\ UNCHANGED vars

Next ==
  \/ \E c \in Cpus :
       \/ GetNextTask(c)
       \/ IncWaiting(c)
       \/ ResetWaiting(c)
       \/ AdvanceColor(c)
       \/ WorkerEmpty(c)
       \/ RunTask(c)
  \/ Finished

\* Each worker is an OS thread that keeps running its loop: weak fairness
\* per worker step.
Fairness ==
  \A c \in Cpus :
    /\ WF_vars(GetNextTask(c))
    /\ WF_vars(IncWaiting(c))
    /\ WF_vars(ResetWaiting(c))
    /\ WF_vars(AdvanceColor(c))
    /\ WF_vars(WorkerEmpty(c))
    /\ WF_vars(RunTask(c))

Spec == Init /\ [][Next]_vars /\ Fairness

-----------------------------------------------------------------------------

TypeOK ==
  /\ color \in 0..(MaxIterations * NColors)
  /\ waiting \in 0..NCpus
  /\ cpu_index \in [Cpus -> Nat]
  /\ cpu_color \in [Cpus -> {NoColor} \cup Nat]
  /\ cpu_waiting \in [Cpus -> BOOLEAN]
  /\ terminated \in BOOLEAN
  /\ pc \in [Cpus -> {"get", "inc", "reset", "advance", "empty", "run", "done"}]
  /\ task \in [Cpus -> {NoTask} \cup Vertices]
  /\ runs \in [Vertices -> Nat]

Running == {c \in Cpus : pc[c] = "run"}

\* Scenario C of the spec: two workers never update the same vertex or two
\* adjacent vertices at the same time.  It rests on the color only
\* advancing once every worker has overrun its slice of the current color
\* block (the waiting counter reaching the number of cpus).
NoAdjacentConcurrentUpdates ==
  \A c1, c2 \in Running :
    c1 # c2 => /\ task[c1] # task[c2]
               /\ {task[c1], task[c2]} \notin Edges

\* How many times the color of v has been the current color among the
\* global colors 0..k-1, within max_iterations passes.
Visits(v, k) ==
  Cardinality({j \in 0..(k - 1) : j % NColors = VColor[v] /\ j \div NColors < MaxIterations})

\* Every pass over a color updates each vertex of that color exactly once:
\* by the time the global color is k, every vertex has been updated once
\* for each earlier pass over its color, and at most once more for the
\* current one.  The slices cpuid, cpuid + NCpus, ... must partition the
\* block, and no worker may be left behind in an older color.
SweepExactlyOnce ==
  \A v \in Vertices : Visits(v, color) <= runs[v] /\ runs[v] <= Visits(v, color + 1)

\* The engine eventually stops: after max_iterations passes over the
\* colors the terminator completes and every worker returns.
AllWorkersReturn == <>(\A c \in Cpus : pc[c] = "done")

\* The turns of ColoredSweep are the values of `color`; a worker's update
\* is its task; the vertices done this turn are those of the current color
\* updated more often than the earlier passes account for, whose update
\* has ended.
SweepDone ==
  {v \in Vertices : VColor[v] = color % NColors /\ runs[v] > Visits(v, color)}
    \ {task[c] : c \in Cpus}

Sweep == INSTANCE ColoredSweep
           WITH Workers <- Cpus, Idle <- NoTask,
                turn <- color, active <- task, done <- SweepDone

\* The scheduler implements the colored schedule of spec 4.4: colors take
\* turns in order, a turn updates every vertex of its color exactly once,
\* the color only advances once the whole block is swept and no update
\* is running, and under the workers' fairness every pass completes.
\* get_next_task's slices, the waiting counter and the single advance of
\* `color` by the last waiter must together give exactly this.
ImplementsSweep == Sweep!Spec

=============================================================================
