------------------------- MODULE SamplingScheduler --------------------------
(***************************************************************************)
(* The sampling scheduler of src/src/graphlab/schedulers/                  *)
(* sampling_scheduler.hpp: per-vertex task sets (vertex_task_set), a       *)
(* fast_multinomial over the vertices weighted by their top priority, and  *)
(* a task_count_termination counting the jobs not yet completed.  The      *)
(* three helpers are not part of the sources; their contract is the one    *)
(* spec section 4.4 gives.  The operators here are the scheduler calls,    *)
(* used as parts of the engine's steps (SimThreadEngine); each runs under  *)
(* the vertex's spinlock.                                                  *)
(***************************************************************************)
EXTENDS Integers, FiniteSets, FiniteSetsExt

CONSTANTS
  Vertices,       \* vertex ids
  Fns,            \* update functions
  MaxPriority     \* priorities used are 0..MaxPriority

VARIABLES
  tasks,          \* vertex_task_set: tasks[v][f] is the priority of (v, f), 0 = absent
  weights,        \* fast_multinomial: the weight of each vertex
  jobs            \* task_count_termination: new_job() calls minus completed_job() calls

schedvars == <<tasks, weights, jobs>>

Priorities == 0..MaxPriority
Task == [vertex : Vertices, fn : Fns]

\* vertex_task_set::top_priority(v): the highest pending priority, 0 if none
TopPriority(ts, v) == Max({ts[v][f] : f \in Fns})

Pending == {t \in Task : tasks[t.vertex][t.fn] > 0}

\* Mutant of AddTask: every add counts as a new job, promotions included.
AddTaskCountingAll(t, p) ==
  IF p <= 0
    THEN UNCHANGED schedvars
    ELSE LET ts == [tasks EXCEPT ![t.vertex][t.fn] = Max({@, p})]
         IN  /\ tasks' = ts
             /\ jobs' = jobs + 1
             /\ weights' = [weights EXCEPT ![t.vertex] = TopPriority(ts, t.vertex)]

\* add_task(task, priority): a non-positive priority is dropped; otherwise
\* vertex_tasks.add keeps the larger priority of a task already present
\* and reports whether the task is new, only a new task is a new job, and
\* the multinomial is set to the vertex's top priority.
AddTask(t, p) ==
  IF p <= 0
    THEN UNCHANGED schedvars
    ELSE LET ts == [tasks EXCEPT ![t.vertex][t.fn] = Max({@, p})]
         IN  /\ tasks' = ts
             /\ jobs' = IF tasks[t.vertex][t.fn] = 0 THEN jobs + 1 ELSE jobs
             /\ weights' = [weights EXCEPT ![t.vertex] = TopPriority(ts, t.vertex)]

\* add_tasks(vertices, func, priority), and add_task_to_all(func,
\* priority) with S all the vertices: add_task((v, func), priority) for
\* each v of S.  The engine is single-threaded, so no other call runs in
\* between and the loop is one step.
AddTasks(S, f, p) ==
  IF p <= 0
    THEN UNCHANGED schedvars
    ELSE LET ts == [v \in Vertices |->
                      IF v \in S THEN [tasks[v] EXCEPT ![f] = Max({@, p})] ELSE tasks[v]]
         IN  /\ tasks' = ts
             /\ jobs' = jobs + Cardinality({v \in S : tasks[v][f] = 0})
             /\ weights' = [v \in Vertices |-> IF v \in S THEN TopPriority(ts, v) ELSE weights[v]]

\* add_task_to_all(f, 1) on a new scheduler: add_task((v, f), 1) for every
\* vertex, each one a new job of priority 1.
AddTaskToAll(f) ==
  /\ tasks = [v \in Vertices |-> [g \in Fns |-> IF g = f THEN 1 ELSE 0]]
  /\ weights = [v \in Vertices |-> 1]
  /\ jobs = Cardinality(Vertices)

\* multinomial.sample(vertex_id, cpuid): some vertex of positive weight
CanSample == \E v \in Vertices : weights[v] > 0

\* One round of the sampling loop of get_next_task on vertex v: pop a
\* task of top priority from the vertex's task set and set the vertex's
\* weight to what remains.  `t` is the task popped.
PopTask(v, t) ==
  /\ t.vertex = v
  /\ tasks[v][t.fn] > 0
  /\ tasks[v][t.fn] = TopPriority(tasks, v)
  /\ LET ts == [tasks EXCEPT ![v][t.fn] = 0]
     IN  /\ tasks' = ts
         /\ weights' = [weights EXCEPT ![v] = TopPriority(ts, v)]
  /\ UNCHANGED jobs

\* completed_task(cpuid, task): terminator.completed_job()
CompletedTask == jobs' = jobs - 1 /\ UNCHANGED <<tasks, weights>>

\* Mutant of TerminatorFinish: the count test is off by one, so the
\* scheduler reports COMPLETE with one job outstanding.
TerminatorFinishEarly == jobs <= 1

\* terminator.finish(): every job has completed
TerminatorFinish == jobs = 0

=============================================================================
