-------------------------- MODULE SimThreadEngine ---------------------------
(***************************************************************************)
(* sim_thread_engine (src/src/graphlab/engine/sim_thread_engine.hpp) with  *)
(* the sampling scheduler.  One thread runs start(): it picks a random     *)
(* cpuid and calls run_next_task(cpuid) until that returns false.  Each    *)
(* pass of run_next_task's while(true) loop checks the timeout (cpu 0      *)
(* only) and, every 0.1s, the termination functions, then asks the         *)
(* scheduler for a task.  A task runs to completion inside the call: its   *)
(* update function may post new tasks through the scheduler's callback.    *)
(* The clock is the environment: the timeout expires at some point and     *)
(* stays expired; whether 0.1s has passed since the last terminator check  *)
(* is a free choice of each pass.                                          *)
(***************************************************************************)
EXTENDS SamplingScheduler, Functions

CONSTANTS
  NCpus,          \* ncpus
  Budgets,        \* the values the program passes to set_task_budget; 0 = no budget
  Timeouts,       \* the values the program passes to set_timeout; 0 = no timeout
  TermFunctions,  \* whether the program registers termination functions
  MaxAdds,        \* bound: tasks posted, by update functions or between runs
  MaxStarts       \* bound: calls of start() on the one engine

Cpus == 0..(NCpus - 1)
NoCpu == -1
NoTask == [vertex |-> -1, fn |-> -1]
Statuses == {"NONE", "EXEC_COMPLETED", "EXEC_TIMEOUT", "EXEC_MAX_TASKS_EXCEEDED"}

VARIABLES
  epc,               \* where start()/run_next_task is
  cur,               \* the cpuid run_next_task runs for
  curtask,           \* the task being executed
  taskcount,         \* atomic<size_t> taskcount
  task_counts,       \* std::vector<size_t> task_counts
  aborted,           \* bool aborted
  terminatoraborted, \* bool terminatoraborted
  expired,           \* _timer->current_time() > timeout
  status,            \* the exec_status start() returned
  adds,              \* bound counter: tasks posted by update functions
  executed,          \* history: update functions run by the current start()
  starts,            \* bound counter: start() calls so far
  taskbudget,        \* size_t taskbudget
  timeout,           \* double timeout
  term_functions,    \* term_functions is not empty
  data_manager       \* data_manager != NULL

enginevars == <<epc, cur, curtask, taskcount, task_counts, aborted,
                terminatoraborted, expired, status, adds, executed, starts>>
setvars == <<taskbudget, timeout, term_functions, data_manager>>
vars == <<schedvars, enginevars, setvars>>

\* The engine after its constructor, the program's calls of the setters
\* below (a data manager set, and a termination function added if the
\* program uses them) and add_task_to_all(f, 1), and the first start(),
\* which clears both abort flags and starts the timer.
Init ==
  /\ \E f \in Fns : AddTaskToAll(f)
  /\ epc = "pick"
  /\ cur = NoCpu
  /\ curtask = NoTask
  /\ taskcount = 0
  /\ task_counts = [c \in Cpus |-> 0]
  /\ aborted = FALSE
  /\ terminatoraborted = FALSE
  /\ expired = FALSE
  /\ status = "NONE"
  /\ adds = 0
  /\ executed = 0
  /\ starts = 1
  /\ taskbudget \in Budgets
  /\ timeout \in Timeouts
  /\ term_functions = TermFunctions
  /\ data_manager = TRUE

\* Mutant of PickCpu: rand_int(ncpus), one past the last cpu id.
PickCpuInclusive(c) ==
  /\ epc = "pick"
  /\ \E d \in {c, c + 1} : cur' = d
  /\ epc' = "loop"
  /\ UNCHANGED <<setvars, schedvars, curtask, taskcount, task_counts, aborted,
                 terminatoraborted, expired, status, adds, executed, starts>>

\* start(): cpuid = random::rand_int(ncpus - 1); run_next_task(cpuid)
PickCpu(c) ==
  /\ epc = "pick"
  /\ cur' = c
  /\ epc' = "loop"
  /\ UNCHANGED <<setvars, schedvars, curtask, taskcount, task_counts, aborted,
                 terminatoraborted, expired, status, adds, executed, starts>>

\* The clock passes the timeout.
Expire ==
  /\ timeout > 0
  /\ ~expired
  /\ epc # "stopped"
  /\ expired' = TRUE
  /\ UNCHANGED <<setvars, schedvars, epc, cur, curtask, taskcount, task_counts, aborted,
                 terminatoraborted, status, adds, executed, starts>>

\* Top of the while(true) loop: cpu 0 checks the timeout; if 0.1s have
\* passed the termination functions are evaluated (`fire`: one returned
\* true); either flag makes run_next_task return false.
CheckAborts ==
  /\ epc = "loop"
  /\ LET ab == aborted \/ (timeout > 0 /\ cur = 0 /\ expired)
     IN  \E fire \in IF data_manager /\ term_functions THEN BOOLEAN ELSE {FALSE} :
           /\ aborted' = ab
           /\ terminatoraborted' = (terminatoraborted \/ fire)
           /\ epc' = IF ab \/ terminatoraborted \/ fire THEN "finish" ELSE "get"
  /\ UNCHANGED <<setvars, schedvars, cur, curtask, taskcount, task_counts, expired,
                 status, adds, executed, starts>>

\* scheduler.get_next_task(cpuid, task): COMPLETE once the terminator
\* finishes (run_next_task returns false); if the multinomial has a
\* vertex to sample, go sampling; else WAITING, and the engine sleeps and
\* goes round its loop again.
GetNextTask ==
  /\ epc = "get"
  /\ epc' = CASE TerminatorFinish -> "finish"
              [] CanSample        -> "sample"
              [] OTHER            -> "loop"
  /\ UNCHANGED <<setvars, schedvars, cur, curtask, taskcount, task_counts, aborted,
                 terminatoraborted, expired, status, adds, executed, starts>>

\* The sampling loop of get_next_task: sample v, lock it and pop its top
\* task; NEWTASK if there was one, otherwise sample again.  On NEWTASK
\* the engine builds the scope and calls the update function.
Sample(v) ==
  /\ epc = "sample"
  /\ weights[v] > 0
  /\ IF \E f \in Fns : tasks[v][f] > 0
       THEN \E t \in Task : /\ PopTask(v, t)
                            /\ curtask' = t
                            /\ epc' = "exec"
       ELSE UNCHANGED <<setvars, schedvars, curtask, epc>>
  /\ UNCHANGED <<setvars, cur, taskcount, task_counts, aborted, terminatoraborted,
                 expired, status, adds, executed, starts>>

\* The update function posts task t with priority p through the
\* scheduler callback (direct_callback: add_task).
UpdatePosts(t, p) ==
  /\ epc = "exec"
  /\ adds < MaxAdds
  /\ AddTask(t, p)
  /\ adds' = adds + 1
  /\ UNCHANGED <<setvars, epc, cur, curtask, taskcount, task_counts, aborted,
                 terminatoraborted, expired, status, executed, starts>>

\* Mutant of UpdateReturns: completed_task is not called.
UpdateReturnsUncompleted ==
  /\ epc = "exec"
  /\ \E n \in {task_counts[cur], task_counts[cur] + 1} :
       task_counts' = [task_counts EXCEPT ![cur] = n]
  /\ UNCHANGED schedvars
  /\ taskcount' = IF taskbudget > 0 THEN taskcount + 1 ELSE taskcount
  /\ aborted' = (aborted \/ (taskbudget > 0 /\ taskcount + 1 > taskbudget))
  /\ executed' = executed + 1
  /\ curtask' = NoTask
  /\ cur' = NoCpu
  /\ epc' = "pick"
  /\ UNCHANGED <<setvars, terminatoraborted, expired, status, adds, starts>>

\* The rest of the NEWTASK branch.  task_counts[cpuid] =
\* task_counts[cpuid]++ modifies the element twice without sequencing
\* (undefined before C++17): the element keeps its value or gains one.
\* Then the update returns, the scope is committed and released,
\* completed_task is called, and with a task budget taskcount.inc() past
\* the budget sets aborted; run_next_task returns true.
UpdateReturns ==
  /\ epc = "exec"
  /\ \E n \in {task_counts[cur], task_counts[cur] + 1} :
       task_counts' = [task_counts EXCEPT ![cur] = n]
  /\ CompletedTask
  /\ taskcount' = IF taskbudget > 0 THEN taskcount + 1 ELSE taskcount
  /\ aborted' = (aborted \/ (taskbudget > 0 /\ taskcount + 1 > taskbudget))
  /\ executed' = executed + 1
  /\ curtask' = NoTask
  /\ cur' = NoCpu
  /\ epc' = "pick"
  /\ UNCHANGED <<setvars, terminatoraborted, expired, status, adds, starts>>

\* run_next_task returned false: start() stops the scheduler and picks
\* the status.  Not aborted is EXEC_COMPLETED; otherwise, with a budget,
\* a further taskcount.inc() past the budget is EXEC_MAX_TASKS_EXCEEDED,
\* anything else EXEC_TIMEOUT.
Finish ==
  /\ epc = "finish"
  /\ LET over == taskbudget > 0 /\ taskcount + 1 > taskbudget
     IN  /\ status' = CASE ~aborted -> "EXEC_COMPLETED"
                        [] over     -> "EXEC_MAX_TASKS_EXCEEDED"
                        [] OTHER    -> "EXEC_TIMEOUT"
         /\ taskcount' = IF aborted /\ taskbudget > 0 THEN taskcount + 1 ELSE taskcount
  /\ epc' = "stopped"
  /\ UNCHANGED <<setvars, schedvars, cur, curtask, task_counts, aborted, terminatoraborted,
                 expired, adds, executed, starts>>

\* last_update_count(): the sum of the per-cpu task counts
LastUpdateCount == SumFunction(task_counts)

\* start() has returned.
Stopped ==
  /\ epc = "stopped"
  /\ UNCHANGED vars

\* Between two runs the program posts tasks through get_scheduler():
\* add_task (S one vertex), add_tasks or add_task_to_all.
AddTasksBetweenRuns(S, f, p) ==
  /\ epc = "stopped"
  /\ adds < MaxAdds
  /\ AddTasks(S, f, p)
  /\ adds' = adds + 1
  /\ UNCHANGED <<setvars, epc, cur, curtask, taskcount, task_counts, aborted,
                 terminatoraborted, expired, status, executed, starts>>

\* start() called again on the same engine ("if graphlab called in a
\* loop"): only the two abort flags are cleared.  The timer is started
\* once, so the timeout counts from the first start(); taskcount and the
\* per-cpu task_counts are never reset.
Restart ==
  /\ epc = "stopped"
  /\ starts < MaxStarts
  /\ aborted' = FALSE
  /\ terminatoraborted' = FALSE
  /\ status' = "NONE"
  /\ executed' = 0
  /\ starts' = starts + 1
  /\ epc' = "pick"
  /\ UNCHANGED <<setvars, schedvars, cur, curtask, taskcount, task_counts, expired, adds>>

\* Between runs the program calls the engine's setters.
SetTimeout(t) ==
  /\ epc = "stopped"
  /\ timeout' = t
  \* `expired` is "the timer, running since the first start(), is past
  \* the timeout": unknown against a new positive timeout, except that a
  \* larger one is not yet reached if the smaller one was not.
  /\ expired' \in CASE t = 0                            -> {FALSE}
                  [] t = timeout                         -> {expired}
                  [] t > timeout /\ timeout > 0 /\ ~expired -> {FALSE}
                  [] OTHER                               -> BOOLEAN
  /\ UNCHANGED <<schedvars, epc, cur, curtask, taskcount, task_counts, aborted,
                 terminatoraborted, status, adds, executed, starts,
                 taskbudget, term_functions, data_manager>>

SetTaskBudget(b) ==
  /\ epc = "stopped"
  /\ taskbudget' = b
  /\ UNCHANGED <<schedvars, enginevars, timeout, term_functions, data_manager>>

AddTerminator ==
  /\ epc = "stopped"
  /\ TermFunctions
  /\ term_functions' = TRUE
  /\ UNCHANGED <<schedvars, enginevars, taskbudget, timeout, data_manager>>

ClearTerminators ==
  /\ epc = "stopped"
  /\ term_functions' = FALSE
  /\ UNCHANGED <<schedvars, enginevars, taskbudget, timeout, data_manager>>

\* set_shared_data_manager(manager): a NULL manager or not; the scope
\* factory it is given plays no part here.
SetSharedDataManager(d) ==
  /\ epc = "stopped"
  /\ data_manager' = d
  /\ UNCHANGED <<schedvars, enginevars, taskbudget, timeout, term_functions>>

Next ==
  \/ \E c \in Cpus : PickCpu(c)
  \/ Expire
  \/ CheckAborts
  \/ GetNextTask
  \/ \E v \in Vertices : Sample(v)
  \/ \E t \in Task, p \in Priorities : UpdatePosts(t, p)
  \/ UpdateReturns
  \/ Finish
  \/ Stopped
  \/ \E S \in SUBSET Vertices \ {{}}, f \in Fns, p \in Priorities : AddTasksBetweenRuns(S, f, p)
  \/ Restart
  \/ \E t \in Timeouts : SetTimeout(t)
  \/ \E b \in Budgets : SetTaskBudget(b)
  \/ AddTerminator
  \/ ClearTerminators
  \/ \E d \in BOOLEAN : SetSharedDataManager(d)

\* start() runs its loop without blocking (the sleeps are bounded); the
\* clock, the termination functions and whether the program calls
\* start() again get no fairness.
EngineStep == Next /\ ~Expire /\ epc # "stopped"

Spec == Init /\ [][Next]_vars /\ WF_vars(EngineStep)

-----------------------------------------------------------------------------

TypeOK ==
  /\ tasks \in [Vertices -> [Fns -> Priorities]]
  /\ weights \in [Vertices -> Priorities]
  /\ jobs \in Nat
  /\ epc \in {"pick", "loop", "get", "sample", "exec", "finish", "stopped"}
  /\ cur \in Cpus \cup {NoCpu}
  /\ curtask \in Task \cup {NoTask}
  /\ taskcount \in Nat
  /\ task_counts \in [Cpus -> Nat]
  /\ {aborted, terminatoraborted, expired} \subseteq BOOLEAN
  /\ status \in Statuses
  /\ adds \in 0..MaxAdds
  /\ executed \in Nat
  /\ starts \in 1..MaxStarts
  /\ taskbudget \in Budgets
  /\ timeout \in Timeouts
  /\ {term_functions, data_manager} \subseteq BOOLEAN

\* Exactly-once completion (spec 8.5): the terminator's job count is the
\* number of distinct pending tasks plus the one being executed.  The
\* scheduler reports COMPLETE when that count reaches zero, so a count
\* that drifts either ends the run with tasks pending or never ends it.
JobsMatchTasks ==
  jobs = Cardinality(Pending) + (IF epc = "exec" THEN 1 ELSE 0)

\* Every call of start() returns: the scheduler eventually reports
\* COMPLETE (or an abort flag is raised), whatever the update functions
\* post, on the first run and on a restarted engine whose timer and
\* taskcount carry over from earlier runs.
StartReturns == epc # "stopped" ~> epc = "stopped"

\* last_update_count(), the sum of task_counts, is the number of updates
\* executed by the last run of the engine (iengine.hpp: "the number of
\* updates executed by the last run of this engine").
UpdateCountExact ==
  epc = "stopped" => LastUpdateCount = executed

\* start() reports EXEC_MAX_TASKS_EXCEEDED only when more updates than the
\* budget were run; a timeout reports EXEC_TIMEOUT.
MaxTasksMeansOverBudget ==
  status = "EXEC_MAX_TASKS_EXCEEDED" => executed > taskbudget

\* start() returns EXEC_COMPLETED only when no task is left pending, or
\* when a termination function fired: the timeout and the task budget
\* raise `aborted` and are reported as such, and the scheduler reports
\* COMPLETE only once the terminator's job count is zero.  The second
\* disjunct is the code's: terminatoraborted is not looked at when the
\* status is chosen, so a termination function's stop reads as a
\* completed run (spec 6 names it a status of its own).
CompletedMeansDrained ==
  [][epc = "finish" /\ status' = "EXEC_COMPLETED" => Pending = {} \/ terminatoraborted]_vars

=============================================================================
