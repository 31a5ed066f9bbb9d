-------------------------- MODULE SimEngineColored --------------------------
(***************************************************************************)
(* sim_thread_engine (src/src/graphlab/engine/sim_thread_engine.hpp)       *)
(* driving the colored scheduler.  The engine is one thread: start()       *)
(* picks a random cpuid and calls run_next_task(cpuid), whose while(true)  *)
(* loop checks the timeout (cpu 0 only) and the abort flags, then asks     *)
(* get_next_task for a task.  A get_next_task call is the sequence of      *)
(* scheduler steps of ColoredScheduler for that cpu (nothing else runs in  *)
(* between).  No termination function is registered, so                   *)
(* terminatoraborted stays false; the clock is the environment.            *)
(***************************************************************************)
EXTENDS ColoredScheduler

CONSTANTS
  Timeout,      \* set_timeout(secs); 0 = no timeout
  TaskBudget    \* set_task_budget(max_tasks); 0 = no budget

NoCpu == -1

VARIABLES
  epc,        \* where start()/run_next_task is
  cur,        \* the cpuid run_next_task is running for, or NoCpu
  expired,    \* _timer->current_time() > timeout
  aborted,    \* bool aborted
  taskcount   \* atomic<size_t> taskcount

allvars == <<vars, epc, cur, expired, aborted, taskcount>>

\* start(): aborted = false, the scheduler started, no cpuid picked yet.
EngineInit ==
  /\ Init
  /\ epc = "pick"
  /\ cur = NoCpu
  /\ expired = FALSE
  /\ aborted = FALSE
  /\ taskcount = 0

\* start(): cpuid = random::rand_int(ncpus - 1); run_next_task(cpuid)
PickCpu(c) ==
  /\ epc = "pick"
  /\ cur' = c
  /\ epc' = "loop"
  /\ UNCHANGED <<vars, expired, aborted, taskcount>>

\* The clock passes the timeout.
Expire ==
  /\ Timeout > 0
  /\ ~expired
  /\ epc # "stopped"
  /\ expired' = TRUE
  /\ UNCHANGED <<vars, epc, cur, aborted, taskcount>>

\* Top of the while(true) loop: only cpu 0 compares the timer with the
\* timeout; an abort makes run_next_task return false and start() leave
\* its loop.
LoopTop ==
  /\ epc = "loop"
  /\ LET ab == aborted \/ (Timeout > 0 /\ cur = 0 /\ expired)
     IN  /\ aborted' = ab
         /\ epc' = IF ab THEN "stopped" ELSE "sched"
  /\ UNCHANGED <<vars, cur, expired, taskcount>>

\* Inside get_next_task: one step of the scheduler for cur.
SchedulerStep ==
  /\ epc = "sched"
  /\ \/ GetNextTask(cur)
     \/ IncWaiting(cur)
     \/ ResetWaiting(cur)
     \/ AdvanceColor(cur)
  /\ UNCHANGED <<epc, cur, expired, aborted, taskcount>>

\* The status is EMPTY: no branch of the loop body matches it, so
\* run_next_task goes round its loop again.
EmptyStatus ==
  /\ epc = "sched"
  /\ pc[cur] = "empty"
  /\ pc' = [pc EXCEPT ![cur] = "get"]
  /\ epc' = "loop"
  /\ UNCHANGED <<color, waiting, cpu_index, cpu_color, cpu_waiting, terminated,
                 task, runs, cur, expired, aborted, taskcount>>

\* NEWTASK: get_scope, run the update, commit and release, completed_task;
\* taskcount.inc() past the budget sets aborted; run_next_task returns
\* true and start() picks a new cpuid.
NewTaskStatus ==
  /\ epc = "sched"
  /\ RunTask(cur)
  /\ taskcount' = IF TaskBudget > 0 THEN taskcount + 1 ELSE taskcount
  /\ aborted' = (aborted \/ (TaskBudget > 0 /\ taskcount + 1 > TaskBudget))
  /\ cur' = NoCpu
  /\ epc' = "pick"
  /\ UNCHANGED expired

\* start() has returned.
Stopped ==
  /\ epc = "stopped"
  /\ UNCHANGED allvars

EngineNext ==
  \/ \E c \in Cpus : PickCpu(c)
  \/ Expire
  \/ LoopTop
  \/ SchedulerStep
  \/ EmptyStatus
  \/ NewTaskStatus
  \/ Stopped

\* The engine thread never blocks; the clock gets no fairness.
EngineSpec ==
  EngineInit /\ [][EngineNext]_allvars /\ WF_allvars(EngineNext /\ ~Expire)

\* Once the timeout has passed, start() returns (set_timeout: the run is
\* cut off after timeout seconds), also after the colored scheduler has
\* run its max_iterations sweeps and only answers EMPTY.
TimeoutEndsRun == expired ~> (epc = "stopped")

=============================================================================
