--------------------------- MODULE BlockingQueue ----------------------------
(***************************************************************************)
(* blocking_queue<T> of src/src/graphlab/util/blocking_queue.hpp: a list   *)
(* guarded by m_mutex, the flag m_alive and two condition variables,       *)
(* m_conditional (waited on by dequeue, signalled by enqueue) and          *)
(* m_empty_conditional (waited on by wait_until_empty, signalled when a    *)
(* pop empties the list).                                                  *)
(*                                                                         *)
(* Every method holds m_mutex from start to end except while it waits on a *)
(* condition variable, so one pass of a method, up to its return or its    *)
(* wait, is one step.  A waiting thread is in the condition variable's     *)
(* wait set; signal() takes one thread out of it, broadcast() all of them; *)
(* a thread taken out runs its while test again.  Spurious wake-ups are    *)
(* left out: the while loops make them equivalent to a stutter.            *)
(***************************************************************************)
EXTENDS Integers, Sequences, FiniteSets

CONSTANTS
  Threads,        \* the threads that call the queue's methods
  Elems,          \* the elements that may be enqueued
  NoElem          \* T(): the element a failed dequeue returns

VARIABLES
  m_queue,             \* std::list<T> m_queue
  m_alive,             \* bool m_alive
  condWait,            \* threads waiting on m_conditional
  emptyWait,           \* threads waiting on m_empty_conditional
  bqpc,                \* idle, or inside dequeue ("dq") / wait_until_empty ("we")
  res,                 \* {what each thread's last dequeue() returned}, {} before any
  put,                 \* history: the elements enqueued, in order
  got                  \* history: the elements dequeued, in order

bqvars == <<m_queue, m_alive, condWait, emptyWait, bqpc, res, put, got>>

Result == [ok : BOOLEAN, elem : Elems \cup {NoElem}]
Failed == [ok |-> FALSE, elem |-> NoElem]

\* The wait sets a signal() can leave: one waiter, if any, is woken.
Signalled(W) == IF W = {} THEN {W} ELSE {W \ {w} : w \in W}

\* blocking_queue(): alive and empty
BQInit ==
  /\ m_queue = <<>>
  /\ m_alive = TRUE
  /\ condWait = {}
  /\ emptyWait = {}
  /\ bqpc = [t \in Threads |-> "idle"]
  /\ res = [t \in Threads |-> {}]
  /\ put = <<>>
  /\ got = <<>>

\* Mutant of Enqueue: the waiting consumers are not signalled.
EnqueueWithoutSignal(t, e) ==
  /\ bqpc[t] = "idle"
  /\ m_queue' = Append(m_queue, e)
  /\ put' = Append(put, e)
  /\ UNCHANGED <<m_alive, condWait, emptyWait, bqpc, res, got>>

\* enqueue(elem): push_back and signal m_conditional.
Enqueue(t, e) ==
  /\ bqpc[t] = "idle"
  /\ m_queue' = Append(m_queue, e)
  /\ put' = Append(put, e)
  /\ condWait' \in Signalled(condWait)
  /\ UNCHANGED <<m_alive, emptyWait, bqpc, res, got>>

\* front(), pop_front(), and m_empty_conditional.signal() if that emptied
\* the list; the call returns [elem, true].
PopFront ==
  /\ m_queue' = Tail(m_queue)
  /\ got' = Append(got, Head(m_queue))
  /\ IF Len(m_queue) = 1
       THEN emptyWait' \in Signalled(emptyWait)
       ELSE UNCHANGED emptyWait

\* One pass of dequeue()'s code: wait on m_conditional when `wait` holds;
\* otherwise pop if there is an element, else return [T(), false].
DequeuePass(t, wait) ==
  /\ bqpc[t] \in {"idle", "dq"}
  /\ t \notin condWait
  /\ IF wait
       THEN /\ condWait' = condWait \cup {t}
            /\ bqpc' = [bqpc EXCEPT ![t] = "dq"]
            /\ UNCHANGED <<m_queue, m_alive, emptyWait, res, put, got>>
       ELSE /\ bqpc' = [bqpc EXCEPT ![t] = "idle"]
            /\ IF m_queue # <<>>
                 THEN /\ PopFront
                      /\ res' = [res EXCEPT ![t] = {[ok |-> TRUE, elem |-> Head(m_queue)]}]
                 ELSE /\ res' = [res EXCEPT ![t] = {Failed}]
                      /\ UNCHANGED <<m_queue, emptyWait, got>>
            /\ UNCHANGED <<m_alive, condWait, put>>

\* Mutant of Dequeue: without the test of line 80 the front of the list
\* is taken after the loop even when the loop ended on a stopped, empty
\* queue (front() of an empty std::list: some value that is no element).
DequeueUncheckedFront(t) ==
  /\ bqpc[t] \in {"idle", "dq"}
  /\ t \notin condWait
  /\ IF m_queue = <<>> /\ m_alive
       THEN /\ condWait' = condWait \cup {t}
            /\ bqpc' = [bqpc EXCEPT ![t] = "dq"]
            /\ UNCHANGED <<m_queue, m_alive, emptyWait, res, put, got>>
       ELSE /\ bqpc' = [bqpc EXCEPT ![t] = "idle"]
            /\ IF m_queue # <<>>
                 THEN /\ PopFront
                      /\ res' = [res EXCEPT ![t] = {[ok |-> TRUE, elem |-> Head(m_queue)]}]
                 ELSE /\ got' = Append(got, NoElem)
                      /\ res' = [res EXCEPT ![t] = {[ok |-> TRUE, elem |-> NoElem]}]
                      /\ UNCHANGED <<m_queue, emptyWait>>
            /\ UNCHANGED <<m_alive, condWait, put>>

\* Mutant of Dequeue: `if` for `while`: a thread woken from m_conditional
\* does not wait again when another thread took the element in the
\* meantime, and returns [T(), false] on a live queue.
DequeueWithoutRecheck(t) ==
  DequeuePass(t, bqpc[t] = "idle" /\ m_queue = <<>> /\ m_alive)

\* dequeue(): while the list is empty and the queue alive, wait on
\* m_conditional; the first pass and every pass after a wake-up run the
\* same test.
Dequeue(t) == DequeuePass(t, m_queue = <<>> /\ m_alive)

\* try_dequeue(): [T(), false] when the list is empty or the queue is no
\* longer alive, otherwise pop (its result is not recorded in res).
TryDequeue(t) ==
  /\ bqpc[t] = "idle"
  /\ IF m_queue = <<>> \/ ~m_alive
       THEN UNCHANGED <<m_queue, emptyWait, got>>
       ELSE PopFront
  /\ UNCHANGED <<m_alive, condWait, bqpc, res, put>>

\* wait_until_empty(): while the list has elements and the queue is
\* alive, wait on m_empty_conditional; then return m_alive.
WaitUntilEmpty(t) ==
  /\ bqpc[t] \in {"idle", "we"}
  /\ t \notin emptyWait
  /\ IF m_queue # <<>> /\ m_alive
       THEN /\ emptyWait' = emptyWait \cup {t}
            /\ bqpc' = [bqpc EXCEPT ![t] = "we"]
       ELSE /\ bqpc' = [bqpc EXCEPT ![t] = "idle"]
            /\ UNCHANGED emptyWait
  /\ UNCHANGED <<m_queue, m_alive, condWait, res, put, got>>

\* Mutant of StopBlocking: m_empty_conditional is not broadcast.
StopBlockingDequeuersOnly(t) ==
  /\ bqpc[t] = "idle"
  /\ m_alive' = FALSE
  /\ condWait' = {}
  /\ UNCHANGED <<m_queue, emptyWait, bqpc, res, put, got>>

\* stop_blocking(): m_alive = false and broadcast both condition
\* variables.
StopBlocking(t) ==
  /\ bqpc[t] = "idle"
  /\ m_alive' = FALSE
  /\ condWait' = {}
  /\ emptyWait' = {}
  /\ UNCHANGED <<m_queue, bqpc, res, put, got>>

\* signal(): broadcast m_conditional.
Signal(t) ==
  /\ bqpc[t] = "idle"
  /\ condWait' = {}
  /\ UNCHANGED <<m_queue, m_alive, emptyWait, bqpc, res, put, got>>

\* signal_blocking_empty(): broadcast m_empty_conditional.
SignalBlockingEmpty(t) ==
  /\ bqpc[t] = "idle"
  /\ emptyWait' = {}
  /\ UNCHANGED <<m_queue, m_alive, condWait, bqpc, res, put, got>>

-----------------------------------------------------------------------------
(* The queue on its own: every thread may call any method at any time;   *)
(* MaxItems bounds the enqueues.                                         *)

CONSTANT MaxItems

BQNext ==
  \E t \in Threads :
    \/ Len(put) < MaxItems /\ Enqueue(t, Len(put) + 1)
    \/ Dequeue(t)
    \/ TryDequeue(t)
    \/ WaitUntilEmpty(t)
    \/ StopBlocking(t)
    \/ Signal(t)
    \/ SignalBlockingEmpty(t)

\* A thread that has started a method and is not in a wait set holds or
\* will get the mutex and goes on; which method an idle thread calls
\* next is the program's choice and gets no fairness.
BQFairness ==
  \A t \in Threads :
    /\ WF_bqvars(bqpc[t] = "dq" /\ Dequeue(t))
    /\ WF_bqvars(bqpc[t] = "we" /\ WaitUntilEmpty(t))

BQSpec == BQInit /\ [][BQNext]_bqvars /\ BQFairness

BQTypeOK ==
  /\ m_queue \in Seq(Elems)
  /\ m_alive \in BOOLEAN
  /\ condWait \subseteq Threads
  /\ emptyWait \subseteq Threads
  /\ bqpc \in [Threads -> {"idle", "dq", "we"}]
  /\ res \in [Threads -> {{}} \cup {{r} : r \in Result}]
  /\ put \in Seq(Elems)
  /\ got \in Seq(Elems)

\* No lost wake-up: while dequeuers sleep on m_conditional, every element
\* in the list has a woken dequeuer on its way to take it.  Each enqueue
\* signals one sleeper; a woken thread that finds the list emptied by
\* another goes back to sleep.
NoLostWakeup ==
  condWait # {} =>
    Len(m_queue) <= Cardinality({t \in Threads : bqpc[t] = "dq" /\ t \notin condWait})

\* dequeue() blocks "until an element is available or until
\* stop_blocking() is called": it returns [T(), false] only on a stopped
\* queue, which is what fcallhandler_loop takes as the order to quit.
DequeueFailsOnlyWhenStopped ==
  \A t \in Threads : Failed \in res[t] => ~m_alive

\* stop_blocking() wakes every thread blocked in dequeue() or
\* wait_until_empty(), and they all return.
StopReleasesAll ==
  ~m_alive ~> (\A t \in Threads : bqpc[t] = "idle")

\* wait_until_empty() "will block until the queue becomes empty, or until
\* stop_blocking() is called": whenever the list is empty, no thread is
\* still asleep in it.  The pop that empties the list signals
\* m_empty_conditional once, which wakes one of the waiters.
EmptyHasNoSleepers ==
  m_queue = <<>> => emptyWait = {}

=============================================================================
