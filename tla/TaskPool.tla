------------------------------ MODULE TaskPool ------------------------------
(***************************************************************************)
(* core/include/mud/core/task.h: task_queue, task_worker and               *)
(* task_worker_pool.  Every member function of the queue is one critical   *)
(* section of _cv_lock, hence one action; waiting on the condition         *)
(* variable releases the lock, so it splits wait_pop() in two.             *)
(***************************************************************************)
EXTENDS Integers, Sequences, SequencesExt, FiniteSets

CONSTANTS
    Task,       \* the packaged tasks, each pushed at most once
    Worker,     \* the _nr_workers threads a pool creates
    None        \* no task

ASSUME WorkerAssumption == IsFiniteSet(Worker)
ASSUME NoneAssumption == None \notin Task

VARIABLES
    tasks,      \* task_queue::_tasks
    available,  \* task_queue::_available
    terminate,  \* task_queue::_terminate
    pc,         \* where each worker thread is in task_worker::run()
    hand,       \* the task a worker has popped and is executing
    finished,   \* tasks whose execution has returned (or thrown)
    popped,     \* tasks a client took with pop()
    pool,       \* task_worker_pool::_pool
    owner       \* the call the thread that owns the pool is in

vars == <<tasks, available, terminate, pc, hand, finished, popped, pool, owner>>
queueVars == <<tasks, available, terminate>>

\* Program points of task_worker::run(); "idle" is a thread not created, "wait"
\* is a thread that is about to test wait_pop()'s predicate with the lock held.
WorkerPoint == {"idle", "start", "check", "wait", "blocked", "run", "exit"}

Blocked == {w \in Worker : pc[w] = "blocked"}
Held == {hand[w] : w \in Worker} \ {None}
Known == ToSet(tasks) \union Held \union finished \union popped

\* _cv.notify_one() wakes one of the waiting threads, if there are any, and
\* _cv.notify_all() all of them; a thread woken tests its predicate again.
NotifyOne == IF Blocked = {} THEN {{}} ELSE {{w} : w \in Blocked}
Woken(S) == [w \in Worker |-> IF w \in S THEN "wait" ELSE pc[w]]

Init ==
    /\ tasks = <<>>
    /\ available = FALSE
    /\ terminate = FALSE
    /\ pc = [w \in Worker |-> "idle"]
    /\ hand = [w \in Worker |-> None]
    /\ finished = {}
    /\ popped = {}
    /\ pool = {}
    /\ owner = "out"

-----------------------------------------------------------------------------
(* Faulty variants of the actions below, used to test the properties *)

\* Notifies only when the queue was empty.
PushNotifyIfEmpty(t) ==
    /\ t \notin Known
    /\ tasks' = Append(tasks, t)
    /\ available' = TRUE
    /\ \E S \in (IF tasks = <<>> THEN NotifyOne ELSE {{}}) : pc' = Woken(S)
    /\ UNCHANGED <<terminate, hand, finished, popped, pool, owner>>

\* Notifies one thread instead of all.
TerminateNotifyOne ==
    /\ terminate' = TRUE
    /\ \E S \in NotifyOne : pc' = Woken(S)
    /\ UNCHANGED <<tasks, available, hand, finished, popped, pool, owner>>

\* Waits without testing the predicate first.
WaitBlockUntested(w) ==
    /\ pc[w] = "wait"
    /\ ~ terminate
    /\ pc' = [pc EXCEPT ![w] = "blocked"]
    /\ UNCHANGED <<queueVars, hand, finished, popped, pool, owner>>

\* Takes the task and leaves it in the queue.
WaitTakeNoPop(w) ==
    /\ pc[w] = "wait"
    /\ available /\ ~ terminate
    /\ tasks # <<>>
    /\ hand' = [hand EXCEPT ![w] = Head(tasks)]
    /\ pc' = [pc EXCEPT ![w] = "run"]
    /\ UNCHANGED <<queueVars, finished, popped, pool, owner>>

\* Takes the newest task.
WaitTakeBack(w) ==
    /\ pc[w] = "wait"
    /\ available /\ ~ terminate
    /\ tasks # <<>>
    /\ hand' = [hand EXCEPT ![w] = Last(tasks)]
    /\ tasks' = Front(tasks)
    /\ available' = (tasks' # <<>>)
    /\ pc' = [pc EXCEPT ![w] = "run"]
    /\ UNCHANGED <<terminate, finished, popped, pool, owner>>

\* Clears the hand before recording what was in it.
ExecuteClearFirst(w) ==
    /\ pc[w] = "run"
    /\ hand' = [hand EXCEPT ![w] = None]
    /\ finished' = finished \union {hand'[w]}
    /\ pc' = [pc EXCEPT ![w] = "check"]
    /\ UNCHANGED <<queueVars, popped, pool, owner>>

\* Clears the pool without joining its threads.
JoinNone ==
    /\ owner = "joining"
    /\ pool' = {}
    /\ owner' = "out"
    /\ UNCHANGED <<queueVars, pc, hand, finished, popped>>

-----------------------------------------------------------------------------
(* task_queue, called by any thread *)

Push(t) ==
    /\ t \notin Known
    /\ tasks' = Append(tasks, t)
    /\ available' = TRUE
    /\ \E S \in NotifyOne : pc' = Woken(S)
    /\ UNCHANGED <<terminate, hand, finished, popped, pool, owner>>

Pop ==
    /\ tasks # <<>>
    /\ popped' = popped \union {Head(tasks)}
    /\ tasks' = Tail(tasks)
    /\ available' = (tasks' # <<>>)
    /\ UNCHANGED <<terminate, pc, hand, finished, pool, owner>>

Terminate ==
    /\ terminate' = TRUE
    /\ pc' = Woken(Blocked)
    /\ UNCHANGED <<tasks, available, hand, finished, popped, pool, owner>>

-----------------------------------------------------------------------------
(* task_worker::run() *)

Started(w) ==
    /\ pc[w] = "start"
    /\ pc' = [pc EXCEPT ![w] = "check"]
    /\ UNCHANGED <<queueVars, hand, finished, popped, pool, owner>>

CheckTerminated(w) ==
    /\ pc[w] = "check"
    /\ pc' = [pc EXCEPT ![w] = IF terminate THEN "exit" ELSE "wait"]
    /\ UNCHANGED <<queueVars, hand, finished, popped, pool, owner>>

WaitBlock(w) ==
    /\ pc[w] = "wait"
    /\ ~ (available \/ terminate)
    /\ pc' = [pc EXCEPT ![w] = "blocked"]
    /\ UNCHANGED <<queueVars, hand, finished, popped, pool, owner>>

WaitTake(w) ==
    /\ pc[w] = "wait"
    /\ available /\ ~ terminate
    /\ tasks # <<>>
    /\ hand' = [hand EXCEPT ![w] = Head(tasks)]
    /\ tasks' = Tail(tasks)
    /\ available' = (tasks' # <<>>)
    /\ pc' = [pc EXCEPT ![w] = "run"]
    /\ UNCHANGED <<terminate, finished, popped, pool, owner>>

\* wait_pop() returns false: the queue is terminated, or holds nothing.
WaitNothing(w) ==
    /\ pc[w] = "wait"
    /\ available \/ terminate
    /\ terminate \/ tasks = <<>>
    /\ available' = (tasks # <<>>)
    /\ pc' = [pc EXCEPT ![w] = "check"]
    /\ UNCHANGED <<tasks, terminate, hand, finished, popped, pool, owner>>

\* std::condition_variable may return from a wait nobody notified.
SpuriousWake(w) ==
    /\ pc[w] = "blocked"
    /\ pc' = [pc EXCEPT ![w] = "wait"]
    /\ UNCHANGED <<queueVars, hand, finished, popped, pool, owner>>

\* A packaged_task keeps an exception of its function: tsk() always returns.
Execute(w) ==
    /\ pc[w] = "run"
    /\ finished' = finished \union {hand[w]}
    /\ hand' = [hand EXCEPT ![w] = None]
    /\ pc' = [pc EXCEPT ![w] = "check"]
    /\ UNCHANGED <<queueVars, popped, pool, owner>>

-----------------------------------------------------------------------------
(* task_worker_pool, called by the thread that owns the pool.  initiate()  *)
(* on a pool that has workers returns at once and changes nothing, not     *)
(* even _terminate.                                                        *)

Initiate ==
    /\ owner = "out"
    /\ pool = {}
    /\ terminate' = FALSE
    /\ owner' = "creating"
    /\ UNCHANGED <<tasks, available, pc, hand, finished, popped, pool>>

CreateWorker(w) ==
    /\ owner = "creating"
    /\ w \notin pool
    /\ pool' = pool \union {w}
    /\ pc' = [pc EXCEPT ![w] = "start"]
    /\ UNCHANGED <<queueVars, hand, finished, popped, owner>>

\* std::thread's constructor throws: the queue is terminated and the exception
\* passed on; the workers made so far stay in the pool.
CreateFails ==
    /\ owner = "creating"
    /\ pool # Worker
    /\ terminate' = TRUE
    /\ pc' = Woken(Blocked)
    /\ owner' = "out"
    /\ UNCHANGED <<tasks, available, hand, finished, popped, pool>>

AllReady ==
    /\ owner = "creating"
    /\ pool = Worker
    /\ \A w \in pool : pc[w] # "start"
    /\ owner' = "out"
    /\ UNCHANGED <<queueVars, pc, hand, finished, popped, pool>>

BeginWait ==
    /\ owner = "out"
    /\ owner' = "joining"
    /\ UNCHANGED <<queueVars, pc, hand, finished, popped, pool>>

JoinAll ==
    /\ owner = "joining"
    /\ \A w \in pool : pc[w] = "exit"
    /\ pc' = [w \in Worker |-> IF w \in pool THEN "idle" ELSE pc[w]]
    /\ pool' = {}
    /\ owner' = "out"
    /\ UNCHANGED <<queueVars, hand, finished, popped>>

-----------------------------------------------------------------------------

Run(w) ==
    \/ Started(w) \/ CheckTerminated(w) \/ WaitBlock(w) \/ WaitTake(w)
    \/ WaitNothing(w) \/ Execute(w)

Next ==
    \/ \E t \in Task : Push(t)
    \/ Pop
    \/ Terminate
    \/ \E w \in Worker : Run(w) \/ SpuriousWake(w) \/ CreateWorker(w)
    \/ Initiate \/ CreateFails \/ AllReady \/ BeginWait \/ JoinAll

\* The scheduler runs every thread that can run, and a task returns; nobody is
\* obliged to push, to terminate, to initiate or to wait.
Fairness ==
    /\ \A w \in Worker : WF_vars(Run(w))
    /\ WF_vars(\E w \in Worker : CreateWorker(w))
    /\ WF_vars(AllReady)
    /\ WF_vars(JoinAll)

Spec == Init /\ [][Next]_vars /\ Fairness

-----------------------------------------------------------------------------
(* Properties *)

TypeOK ==
    /\ tasks \in Seq(Task)
    /\ available \in BOOLEAN
    /\ terminate \in BOOLEAN
    /\ pc \in [Worker -> WorkerPoint]
    /\ hand \in [Worker -> Task \union {None}]
    /\ finished \subseteq Task
    /\ popped \subseteq Task
    /\ pool \subseteq Worker
    /\ owner \in {"out", "creating", "joining"}

\* A worker that is still on its way to the queue.
Coming == {w \in Worker : pc[w] \in {"start", "check", "wait"}}

\* No wake-up is lost, and none is wasted: while a worker sleeps in wait_pop(),
\* every queued task has a worker of its own on its way to the queue.  push()
\* notifies one thread only, and a thread that was already awake may take the
\* task the notified one was woken for.
WorkConserving == Blocked # {} => Len(tasks) <= Cardinality(Coming)

\* Every task is in one place only: once in the queue, in one worker's hand,
\* executed, or handed to a client of pop(); so no task runs twice, however
\* push, pop, terminate and a restart of the pool interleave.
PlacedOnce ==
    /\ IsInjective(tasks)
    /\ \A v, w \in Worker : hand[v] = hand[w] /\ hand[v] # None => v = w
    /\ ToSet(tasks) \intersect (Held \union finished \union popped) = {}
    /\ Held \intersect (finished \union popped) = {}
    /\ finished \intersect popped = {}

\* wait() is a barrier: once it has emptied the pool no task is half executed
\* and no thread of an earlier life is left to take a task of the next one.
JoinedMeansQuiet ==
    /\ \A w \in Worker \ pool : pc[w] = "idle" /\ hand[w] = None
    /\ terminate => Blocked = {}

\* A task that waits while the queue is open and some worker lives is executed
\* (or popped) unless the queue is terminated first.
Alive == \E w \in Worker : pc[w] \notin {"idle", "exit"}
QueuedRuns ==
    \A t \in Task :
        t \in ToSet(tasks) /\ Alive /\ ~ terminate
            ~> t \in finished \union popped \/ terminate

\* terminate() followed by wait() ends: a sleeping worker is woken, a running
\* one finishes its task, and the join returns.
WaitReturns == owner = "joining" /\ terminate ~> owner = "out" /\ pool = {}

\* The pool implements the service it promises.
Service == INSTANCE TaskService WITH
    queued <- tasks, running <- Held, done <- finished, withdrawn <- popped
ServiceSpec == Service!Spec
=============================================================================
