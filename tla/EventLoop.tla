----------------------------- MODULE EventLoop -----------------------------
(***************************************************************************)
(* core/src/event_loop.cpp: the life of an event loop.  loop() starts the  *)
(* workers of the task pool and the mechanism, publishes its readiness and *)
(* joins both when they have been told to stop; terminate() tells them, on *)
(* any thread, a worker's included.  The pool and the mechanism are here   *)
(* what TaskPool and SelectMechanism say of them: workers run until the    *)
(* queue is terminated, the mechanism's thread runs until its _running is  *)
(* cleared, and joining waits for that.  Events are left out.              *)
(***************************************************************************)
EXTENDS Naturals, FiniteSets

CONSTANTS
    Looper,     \* threads that call loop()
    Caller,     \* other threads that call terminate()
    Handler,    \* workers whose task calls terminate()
    None,
    MaxLoops,   \* bound: calls of loop()
    MaxStops    \* bound: calls of terminate()

ASSUME ThreadAssumption ==
    /\ Looper \intersect Caller = {}
    /\ Looper \intersect Handler = {}
    /\ Caller \intersect Handler = {}
    /\ None \notin Looper \union Caller \union Handler
    /\ MaxLoops \in Nat /\ MaxStops \in Nat

VARIABLES
    pc,             \* what a thread does next
    lock,           \* the owner of _lock, or None
    running,        \* _running
    ready,          \* is the value of _ready_promise set
    promise,        \* number of the current _terminate_promise, 0 when none was made
    done,           \* the terminate promises whose value is set
    future,         \* the future that a thread's terminate() returned
    terminated,     \* the flag of the task queue
    pool,           \* the threads of the task pool
    mechRunning,    \* _running of the mechanism
    mech,           \* its thread
    regular,        \* history: no call came at a wrong moment, all threads were created
    loops, stops    \* history: calls so far

vars == <<pc, lock, running, ready, promise, done, future, terminated, pool,
          mechRunning, mech, regular, loops, stops>>
poolVars == <<terminated, pool>>
mechVars == <<mechRunning, mech>>
endVars == <<promise, done, future>>
histVars == <<regular, loops, stops>>

Stopper == Caller \union Handler
Thread == Looper \union Stopper

LooperPoint == {"idle", "assert", "promise", "pool", "create", "initiate", "start",
                "ready", "futures", "join", "finish", "thrown"}
StopperPoint == {"idle", "enter", "mechanisms", "running", "renew", "wait"}

Init ==
    /\ pc = [t \in Thread |-> "idle"]
    /\ lock = None
    /\ running = FALSE
    /\ ready = FALSE
    /\ promise = 0
    /\ done = {}
    /\ future = [t \in Stopper |-> 0]
    /\ terminated = FALSE
    /\ pool = "none"
    /\ mechRunning = FALSE
    /\ mech = "none"
    /\ regular = TRUE
    /\ loops = 0 /\ stops = 0

Go(t, from, to) == pc[t] = from /\ pc' = [pc EXCEPT ![t] = to]

Starting == {"assert", "promise", "pool", "create", "initiate", "start", "ready"}
Looping(t) == pc[t] \notin {"idle", "thrown"}
Stopping(t) == pc[t] \notin {"idle", "wait"}

-----------------------------------------------------------------------------
(* Faulty variants of definitions below, used to test the properties *)

\* Skips the new promise.
CallUnpromised(t) ==
    /\ Go(t, "idle", IF running THEN "assert" ELSE "pool")
    /\ loops < MaxLoops
    /\ loops' = loops + 1
    /\ running' = TRUE
    /\ regular' = (regular /\ \A l \in Looper : ~ Looping(l) /\ \A s \in Stopper : ~ Stopping(s))
    /\ UNCHANGED <<lock, ready, endVars, poolVars, mechVars, stops>>

\* Leaves the old flag of the queue: a terminated one ends the new workers.
InitiatePoolStale(t) ==
    /\ Go(t, "pool", IF pool = "none" THEN "create" ELSE "initiate")
    /\ UNCHANGED <<lock, running, ready, endVars, poolVars, mechVars, histVars>>

\* Does not wait for the workers.
JoinNone(t) ==
    /\ Go(t, "join", "finish")
    /\ UNCHANGED <<lock, running, ready, endVars, poolVars, mechVars, histVars>>

\* Keeps the ready promise of the run that ends.
RenewNothing(t) ==
    /\ Go(t, "renew", "wait")
    /\ future' = [future EXCEPT ![t] = promise]
    /\ lock' = None
    /\ UNCHANGED <<running, ready, promise, done, poolVars, mechVars, histVars>>

\* Tells the pool, not the mechanisms.
TerminatePoolOnly(t) ==
    /\ Go(t, "mechanisms", "running")
    /\ UNCHANGED <<lock, running, ready, endVars, poolVars, mechVars, histVars>>

\* Ends with the value of the previous promise.
FinishSilently(t) ==
    /\ Go(t, "finish", "idle")
    /\ UNCHANGED <<lock, running, ready, endVars, poolVars, mechVars, histVars>>

-----------------------------------------------------------------------------
(* loop() *)

\* A call while no loop() or terminate() is under way is regular.
Call(t) ==
    /\ Go(t, "idle", IF running THEN "assert" ELSE "promise")
    /\ loops < MaxLoops
    /\ loops' = loops + 1
    /\ running' = TRUE
    /\ regular' = (regular /\ \A l \in Looper : ~ Looping(l) /\ \A s \in Stopper : ~ Stopping(s))
    /\ UNCHANGED <<lock, ready, endVars, poolVars, mechVars, stops>>

\* assert_not_running() reads the flag again.
Assert(t) ==
    /\ Go(t, "assert", IF running THEN "idle" ELSE "promise")
    /\ UNCHANGED <<lock, running, ready, endVars, poolVars, mechVars, histVars>>

NewPromise(t) ==
    /\ Go(t, "promise", "pool")
    /\ promise' = promise + 1
    /\ UNCHANGED <<lock, running, ready, done, future, poolVars, mechVars, histVars>>

\* task_worker_pool::initiate() does nothing for a pool that has workers.
InitiatePool(t) ==
    /\ Go(t, "pool", IF pool = "none" THEN "create" ELSE "initiate")
    /\ terminated' = IF pool = "none" THEN FALSE ELSE terminated
    /\ UNCHANGED <<lock, running, ready, endVars, pool, mechVars, histVars>>

CreateWorkers(t) ==
    /\ Go(t, "create", "initiate")
    /\ pool' = "running"
    /\ UNCHANGED <<lock, running, ready, endVars, terminated, mechVars, histVars>>

\* A thread cannot be created: the exception leaves loop(), and the workers before
\* it, if any, in the pool.
CreateFails(t) ==
    /\ Go(t, "create", "idle")
    /\ pool' \in {"none", "running"}
    /\ terminated' = TRUE
    /\ regular' = FALSE
    /\ UNCHANGED <<lock, running, ready, endVars, mechVars, loops, stops>>

\* mechanism->initiate() under _lock: a thread only if it is not running.
InitiateMechanism(t) ==
    /\ lock = None
    /\ Go(t, "initiate", IF mechRunning THEN "ready" ELSE "start")
    /\ lock' = IF mechRunning THEN None ELSE t
    /\ mechRunning' = TRUE
    /\ UNCHANGED <<running, ready, endVars, poolVars, mech, histVars>>

\* It joins the thread of the last run before it starts the next.
StartMechanism(t) ==
    /\ Go(t, "start", "ready")
    /\ mech # "looping"
    /\ mech' = "looping"
    /\ lock' = None
    /\ UNCHANGED <<running, ready, endVars, poolVars, mechRunning, histVars>>

\* set_value() on a promise that has its value throws std::future_error.
SetReady(t) ==
    /\ Go(t, "ready", IF ready THEN "thrown" ELSE "futures")
    /\ ready' = TRUE
    /\ UNCHANGED <<lock, running, endVars, poolVars, mechVars, histVars>>

WaitMechanism(t) ==
    /\ Go(t, "futures", "join")
    /\ mech = "ended"
    /\ UNCHANGED <<lock, running, ready, endVars, poolVars, mechVars, histVars>>

JoinPool(t) ==
    /\ Go(t, "join", "finish")
    /\ pool # "running"
    /\ pool' = "none"
    /\ UNCHANGED <<lock, running, ready, endVars, terminated, mechVars, histVars>>

Finish(t) ==
    /\ Go(t, "finish", IF promise \in done THEN "thrown" ELSE "idle")
    /\ done' = done \union {promise}
    /\ UNCHANGED <<lock, running, ready, promise, future, poolVars, mechVars, histVars>>

-----------------------------------------------------------------------------
(* terminate() *)

\* A call is regular unless some loop() is still starting.
Terminate(t) ==
    /\ Go(t, "idle", "enter")
    /\ t \in Handler => pool = "running"
    /\ stops < MaxStops
    /\ stops' = stops + 1
    /\ regular' = (regular /\ \A l \in Looper : pc[l] \notin Starting)
    /\ UNCHANGED <<lock, running, ready, endVars, poolVars, mechVars, loops>>

TerminatePool(t) ==
    /\ lock = None
    /\ Go(t, "enter", "mechanisms")
    /\ lock' = t
    /\ terminated' = TRUE
    /\ UNCHANGED <<running, ready, endVars, pool, mechVars, histVars>>

TerminateMechanism(t) ==
    /\ Go(t, "mechanisms", "running")
    /\ mechRunning' = FALSE
    /\ UNCHANGED <<lock, running, ready, endVars, poolVars, mech, histVars>>

ClearRunning(t) ==
    /\ Go(t, "running", "renew")
    /\ running' = FALSE
    /\ UNCHANGED <<lock, ready, endVars, poolVars, mechVars, histVars>>

\* A thread outside the loop may wait for the future it is given.
Renew(t) ==
    /\ Go(t, "renew", IF t \in Caller THEN "wait" ELSE "idle")
    /\ ready' = FALSE
    /\ future' = [future EXCEPT ![t] = promise]
    /\ lock' = None
    /\ UNCHANGED <<running, promise, done, poolVars, mechVars, histVars>>

\* The future is ready, was never made (promise 0, wait() throws), or belongs to a
\* promise that was replaced without a value.
Waited(t) ==
    /\ Go(t, "wait", "idle")
    /\ future[t] \in done \/ future[t] = 0 \/ future[t] # promise
    /\ future' = [future EXCEPT ![t] = 0]
    /\ UNCHANGED <<lock, running, ready, promise, done, poolVars, mechVars, histVars>>

-----------------------------------------------------------------------------
(* What the pool and the mechanism promise *)

WorkersEnd ==
    /\ pool = "running" /\ terminated
    /\ \A h \in Handler : pc[h] = "idle"
    /\ pool' = "ended"
    /\ UNCHANGED <<pc, lock, running, ready, endVars, terminated, mechVars, histVars>>

MechanismEnds ==
    /\ mech = "looping" /\ ~ mechRunning
    /\ mech' = "ended"
    /\ UNCHANGED <<pc, lock, running, ready, endVars, poolVars, mechRunning, histVars>>

-----------------------------------------------------------------------------

LooperStep(t) ==
    \/ Assert(t) \/ NewPromise(t) \/ InitiatePool(t) \/ CreateWorkers(t)
    \/ InitiateMechanism(t) \/ StartMechanism(t) \/ SetReady(t)
    \/ WaitMechanism(t) \/ JoinPool(t) \/ Finish(t)

StopperStep(t) ==
    \/ TerminatePool(t) \/ TerminateMechanism(t) \/ ClearRunning(t) \/ Renew(t) \/ Waited(t)

Next ==
    \/ \E t \in Looper : Call(t) \/ CreateFails(t) \/ LooperStep(t)
    \/ \E t \in Stopper : Terminate(t) \/ StopperStep(t)
    \/ WorkersEnd \/ MechanismEnds

\* Threads run; nobody is obliged to call loop() or terminate().
Fairness ==
    /\ \A t \in Looper : WF_vars(LooperStep(t))
    /\ \A t \in Stopper : WF_vars(StopperStep(t))
    /\ WF_vars(WorkersEnd)
    /\ WF_vars(MechanismEnds)

Spec == Init /\ [][Next]_vars
FairSpec == Spec /\ Fairness

-----------------------------------------------------------------------------
(* Properties *)

TypeOK ==
    /\ pc \in [Thread -> LooperPoint \union StopperPoint]
    /\ lock \in Thread \union {None}
    /\ running \in BOOLEAN /\ ready \in BOOLEAN
    /\ promise \in 0 .. MaxLoops
    /\ done \subseteq 1 .. MaxLoops
    /\ future \in [Stopper -> 0 .. MaxLoops]
    /\ terminated \in BOOLEAN
    /\ pool \in {"none", "running", "ended"}
    /\ mechRunning \in BOOLEAN
    /\ mech \in {"none", "looping", "ended"}
    /\ regular \in BOOLEAN
    /\ loops \in 0 .. MaxLoops /\ stops \in 0 .. MaxStops

\* event_loop.h: ready() is set when the loop has started: its workers and its
\* mechanism run, until the next terminate() has begun.
ReadyMeansRunning ==
    regular /\ ready /\ (\A s \in Stopper : pc[s] \notin {"mechanisms", "running", "renew"})
        => running /\ pool = "running" /\ ~ terminated /\ mechRunning /\ mech = "looping"

\* event_loop.h: the future of terminate() is set when the loop has ended: nothing
\* of the run it belongs to is left, and no other is under way.
EndedMeansQuiet ==
    regular /\ promise \in done /\ (\A l \in Looper : ~ Looping(l))
        => pool = "none" /\ mech # "looping" /\ ~ mechRunning

\* No promise is given its value twice, so that loop() does not throw.
NeverThrows == regular => \A l \in Looper : pc[l] # "thrown"

\* A loop that has been told to stop ends, and with it the wait for its future.
TerminateEndsLoop ==
    /\ \A s \in Stopper :
          regular /\ pc[s] = "enter" ~> ~ regular \/ \A l \in Looper : ~ Looping(l)
    /\ \A s \in Caller : regular /\ pc[s] = "wait" ~> ~ regular \/ pc[s] = "idle"

\* event_loop.h: terminate() requests the end of the loop, from any thread.
TerminateIsHeard ==
    \A s \in Stopper :
        pc[s] = "enter" /\ (\E l \in Looper : pc[l] = "initiate")
            ~> \A l \in Looper : ~ Looping(l)
=============================================================================
