-------------------------- MODULE SelectMechanism --------------------------
(***************************************************************************)
(* core/src/posix/select_mechanism.cpp with select_pipe.cpp and event.cpp: *)
(* the select() thread of the event loop.  It waits for the handles of the *)
(* registered events, takes every triggered event off the list and makes   *)
(* it a task; the worker that runs the task publishes the event and, when  *)
(* its topic still has subscribers, puts it back.  Every change of the     *)
(* list writes one byte into the mechanism's own pipe, which is always one *)
(* of the handles waited for.  A mask is not modelled: an event is         *)
(* triggered when its handle is ready in the way its mask asks for.        *)
(***************************************************************************)
EXTENDS Integers, FiniteSets

CONSTANTS
    User,           \* threads that use the event loop
    Worker,         \* task workers that run the tasks of triggered events
    Loop,           \* the thread of loop()
    Topic,          \* topics of events
    Handle,         \* handles of resources
    Self,           \* the read end of the mechanism's own pipe
    None,
    PipeCapacity,   \* how many bytes that pipe holds
    MaxCalls        \* bound: calls made by user code

ASSUME DistinctAssumption ==
    /\ Self \notin Handle
    /\ Loop \notin User \union Worker
    /\ User \intersect Worker = {}
ASSUME CapacityAssumption == PipeCapacity \in Nat \ {0} /\ MaxCalls \in Nat

Event == [topic : Topic, handle : Handle]
ASSUME NoneAssumption == None \notin Event \union Topic

VARIABLES
    events,         \* _events, the mechanism's own event left out
    tasks,          \* how often the queue holds the task of an event
    job,            \* the event of the task a worker runs, or None
    pc,             \* where a thread is
    nop,            \* is the thread in nop(), and does it hold _lock there
    running,        \* _running
    fds,            \* loop()'s descriptor sets: handles to wait for, then ready
    selfBytes,      \* bytes in the mechanism's own pipe
    ready,          \* handles that are readable or writable
    open,           \* handles that are not closed
    subscribed,     \* topics with a subscriber
    wanted,         \* history: the event a topic was last added with, or None
    added,          \* history: how often user code added a topic, up to 2
    calls           \* history: how many calls user code has made

vars == <<events, tasks, job, pc, nop, running, fds, selfBytes, ready, open,
          subscribed, wanted, added, calls>>
taskVars == <<tasks, job>>
worldVars == <<ready, open, subscribed>>
histVars == <<wanted, added, calls>>

Thread == User \union Worker \union {Loop}

UserPoint == {"user", "joining"}
WorkerPoint == {"idle", "publish", "handler", "check", "readd"}
LoopPoint == {"none", "test", "multiplex", "enter", "select", "badf", "publish",
              "handler", "demultiplex", "signal", "ended"}

Init ==
    /\ events = {}
    /\ tasks = [e \in Event |-> 0]
    /\ job = [w \in Worker |-> None]
    /\ pc = [t \in Thread |->
                IF t = Loop THEN "none" ELSE IF t \in Worker THEN "idle" ELSE "user"]
    /\ nop = [t \in Thread |-> "no"]
    /\ running = FALSE
    /\ fds = {}
    /\ selfBytes = 0
    /\ ready = {}
    /\ open = Handle
    /\ subscribed \in SUBSET Topic     \* the broker is older than the mechanism
    /\ wanted = [p \in Topic |-> None]
    /\ added = [p \in Topic |-> 0]
    /\ calls = 0

\* A thread in nop() does nothing else.  _lock is only held across a step by a
\* thread that is in the nop() of add() or remove().
Moves(t) == nop[t] = "no"
LockFree == \A t \in Thread : nop[t] # "locked"

\* The broker's mutex is held while a handler runs.
BrokerFree(t) == \A u \in Thread \ {t} : pc[u] # "handler"

\* User code runs in user threads and in handlers.
MayCall(t) == Moves(t) /\ pc[t] \in {"user", "handler"} /\ calls < MaxCalls

Handles(s) == {e.handle : e \in s}
Interest == Handles(events) \union {Self}
Readable == ready \union (IF selfBytes > 0 THEN {Self} ELSE {})

-----------------------------------------------------------------------------
(* Faulty variants of definitions below, used to test the properties *)

\* Adds an event without looking for one with its topic.
ReplaceNone(s, e) == s \union {e}

\* Removes without nop().
RemoveSilently(t, p) ==
    /\ MayCall(t)
    /\ LockFree
    /\ events' = {e \in events : e.topic # p}
    /\ wanted' = [wanted EXCEPT ![p] = None]
    /\ calls' = calls + 1
    /\ UNCHANGED <<taskVars, pc, nop, running, fds, selfBytes, worldVars, added>>

\* The task does not put the event back.
CheckForgetful(w) ==
    /\ Moves(w)
    /\ pc[w] = "check"
    /\ BrokerFree(w)
    /\ pc' = [pc EXCEPT ![w] = "idle"]
    /\ job' = [job EXCEPT ![w] = None]
    /\ UNCHANGED <<events, tasks, nop, running, fds, selfBytes, worldVars, histVars>>

\* Counts a byte as read in every round.
CapturedAlways == 1

\* Adds without nop().
AddSilently(t, e) ==
    /\ MayCall(t)
    /\ LockFree
    /\ e.handle \in open
    /\ events' = {f \in events : f.topic # e.topic} \union {e}
    /\ wanted' = [wanted EXCEPT ![e.topic] = e]
    /\ added' = [added EXCEPT ![e.topic] = IF @ < 2 THEN @ + 1 ELSE @]
    /\ calls' = calls + 1
    /\ UNCHANGED <<taskVars, pc, nop, running, fds, selfBytes, worldVars>>

\* Stops without waking the loop.
TerminateSilently(t) ==
    /\ MayCall(t)
    /\ running
    /\ running' = FALSE
    /\ calls' = calls + 1
    /\ UNCHANGED <<events, taskVars, pc, nop, fds, selfBytes, worldVars, wanted, added>>

-----------------------------------------------------------------------------
(* The environment: resources become ready, and handlers consume the data  *)

Signal(h) ==
    /\ h \in open \ ready
    /\ ready' = ready \union {h}
    /\ UNCHANGED <<events, taskVars, pc, nop, running, fds, selfBytes, open,
                   subscribed, histVars>>

\* The handler of an event reads or writes its resource.
Consume(w) ==
    /\ Moves(w)
    /\ pc[w] = "handler"
    /\ job[w].handle \in ready
    /\ ready' = ready \ {job[w].handle}
    /\ UNCHANGED <<events, taskVars, pc, nop, running, fds, selfBytes, open,
                   subscribed, histVars>>

-----------------------------------------------------------------------------
(* nop() and the operations that end in it *)

\* signal::trigger(): write() blocks while the pipe is full.
Trigger(t) ==
    /\ nop[t] # "no"
    /\ selfBytes < PipeCapacity
    /\ selfBytes' = selfBytes + 1
    /\ nop' = [nop EXCEPT ![t] = "no"]
    /\ UNCHANGED <<events, taskVars, pc, running, fds, worldVars, histVars>>

\* _events without the event equal to e, and with e.
Replace(s, e) == {f \in s : f.topic # e.topic} \union {e}

Add(t, e) ==
    /\ MayCall(t)
    /\ LockFree
    /\ e.handle \in open
    /\ events' = Replace(events, e)
    /\ nop' = [nop EXCEPT ![t] = "locked"]
    /\ wanted' = [wanted EXCEPT ![e.topic] = e]
    /\ added' = [added EXCEPT ![e.topic] = IF @ < 2 THEN @ + 1 ELSE @]
    /\ calls' = calls + 1
    /\ UNCHANGED <<taskVars, pc, running, fds, selfBytes, worldVars>>

Remove(t, p) ==
    /\ MayCall(t)
    /\ LockFree
    /\ events' = {e \in events : e.topic # p}
    /\ nop' = [nop EXCEPT ![t] = IF events' = events THEN "no" ELSE "locked"]
    /\ wanted' = [wanted EXCEPT ![p] = None]
    /\ calls' = calls + 1
    /\ UNCHANGED <<taskVars, pc, running, fds, selfBytes, worldVars, added>>

\* load() and store() are two steps of the code; nothing but another
\* terminate() or initiate() can come between them.
Terminate(t) ==
    /\ MayCall(t)
    /\ running
    /\ running' = FALSE
    /\ nop' = [nop EXCEPT ![t] = "free"]
    /\ calls' = calls + 1
    /\ UNCHANGED <<events, taskVars, pc, fds, selfBytes, worldVars, wanted, added>>

\* initiate() by the thread that turns _running on; it goes on to join.
Initiate(t) ==
    /\ MayCall(t)
    /\ pc[t] = "user"
    /\ ~ running
    /\ running' = TRUE
    /\ pc' = [pc EXCEPT ![t] = "joining"]
    /\ calls' = calls + 1
    /\ UNCHANGED <<events, taskVars, nop, fds, selfBytes, worldVars, wanted, added>>

\* The thread of an earlier loop(), if any, has ended: start the next one.
Start(t) ==
    /\ Moves(t)
    /\ pc[t] = "joining"
    /\ pc[Loop] \in {"none", "ended"}
    /\ pc' = [pc EXCEPT ![t] = "user", ![Loop] = "test"]
    /\ UNCHANGED <<events, taskVars, nop, running, fds, selfBytes, worldVars, histVars>>

-----------------------------------------------------------------------------
(* Other calls of user code that the mechanism depends on *)

Attach(t, p) ==
    /\ MayCall(t)
    /\ BrokerFree(t)
    /\ p \notin subscribed
    /\ subscribed' = subscribed \union {p}
    /\ calls' = calls + 1
    /\ UNCHANGED <<events, taskVars, pc, nop, running, fds, selfBytes, ready, open, wanted, added>>

Detach(t, p) ==
    /\ MayCall(t)
    /\ BrokerFree(t)
    /\ p \in subscribed
    /\ subscribed' = subscribed \ {p}
    /\ calls' = calls + 1
    /\ UNCHANGED <<events, taskVars, pc, nop, running, fds, selfBytes, ready, open, wanted, added>>

\* Of a resource that may have an event registered.
Close(t, h) ==
    /\ MayCall(t)
    /\ h \in open
    /\ open' = open \ {h}
    /\ ready' = ready \ {h}
    /\ calls' = calls + 1
    /\ UNCHANGED <<events, taskVars, pc, nop, running, fds, selfBytes, subscribed, wanted, added>>

-----------------------------------------------------------------------------
(* loop() *)

GoLoop(from, to) ==
    /\ Moves(Loop)
    /\ pc[Loop] = from
    /\ pc' = [pc EXCEPT ![Loop] = to]

\* The while condition; past the loop a last nop().
Test ==
    /\ GoLoop("test", IF running THEN "multiplex" ELSE "signal")
    /\ nop' = [nop EXCEPT ![Loop] = IF running THEN "no" ELSE "free"]
    /\ UNCHANGED <<events, taskVars, running, fds, selfBytes, worldVars, histVars>>

Multiplex ==
    /\ GoLoop("multiplex", "enter")
    /\ LockFree
    /\ fds' = Interest
    /\ UNCHANGED <<events, taskVars, nop, running, selfBytes, worldVars, histVars>>

\* select() refuses a closed descriptor when it is called, not later.
SelectEnter ==
    /\ GoLoop("enter", IF fds \subseteq open \union {Self} THEN "select" ELSE "badf")
    /\ UNCHANGED <<events, taskVars, nop, running, fds, selfBytes, worldVars, histVars>>

SelectReady ==
    /\ GoLoop("select", "demultiplex")
    /\ fds \intersect Readable # {}
    /\ fds' = fds \intersect Readable
    /\ UNCHANGED <<events, taskVars, nop, running, selfBytes, worldVars, histVars>>

\* The deadline of the first timer has passed.
SelectTimeout ==
    /\ GoLoop("select", "publish")
    /\ fds \intersect Readable = {}
    /\ fds' = {}
    /\ UNCHANGED <<events, taskVars, nop, running, selfBytes, worldVars, histVars>>

\* publish(_timed_out) runs the handlers of timers on this thread.
PublishTimedOut ==
    /\ GoLoop("publish", "handler")
    /\ BrokerFree(Loop)
    /\ UNCHANGED <<events, taskVars, nop, running, fds, selfBytes, worldVars, histVars>>

TimedOutReturns ==
    /\ GoLoop("handler", "demultiplex")
    /\ UNCHANGED <<events, taskVars, nop, running, fds, selfBytes, worldVars, histVars>>

RemoveBadf ==
    /\ GoLoop("badf", "test")
    /\ LockFree
    /\ events' = {e \in events : e.handle \in open}
    /\ wanted' = [p \in Topic |->
                     IF \E e \in events \ events' : e.topic = p THEN None ELSE wanted[p]]
    /\ UNCHANGED <<taskVars, nop, running, fds, selfBytes, worldVars, added, calls>>

\* signal::capture() reads one byte, once, when the pipe was found readable.
Captured == IF Self \in fds /\ selfBytes > 0 THEN 1 ELSE 0

\* Every event whose handle was found ready leaves the list and becomes a task.
Demultiplex ==
    LET hit == {e \in events : e.handle \in fds}
    IN  /\ GoLoop("demultiplex", "test")
        /\ LockFree
        /\ events' = events \ hit
        /\ tasks' = [e \in Event |-> tasks[e] + (IF e \in hit THEN 1 ELSE 0)]
        /\ selfBytes' = selfBytes - Captured
        /\ UNCHANGED <<job, nop, running, fds, worldVars, histVars>>

SignalEnd ==
    /\ GoLoop("signal", "ended")
    /\ UNCHANGED <<events, taskVars, nop, running, fds, selfBytes, worldVars, histVars>>

-----------------------------------------------------------------------------
(* The task of a triggered event *)

GoWorker(w, from, to) ==
    /\ Moves(w)
    /\ pc[w] = from
    /\ pc' = [pc EXCEPT ![w] = to]

Take(w, e) ==
    /\ GoWorker(w, "idle", "publish")
    /\ tasks[e] > 0
    /\ tasks' = [tasks EXCEPT ![e] = @ - 1]
    /\ job' = [job EXCEPT ![w] = e]
    /\ UNCHANGED <<events, nop, running, fds, selfBytes, worldVars, histVars>>

Publish(w) ==
    /\ BrokerFree(w)
    /\ \/ /\ GoWorker(w, "publish", "handler")
          /\ job[w].topic \in subscribed
       \/ /\ GoWorker(w, "publish", "check")
          /\ job[w].topic \notin subscribed
    /\ UNCHANGED <<events, taskVars, nop, running, fds, selfBytes, worldVars, histVars>>

HandlerReturns(w) ==
    /\ GoWorker(w, "handler", "check")
    /\ UNCHANGED <<events, taskVars, nop, running, fds, selfBytes, worldVars, histVars>>

\* The task ends and does not put its event back: its topic has no event left,
\* unless one was added meanwhile.
Drop(w) ==
    /\ job' = [job EXCEPT ![w] = None]
    /\ wanted' = [wanted EXCEPT ![job[w].topic] =
                     IF \E e \in events : e.topic = job[w].topic THEN @ ELSE None]

\* The packaged_task stores the exception; nobody has its future.
HandlerThrows(w) ==
    /\ GoWorker(w, "handler", "idle")
    /\ Drop(w)
    /\ UNCHANGED <<events, tasks, nop, running, fds, selfBytes, worldVars, added, calls>>

\* broker::size(): the event is dropped when nobody subscribes to its topic.
Check(w) ==
    /\ BrokerFree(w)
    /\ \/ /\ GoWorker(w, "check", "readd")
          /\ job[w].topic \in subscribed
          /\ UNCHANGED <<job, wanted>>
       \/ /\ GoWorker(w, "check", "idle")
          /\ job[w].topic \notin subscribed
          /\ Drop(w)
    /\ UNCHANGED <<events, tasks, nop, running, fds, selfBytes, worldVars, added, calls>>

\* add() by the task itself.
ReAdd(w) ==
    /\ GoWorker(w, "readd", "idle")
    /\ LockFree
    /\ events' = Replace(events, job[w])
    /\ nop' = [nop EXCEPT ![w] = "locked"]
    /\ job' = [job EXCEPT ![w] = None]
    /\ UNCHANGED <<tasks, running, fds, selfBytes, worldVars, histVars>>

-----------------------------------------------------------------------------

LoopStep ==
    \/ Test \/ Multiplex \/ SelectEnter \/ SelectReady \/ PublishTimedOut
    \/ TimedOutReturns \/ RemoveBadf \/ Demultiplex \/ SignalEnd

WorkerStep(w) ==
    \/ \E e \in Event : Take(w, e)
    \/ Publish(w) \/ HandlerReturns(w) \/ Check(w) \/ ReAdd(w)

UserCall(t) ==
    \/ \E e \in Event : Add(t, e)
    \/ \E p \in Topic : Remove(t, p) \/ Attach(t, p) \/ Detach(t, p)
    \/ Terminate(t) \/ Initiate(t)

\* Handlers do not throw, and descriptors stay open while they are registered.
Basic ==
    \/ \E h \in Handle : Signal(h)
    \/ \E w \in Worker : WorkerStep(w) \/ Consume(w)
    \/ \E t \in Thread : UserCall(t) \/ Trigger(t)
    \/ \E t \in User : Start(t)
    \/ LoopStep \/ SelectTimeout

Failing ==
    \/ \E t \in Thread, h \in Handle : Close(t, h)
    \/ \E w \in Worker : HandlerThrows(w)

Next == Basic \/ Failing

\* The scheduler runs every thread that can run, and handlers return; no
\* thread is obliged to call anything, no resource to become ready, and no
\* timer to expire.
Fairness ==
    /\ WF_vars(LoopStep)
    /\ \A w \in Worker : WF_vars(WorkerStep(w))
    /\ \A t \in Thread : WF_vars(Trigger(t))
    /\ \A t \in User : WF_vars(Start(t))

Spec == Init /\ [][Next]_vars
FairSpec == Spec /\ Fairness
BasicSpec == Init /\ [][Basic]_vars

-----------------------------------------------------------------------------
(* Properties *)

TypeOK ==
    /\ events \subseteq Event
    /\ tasks \in [Event -> Nat]
    /\ job \in [Worker -> Event \union {None}]
    /\ pc \in [Thread -> UserPoint \union WorkerPoint \union LoopPoint]
    /\ nop \in [Thread -> {"no", "free", "locked"}]
    /\ running \in BOOLEAN
    /\ fds \subseteq Handle \union {Self}
    /\ selfBytes \in 0 .. PipeCapacity
    /\ ready \subseteq open
    /\ open \subseteq Handle
    /\ subscribed \subseteq Topic
    /\ wanted \in [Topic -> Event \union {None}]
    /\ added \in [Topic -> 0 .. 2]
    /\ calls \in 0 .. MaxCalls

\* Where the event of a topic is: on the list, in the queue, with a worker.
Listed(p) == \E e \in events : e.topic = p
Queued(p) == \E e \in Event : e.topic = p /\ tasks[e] > 0
Holds(w, p) == job[w] # None /\ job[w].topic = p
Held(p) == \E w \in Worker : Holds(w, p)
Somewhere(p) == Listed(p) \/ Queued(p) \/ Held(p)

\* _events holds one event per topic, whoever adds it: a user thread, a handler
\* or the task of a triggered event while a user adds the same topic again.  The
\* event of a topic that user code added once is at one place at a time, whatever
\* is removed, closed or thrown meanwhile, so that at most one task of it waits or
\* runs; Tcp and Http take that for granted of the events of their sockets.
AtOnePlace(p) ==
    /\ \A e, f \in Event :
          {e.topic, f.topic} = {p} /\ tasks[e] > 0 /\ tasks[f] > 0 => e = f /\ tasks[e] = 1
    /\ \A v, w \in Worker : Holds(v, p) /\ Holds(w, p) => v = w
    /\ Listed(p) => ~ Queued(p) /\ ~ Held(p)
    /\ Queued(p) => ~ Held(p)
OnePerTopic ==
    /\ \A e, f \in events : e.topic = f.topic => e = f
    /\ \A p \in Topic : added[p] <= 1 => AtOnePlace(p)

\* The loop never sleeps on a stale state: if the set it is about to wait for or
\* waits for is not the registered one, or it has been told to stop, its pipe is
\* readable or some thread is just about to write to it.  One byte is read per
\* round, and the set is rebuilt after the read, so no change is overlooked.
WakeUpPending == selfBytes > 0 \/ \E t \in Thread : nop[t] # "no"
NeverSleepsOnChange ==
    /\ pc[Loop] \in {"enter", "select"} /\ fds # Interest => WakeUpPending
    /\ pc[Loop] \in {"multiplex", "enter", "select"} /\ ~ running => WakeUpPending

\* event.h:59: an event that was added stays with the loop - on the list, in the
\* queue or with the worker that handles it - until it is removed, it is handled
\* while its topic has no subscriber, its handler throws or its handle is closed.
Accounted == \A p \in Topic : wanted[p] # None => Somewhere(p)

\* event_loop.h:106, event_loop_test.cpp:248: what was removed is not registered.
RemovedStaysAway == \A e \in events : wanted[e.topic] # None

\* While the loop runs and its pipe has room, an event whose handle is ready is
\* taken off the list, unless it is removed, closed or stops being ready.
SignalledIsTaken ==
    \A e \in Event :
        e \in events /\ e.handle \in ready /\ pc[Loop] \notin {"none", "signal", "ended"}
            ~> \/ e \notin events
               \/ e.handle \notin ready
               \/ pc[Loop] \in {"signal", "ended"}

\* A loop that was told to stop ends, unless it is initiated again.
TerminateEnds == ~ running ~> pc[Loop] \in {"none", "ended"} \/ running
=============================================================================
