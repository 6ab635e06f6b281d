----------------------- MODULE SelectMechanismProofs -----------------------
(***************************************************************************)
(* Theorems about SelectMechanism for any threads, topics, handles and     *)
(* sizes, with handlers that throw and descriptors that are closed at any  *)
(* time: the list keeps one event per topic, no change of it is overlooked *)
(* by the loop, and no registered event is lost.                           *)
(***************************************************************************)
EXTENDS SelectMechanism, TLAPS

Point == UserPoint \union WorkerPoint \union LoopPoint

\* A worker past its start and not yet done has an event, an idle one has none.
Holding == {"publish", "handler", "check", "readd"}
JobsHeld ==
    \A w \in Worker :
        /\ pc[w] \in Holding => job[w] \in Event
        /\ pc[w] = "idle" => job[w] = None

\* An event is somewhere only if user code added its topic.
Known == \A p \in Topic : added[p] = 0 => ~ Somewhere(p)

\* The two halves of OnePerTopic.
Unique == \A e, f \in events : e.topic = f.topic => e = f
Placed == \A p \in Topic : added[p] <= 1 => AtOnePlace(p)

IInv ==
    /\ TypeOK
    /\ JobsHeld
    /\ Known
    /\ OnePerTopic
    /\ NeverSleepsOnChange
    /\ Accounted

LEMMA InitInv == Init => IInv
  <1>1. SUFFICES ASSUME Init PROVE IInv
    OBVIOUS
  <1>2. TypeOK
    <2>1. pc \in [Thread -> Point]
      BY <1>1 DEF Init, Point, UserPoint, WorkerPoint, LoopPoint
    <2>2. 0 \in 0 .. PipeCapacity /\ 0 \in 0 .. MaxCalls
      BY CapacityAssumption
    <2>3. tasks \in [Event -> Nat] /\ added \in [Topic -> 0 .. 2]
      BY <1>1 DEF Init
    <2>4. QED
      BY <1>1, <2>1, <2>2, <2>3 DEF Init, TypeOK, Point
  <1>3. JobsHeld
    BY <1>1, DistinctAssumption DEF Init, JobsHeld, Holding, Thread
  <1>4. OnePerTopic /\ Known
    BY <1>1 DEF Init, OnePerTopic, Known, AtOnePlace, Somewhere, Listed, Queued, Held, Holds
  <1>5. NeverSleepsOnChange
    BY <1>1 DEF Init, NeverSleepsOnChange, Thread
  <1>6. Accounted
    BY <1>1 DEF Init, Accounted
  <1>7. QED
    BY <1>2, <1>3, <1>4, <1>5, <1>6 DEF IInv

-----------------------------------------------------------------------------
(* Type correctness *)

LEMMA TypeCall ==
    ASSUME TypeOK, NEW t \in Thread, UserCall(t) \/ Trigger(t) \/ (t \in User /\ Start(t))
    PROVE  TypeOK'
  <1>1. CASE \E e \in Event : Add(t, e)
    <2>1. PICK e \in Event : Add(t, e)
      BY <1>1
    <2>2. e.topic \in Topic
      BY DEF Event
    <2>3. QED
      BY <2>1, <2>2, CapacityAssumption DEF TypeOK, Add, Replace, MayCall, taskVars, worldVars
  <1>2. CASE \E p \in Topic : Remove(t, p)
    <2>1. PICK p \in Topic : Remove(t, p)
      BY <1>2
    <2>2. QED
      BY <2>1, CapacityAssumption DEF TypeOK, Remove, MayCall, taskVars, worldVars
  <1>3. CASE \E p \in Topic : Attach(t, p) \/ Detach(t, p)
    BY <1>3, CapacityAssumption DEF TypeOK, Attach, Detach, MayCall, taskVars
  <1>4. CASE Terminate(t)
    <2>1. running' \in BOOLEAN
      BY <1>4 DEF Terminate
    <2>2. nop' \in [Thread -> {"no", "free", "locked"}]
      BY <1>4 DEF TypeOK, Terminate
    <2>3. calls' \in 0 .. MaxCalls
      BY <1>4, CapacityAssumption DEF TypeOK, Terminate, MayCall
    <2>4. QED
      BY <1>4, <2>1, <2>2, <2>3 DEF TypeOK, Terminate, taskVars, worldVars
  <1>5. CASE Initiate(t)
    BY <1>5, CapacityAssumption DEF TypeOK, Initiate, MayCall, taskVars, worldVars, UserPoint
  <1>6. CASE Trigger(t)
    BY <1>6, CapacityAssumption DEF TypeOK, Trigger, taskVars, worldVars, histVars
  <1>7. CASE Start(t)
    <2>1. pc' \in [Thread -> Point]
      BY <1>7 DEF TypeOK, Start, Point, UserPoint, LoopPoint, Thread
    <2>2. QED
      BY <1>7, <2>1 DEF TypeOK, Start, Point, taskVars, worldVars, histVars
  <1>8. QED
    BY <1>1, <1>2, <1>3, <1>4, <1>5, <1>6, <1>7 DEF UserCall

LEMMA GoTyped ==
    ASSUME TypeOK, NEW t \in Thread, NEW to \in Point, pc' = [pc EXCEPT ![t] = to]
    PROVE  pc' \in [Thread -> Point]
  BY DEF TypeOK, Point

LEMMA TypeLoop ==
    ASSUME TypeOK, LoopStep \/ SelectTimeout
    PROVE  TypeOK'
  <1>0. Loop \in Thread
    BY DEF Thread
  <1>1. pc' \in [Thread -> Point]
    BY <1>0, GoTyped DEF LoopStep, SelectTimeout, Test, Multiplex, SelectEnter, SelectReady,
        PublishTimedOut, TimedOutReturns, RemoveBadf, Demultiplex, SignalEnd, GoLoop,
        Point, LoopPoint
  <1>2. CASE Test
    BY <1>0, <1>1, <1>2 DEF TypeOK, Test, Point, taskVars, worldVars, histVars
  <1>3. CASE Multiplex
    <2>1. fds' \subseteq Handle \union {Self}
      BY <1>3 DEF TypeOK, Multiplex, Interest, Handles, Event
    <2>2. QED
      BY <1>1, <1>3, <2>1 DEF TypeOK, Multiplex, Point, taskVars, worldVars, histVars
  <1>4. CASE SelectEnter \/ PublishTimedOut \/ TimedOutReturns \/ SignalEnd
    BY <1>1, <1>4 DEF TypeOK, SelectEnter, PublishTimedOut, TimedOutReturns, SignalEnd,
        Point, taskVars, worldVars, histVars
  <1>5. CASE SelectReady \/ SelectTimeout
    BY <1>1, <1>5 DEF TypeOK, SelectReady, SelectTimeout, Point, taskVars, worldVars, histVars
  <1>6. CASE RemoveBadf
    <2>1. wanted' \in [Topic -> Event \union {None}]
      BY <1>6 DEF TypeOK, RemoveBadf
    <2>2. QED
      BY <1>1, <1>6, <2>1 DEF TypeOK, RemoveBadf, Point, taskVars, worldVars
  <1>7. CASE Demultiplex
    <2>1. tasks' \in [Event -> Nat]
      BY <1>7 DEF TypeOK, Demultiplex
    <2>2. selfBytes' \in 0 .. PipeCapacity
      BY <1>7, CapacityAssumption DEF TypeOK, Demultiplex, Captured
    <2>3. QED
      BY <1>1, <1>7, <2>1, <2>2 DEF TypeOK, Demultiplex, Point, worldVars, histVars
  <1>8. QED
    BY <1>2, <1>3, <1>4, <1>5, <1>6, <1>7 DEF LoopStep

LEMMA TypeWorker ==
    ASSUME TypeOK, JobsHeld, NEW w \in Worker, WorkerStep(w) \/ HandlerThrows(w)
    PROVE  TypeOK'
  <1>0. w \in Thread
    BY DEF Thread
  <1>1. pc' \in [Thread -> Point]
    BY <1>0, GoTyped DEF WorkerStep, HandlerThrows, Take, Publish, HandlerReturns, Check,
        ReAdd, GoWorker, Point, WorkerPoint
  <1>2. CASE \E e \in Event : Take(w, e)
    <2>1. PICK e \in Event : Take(w, e)
      BY <1>2
    <2>2. tasks' \in [Event -> Nat]
      BY <2>1 DEF TypeOK, Take
    <2>3. QED
      BY <1>1, <2>1, <2>2 DEF TypeOK, Take, Point, worldVars, histVars
  <1>3. CASE Publish(w) \/ HandlerReturns(w)
    BY <1>1, <1>3 DEF TypeOK, Publish, HandlerReturns, Point, taskVars, worldVars, histVars
  <1>4. CASE Check(w) \/ HandlerThrows(w)
    <2>1. job' \in [Worker -> Event \union {None}] /\ wanted' \in [Topic -> Event \union {None}]
      BY <1>4 DEF TypeOK, Check, HandlerThrows, Drop
    <2>2. QED
      BY <1>1, <1>4, <2>1 DEF TypeOK, Check, HandlerThrows, Point, worldVars
  <1>5. CASE ReAdd(w)
    <2>1. job[w] \in Event
      BY <1>5 DEF ReAdd, GoWorker, JobsHeld, Holding
    <2>2. QED
      BY <1>0, <1>1, <1>5, <2>1 DEF TypeOK, ReAdd, Replace, Point, worldVars, histVars
  <1>6. QED
    BY <1>2, <1>3, <1>4, <1>5 DEF WorkerStep

LEMMA TypeStep ==
    ASSUME TypeOK, JobsHeld, [Next]_vars
    PROVE  TypeOK'
  <1>1. CASE \E h \in Handle : Signal(h)
    <2>1. PICK h \in Handle : Signal(h)
      BY <1>1
    <2>2. QED
      BY <2>1 DEF TypeOK, Signal, taskVars, histVars
  <1>2. CASE \E w \in Worker : Consume(w)
    BY <1>2 DEF TypeOK, Consume, taskVars, histVars
  <1>3. CASE \E w \in Worker : WorkerStep(w) \/ HandlerThrows(w)
    BY <1>3, TypeWorker
  <1>4. CASE \E t \in Thread : UserCall(t) \/ Trigger(t)
    BY <1>4, TypeCall
  <1>5. CASE \E t \in User : Start(t)
    BY <1>5, TypeCall DEF Thread
  <1>6. CASE LoopStep \/ SelectTimeout
    BY <1>6, TypeLoop
  <1>7. CASE \E t \in Thread, h \in Handle : Close(t, h)
    BY <1>7, CapacityAssumption DEF TypeOK, Close, MayCall, taskVars
  <1>8. CASE UNCHANGED vars
    BY <1>8 DEF TypeOK, vars
  <1>9. QED
    BY <1>1, <1>2, <1>3, <1>4, <1>5, <1>6, <1>7, <1>8 DEF Next, Basic, Failing

-----------------------------------------------------------------------------
(* The parts of the invariant, step by step *)

LEMMA JobsStep ==
    ASSUME TypeOK, JobsHeld, [Next]_vars
    PROVE  JobsHeld'
  <1>1. CASE \E w \in Worker : WorkerStep(w) \/ HandlerThrows(w)
    <2>1. PICK w \in Worker : WorkerStep(w) \/ HandlerThrows(w)
      BY <1>1
    <2>2. w \in Thread
      BY DEF Thread
    <2>3. CASE \E e \in Event : Take(w, e)
      BY <2>2, <2>3 DEF TypeOK, JobsHeld, Take, GoWorker, Holding
    <2>4. CASE Publish(w) \/ HandlerReturns(w)
      <3>1. pc[w] \in Holding /\ job' = job
        BY <2>4 DEF Publish, HandlerReturns, GoWorker, Holding, taskVars
      <3>2. \A v \in Worker \ {w} : pc'[v] = pc[v]
        <4>1. \E to \in Point : pc' = [pc EXCEPT ![w] = to]
          BY <2>4 DEF Publish, HandlerReturns, GoWorker, Point, WorkerPoint
        <4>2. QED
          BY <2>2, <4>1 DEF TypeOK, Thread
      <3>3. pc'[w] # "idle"
        BY <2>2, <2>4 DEF TypeOK, Publish, HandlerReturns, GoWorker
      <3>4. QED
        BY <3>1, <3>2, <3>3 DEF JobsHeld
    <2>5. CASE Check(w) \/ HandlerThrows(w)
      <3>1. pc[w] \in Holding
        BY <2>5 DEF Check, HandlerThrows, GoWorker, Holding
      <3>2. ASSUME NEW v \in Worker \ {w} PROVE pc'[v] = pc[v] /\ job'[v] = job[v]
        <4>1. v \in Thread
          BY DEF Thread
        <4>2. pc'[v] = pc[v]
          BY <2>2, <2>5, <4>1 DEF TypeOK, Check, HandlerThrows, GoWorker
        <4>3. job'[v] = job[v]
          BY <2>5 DEF TypeOK, Check, HandlerThrows, Drop
        <4>4. QED
          BY <4>2, <4>3
      <3>3. /\ pc'[w] \in Holding => job'[w] = job[w]
            /\ pc'[w] = "idle" => job'[w] = None
        BY <2>2, <2>5 DEF TypeOK, Check, HandlerThrows, Drop, GoWorker, Holding
      <3>4. QED
        BY <3>1, <3>2, <3>3 DEF JobsHeld
    <2>6. CASE ReAdd(w)
      <3>1. \A v \in Worker \ {w} : pc'[v] = pc[v] /\ job'[v] = job[v]
        BY <2>2, <2>6 DEF TypeOK, ReAdd, GoWorker
      <3>2. pc'[w] = "idle" /\ job'[w] = None
        BY <2>2, <2>6 DEF TypeOK, ReAdd, GoWorker
      <3>3. QED
        BY <3>1, <3>2 DEF JobsHeld, Holding
    <2>7. QED
      BY <2>1, <2>3, <2>4, <2>5, <2>6 DEF WorkerStep
  <1>2. CASE LoopStep \/ SelectTimeout
    <2>0. PICK to \in Point : pc' = [pc EXCEPT ![Loop] = to]
      BY <1>2 DEF LoopStep, SelectTimeout, Test, Multiplex, SelectEnter, SelectReady,
          PublishTimedOut, TimedOutReturns, RemoveBadf, Demultiplex, SignalEnd, GoLoop,
          Point, LoopPoint
    <2>1. \A w \in Worker : pc'[w] = pc[w]
      BY <2>0, DistinctAssumption DEF TypeOK
    <2>2. job' = job
      BY <1>2 DEF LoopStep, SelectTimeout, Test, Multiplex, SelectEnter, SelectReady,
          PublishTimedOut, TimedOutReturns, RemoveBadf, Demultiplex, SignalEnd, taskVars
    <2>3. QED
      BY <2>1, <2>2 DEF JobsHeld
  <1>3. CASE \E t \in User : Start(t)
    <2>0. PICK t \in User : Start(t)
      BY <1>3
    <2>1. \A w \in Worker : pc'[w] = pc[w]
      <3>1. \A w \in Worker : w # t /\ w # Loop /\ w \in Thread
        BY DistinctAssumption DEF Thread
      <3>2. QED
        BY <2>0, <3>1 DEF TypeOK, Start
    <2>2. QED
      BY <2>0, <2>1 DEF JobsHeld, Start, taskVars
  <1>4. CASE \E t \in Thread : Initiate(t)
    <2>1. PICK t \in Thread : Initiate(t)
      BY <1>4
    <2>2. \A w \in Worker : pc'[w] \in Holding => pc[w] \in Holding
      BY <2>1 DEF TypeOK, Initiate, Holding, Thread
    <2>3. QED
      BY <2>1, <2>2 DEF JobsHeld, Initiate, taskVars
  <1>5. CASE UNCHANGED <<job, pc>>
    BY <1>5 DEF JobsHeld
  <1>6. QED
    BY <1>1, <1>2, <1>3, <1>4, <1>5 DEF Next, Basic, Failing, Signal, Consume, Close, UserCall,
        Trigger, Add, Remove, Attach, Detach, Terminate, taskVars, vars

LEMMA UniqueStep ==
    ASSUME TypeOK, JobsHeld, Unique, [Next]_vars
    PROVE  Unique'
  <1>1. ASSUME NEW e \in Event, events' = Replace(events, e)
        PROVE  Unique'
    BY <1>1 DEF Unique, Replace
  <1>2. CASE events' \subseteq events
    BY <1>2 DEF Unique
  <1>3. CASE \E t \in Thread, e \in Event : Add(t, e)
    BY <1>1, <1>3 DEF Add
  <1>4. CASE \E w \in Worker : ReAdd(w)
    BY <1>1, <1>4 DEF ReAdd, GoWorker, JobsHeld, Holding
  <1>5. CASE LoopStep \/ SelectTimeout
    BY <1>2, <1>5 DEF LoopStep, SelectTimeout, Test, Multiplex, SelectEnter, SelectReady,
        PublishTimedOut, TimedOutReturns, RemoveBadf, Demultiplex, SignalEnd
  <1>6. CASE \E w \in Worker : WorkerStep(w) \/ HandlerThrows(w)
    BY <1>2, <1>4, <1>6 DEF WorkerStep, HandlerThrows, Take, Publish, HandlerReturns, Check
  <1>7. CASE \E t \in Thread : UserCall(t) \/ Trigger(t)
    BY <1>2, <1>3, <1>7 DEF UserCall, Remove, Attach, Detach, Terminate, Initiate, Trigger
  <1>8. CASE \/ \E h \in Handle : Signal(h)
             \/ \E w \in Worker : Consume(w)
             \/ \E t \in User : Start(t)
             \/ \E t \in Thread, h \in Handle : Close(t, h)
             \/ UNCHANGED vars
    BY <1>2, <1>8 DEF Signal, Consume, Start, Close, vars
  <1>9. QED
    BY <1>5, <1>6, <1>7, <1>8 DEF Next, Basic, Failing

\* What a step that is neither a user's add() nor one of the queue leaves alone.
LEMMA PlacesKept ==
    ASSUME Known, Placed, events' \subseteq events, UNCHANGED tasks, added' = added,
           \A w \in Worker : job'[w] = job[w] \/ job'[w] = None
    PROVE  Known' /\ Placed'
  <1>1. \A p \in Topic : Listed(p)' => Listed(p)
    BY DEF Listed
  <1>2. \A p \in Topic : Queued(p)' = Queued(p)
    BY DEF Queued
  <1>3. \A p \in Topic, w \in Worker : Holds(w, p)' => Holds(w, p)
    BY DEF Holds
  <1>4. \A p \in Topic : Held(p)' => Held(p)
    BY <1>3 DEF Held
  <1>5. Known'
    BY <1>1, <1>2, <1>4 DEF Known, Somewhere
  <1>6. ASSUME NEW p \in Topic, added'[p] <= 1 PROVE AtOnePlace(p)'
    <2>1. AtOnePlace(p)
      BY <1>6 DEF Placed
    <2>2. QED
      BY <1>1, <1>2, <1>3, <1>4, <2>1 DEF AtOnePlace
  <1>7. QED
    BY <1>5, <1>6 DEF Placed

LEMMA AddPlaces ==
    ASSUME TypeOK, Known, Placed, NEW t \in Thread, NEW e \in Event, Add(t, e)
    PROVE  Known' /\ Placed'
  <1>1. e.topic \in Topic
    BY DEF Event
  <1>2. added'[e.topic] # 0 /\ (added'[e.topic] <= 1 => added[e.topic] = 0)
    BY <1>1 DEF TypeOK, Add
  <1>3. \A p \in Topic : p # e.topic => added'[p] = added[p]
    BY DEF TypeOK, Add
  <1>4. UNCHANGED <<tasks, job>>
    BY DEF Add, taskVars
  <1>5. \A p \in Topic : p # e.topic => Listed(p)' = Listed(p)
    BY DEF Add, Replace, Listed
  <1>6. \A p \in Topic : Queued(p)' = Queued(p) /\ Held(p)' = Held(p)
    BY <1>4 DEF Queued, Held, Holds
  <1>7. Known'
    BY <1>2, <1>3, <1>5, <1>6 DEF Known, Somewhere
  <1>8. ASSUME NEW p \in Topic, added'[p] <= 1 PROVE AtOnePlace(p)'
    <2>1. CASE p = e.topic
      <3>1. ~ Queued(p)' /\ ~ Held(p)'
        BY <1>2, <1>6, <1>8, <2>1 DEF Known, Somewhere
      <3>2. \A f \in Event : f.topic = p => ~ tasks'[f] > 0
        BY <3>1 DEF Queued
      <3>3. \A w \in Worker : ~ Holds(w, p)'
        BY <3>1 DEF Held
      <3>4. QED
        BY <3>1, <3>2, <3>3 DEF AtOnePlace
    <2>2. CASE p # e.topic
      <3>1. AtOnePlace(p)
        BY <1>3, <1>8, <2>2 DEF Placed
      <3>2. QED
        BY <1>4, <1>5, <1>6, <2>2, <3>1 DEF AtOnePlace, Holds
    <2>3. QED
      BY <2>1, <2>2
  <1>9. QED
    BY <1>7, <1>8 DEF Placed

LEMMA DemultiplexPlaces ==
    ASSUME TypeOK, Known, Unique, Placed, Demultiplex
    PROVE  Known' /\ Placed'
  <1> DEFINE hit == {e \in events : e.handle \in fds}
  <1>1. events' = events \ hit /\ events \subseteq Event
    BY DEF Demultiplex, TypeOK
  <1>2. \A e \in Event : tasks[e] \in Nat /\ tasks'[e] = tasks[e] + (IF e \in hit THEN 1 ELSE 0)
    BY DEF Demultiplex, TypeOK
  <1>3. UNCHANGED <<job, added>>
    BY DEF Demultiplex, histVars
  <1> HIDE DEF hit
  <1>4. hit \subseteq events
    BY DEF hit
  <1>5. \A p \in Topic : Held(p)' = Held(p)
    BY <1>3 DEF Held, Holds
  <1>6. \A p \in Topic : Listed(p)' => Listed(p)
    BY <1>1 DEF Listed
  <1>7. \A p \in Topic : Queued(p)' => Queued(p) \/ Listed(p)
    BY <1>1, <1>2, <1>4 DEF Queued, Listed
  <1>8. Known'
    BY <1>3, <1>5, <1>6, <1>7 DEF Known, Somewhere
  <1>9. ASSUME NEW p \in Topic, added'[p] <= 1 PROVE AtOnePlace(p)'
    <2>1. AtOnePlace(p)
      BY <1>3, <1>9 DEF Placed
    <2>2. CASE Listed(p)
      <3>1. PICK e \in events : e.topic = p
        BY <2>2 DEF Listed
      <3>2. ~ Queued(p) /\ ~ Held(p)
        BY <2>1, <2>2 DEF AtOnePlace
      <3>3. \A f \in Event : f.topic = p => tasks[f] = 0
        BY <1>2, <3>2 DEF Queued
      <3>4. \A f \in events : f.topic = p => f = e
        BY <3>1 DEF Unique
      <3>5. \A f \in Event : f.topic = p /\ tasks'[f] > 0 => f = e /\ f \in hit /\ tasks'[f] = 1
        BY <1>2, <1>4, <3>3, <3>4
      <3>6. Listed(p)' => ~ Queued(p)'
        BY <1>1, <3>4, <3>5 DEF Listed, Queued
      <3>7. ~ Held(p)'
        BY <1>5, <3>2
      <3>8. \A w \in Worker : ~ Holds(w, p)'
        BY <3>7 DEF Held
      <3>9. QED
        BY <3>5, <3>6, <3>7, <3>8 DEF AtOnePlace
    <2>3. CASE ~ Listed(p)
      <3>1. \A f \in Event : f.topic = p => tasks'[f] = tasks[f]
        BY <1>2, <1>4, <2>3 DEF Listed
      <3>2. Queued(p)' = Queued(p) /\ ~ Listed(p)'
        BY <1>6, <2>3, <3>1 DEF Queued
      <3>3. \A w \in Worker : Holds(w, p)' = Holds(w, p)
        BY <1>3 DEF Holds
      <3>4. QED
        BY <1>5, <2>1, <3>1, <3>2, <3>3 DEF AtOnePlace
    <2>4. QED
      BY <2>2, <2>3
  <1>10. QED
    BY <1>8, <1>9 DEF Placed

LEMMA TakePlaces ==
    ASSUME TypeOK, JobsHeld, Known, Placed, NEW w \in Worker, NEW e \in Event, Take(w, e)
    PROVE  Known' /\ Placed'
  <1>1. /\ job[w] = None /\ job'[w] = e
        /\ \A v \in Worker \ {w} : job'[v] = job[v]
    BY DEF Take, GoWorker, JobsHeld, TypeOK
  <1>2. /\ tasks[e] \in Nat /\ tasks[e] > 0 /\ tasks'[e] = tasks[e] - 1
        /\ \A f \in Event : f # e => tasks'[f] = tasks[f]
    BY DEF Take, TypeOK
  <1>3. UNCHANGED <<events, added>> /\ e # None
    BY NoneAssumption DEF Take, histVars
  <1>4. \A p \in Topic : Listed(p)' = Listed(p)
    BY <1>3 DEF Listed
  <1>5. \A p \in Topic, v \in Worker : v # w => Holds(v, p)' = Holds(v, p)
    BY <1>1 DEF Holds
  <1>6. \A p \in Topic : Holds(w, p)' <=> e.topic = p
    BY <1>1, <1>3 DEF Holds
  <1>7. \A p \in Topic : Queued(p)' => Queued(p)
    BY <1>2 DEF Queued
  <1>8. \A p \in Topic : Held(p)' => Held(p) \/ Queued(p)
    BY <1>2, <1>5, <1>6 DEF Held, Queued
  <1>9. Known'
    BY <1>3, <1>4, <1>7, <1>8 DEF Known, Somewhere
  <1>10. ASSUME NEW p \in Topic, added'[p] <= 1 PROVE AtOnePlace(p)'
    <2>1. AtOnePlace(p)
      BY <1>3, <1>10 DEF Placed
    <2>2. CASE p = e.topic
      <3>1. Queued(p)
        BY <1>2, <2>2 DEF Queued
      <3>2. ~ Listed(p)' /\ ~ Held(p)
        BY <1>4, <2>1, <3>1 DEF AtOnePlace
      <3>3. \A f \in Event : f.topic = p /\ tasks[f] > 0 => f = e /\ tasks[e] = 1
        BY <1>2, <2>1, <2>2 DEF AtOnePlace
      <3>4. \A f \in Event : f.topic = p => ~ tasks'[f] > 0
        BY <1>2, <3>3
      <3>5. ~ Queued(p)'
        BY <3>4 DEF Queued
      <3>6. \A v \in Worker : Holds(v, p)' => v = w
        BY <1>5, <3>2 DEF Held
      <3>7. QED
        BY <3>2, <3>4, <3>5, <3>6 DEF AtOnePlace
    <2>3. CASE p # e.topic
      <3>1. \A f \in Event : f.topic = p => tasks'[f] = tasks[f]
        BY <1>2, <2>3
      <3>2. \A v \in Worker : Holds(v, p)' = Holds(v, p)
        <4>1. ~ Holds(w, p)' /\ ~ Holds(w, p)
          BY <1>1, <1>6, <2>3 DEF Holds
        <4>2. QED
          BY <1>5, <4>1 DEF Holds
      <3>3. Queued(p)' = Queued(p) /\ Held(p)' = Held(p)
        BY <3>1, <3>2 DEF Queued, Held
      <3>4. QED
        BY <1>4, <2>1, <3>1, <3>2, <3>3 DEF AtOnePlace
    <2>4. QED
      BY <2>2, <2>3
  <1>11. QED
    BY <1>9, <1>10 DEF Placed

LEMMA ReAddPlaces ==
    ASSUME TypeOK, JobsHeld, Known, Placed, NEW w \in Worker, ReAdd(w)
    PROVE  Known' /\ Placed'
  <1> DEFINE e == job[w]
  <1>1. e \in Event /\ e # None
    BY NoneAssumption DEF ReAdd, GoWorker, JobsHeld, Holding
  <1>2. job'[w] = None /\ \A v \in Worker \ {w} : job'[v] = job[v]
    BY DEF ReAdd, TypeOK
  <1>3. UNCHANGED <<tasks, added>> /\ events' = Replace(events, e)
    BY DEF ReAdd, histVars
  <1> HIDE DEF e
  <1>4. e.topic \in Topic
    BY <1>1 DEF Event
  <1>5. \A p \in Topic : p # e.topic => Listed(p)' = Listed(p)
    BY <1>3 DEF Listed, Replace
  <1>6. \A p \in Topic : Queued(p)' = Queued(p)
    BY <1>3 DEF Queued
  <1>7. \A p \in Topic, v \in Worker : Holds(v, p)' => Holds(v, p) /\ v # w
    BY <1>2 DEF Holds
  <1>8. \A p \in Topic : Held(p)' => Held(p)
    BY <1>7 DEF Held
  <1>9. Holds(w, e.topic) /\ Held(e.topic)
    BY <1>1 DEF Holds, Held, e
  <1>10. Known'
    BY <1>3, <1>5, <1>6, <1>8, <1>9 DEF Known, Somewhere
  <1>11. ASSUME NEW p \in Topic, added'[p] <= 1 PROVE AtOnePlace(p)'
    <2>1. AtOnePlace(p)
      BY <1>3, <1>11 DEF Placed
    <2>2. CASE p = e.topic
      <3>1. ~ Queued(p)'
        BY <1>6, <1>9, <2>1, <2>2 DEF AtOnePlace
      <3>2. \A v \in Worker : Holds(v, p) => v = w
        BY <1>9, <2>1, <2>2 DEF AtOnePlace
      <3>3. ~ Held(p)'
        BY <1>7, <3>2 DEF Held
      <3>4. QED
        BY <1>3, <1>7, <2>1, <3>1, <3>2, <3>3 DEF AtOnePlace
    <2>3. CASE p # e.topic
      BY <1>3, <1>5, <1>6, <1>7, <1>8, <2>1, <2>3 DEF AtOnePlace
    <2>4. QED
      BY <2>2, <2>3
  <1>12. QED
    BY <1>10, <1>11 DEF Placed

LEMMA PlaceStep ==
    ASSUME IInv, [Next]_vars
    PROVE  Known' /\ Placed'
  <1>0. TypeOK /\ JobsHeld /\ Known /\ Unique /\ Placed
    BY DEF IInv, OnePerTopic, Unique, Placed
  <1>1. ASSUME events' \subseteq events, UNCHANGED <<tasks, job, added>>
        PROVE  Known' /\ Placed'
    BY <1>0, <1>1, PlacesKept
  <1>2. CASE \E t \in Thread : UserCall(t) \/ Trigger(t)
    <2>1. PICK t \in Thread : UserCall(t) \/ Trigger(t)
      BY <1>2
    <2>2. CASE \E e \in Event : Add(t, e)
      BY <1>0, <2>2, AddPlaces
    <2>3. CASE \E p \in Topic : Remove(t, p)
      BY <1>1, <2>3 DEF Remove, taskVars
    <2>4. CASE \/ Terminate(t) \/ Initiate(t) \/ Trigger(t)
               \/ \E p \in Topic : Attach(t, p) \/ Detach(t, p)
      BY <1>1, <2>4 DEF Terminate, Initiate, Trigger, Attach, Detach, taskVars, histVars
    <2>5. QED
      BY <2>1, <2>2, <2>3, <2>4 DEF UserCall
  <1>3. CASE Demultiplex
    BY <1>0, <1>3, DemultiplexPlaces
  <1>4. CASE \/ Test \/ Multiplex \/ SelectEnter \/ SelectReady \/ SelectTimeout
             \/ PublishTimedOut \/ TimedOutReturns \/ RemoveBadf \/ SignalEnd
    BY <1>1, <1>4 DEF Test, Multiplex, SelectEnter, SelectReady, SelectTimeout,
        PublishTimedOut, TimedOutReturns, RemoveBadf, SignalEnd, taskVars, histVars
  <1>5. ASSUME NEW w \in Worker, WorkerStep(w) \/ HandlerThrows(w)
        PROVE  Known' /\ Placed'
    <2>1. CASE \E e \in Event : Take(w, e)
      BY <1>0, <2>1, TakePlaces
    <2>2. CASE ReAdd(w)
      BY <1>0, <2>2, ReAddPlaces
    <2>3. CASE Publish(w) \/ HandlerReturns(w)
      BY <1>1, <2>3 DEF Publish, HandlerReturns, taskVars, histVars
    <2>4. CASE Check(w) \/ HandlerThrows(w)
      <3>1. UNCHANGED <<events, tasks, added>>
        BY <2>4 DEF Check, HandlerThrows
      <3>2. \A v \in Worker : job'[v] = job[v] \/ job'[v] = None
        BY <1>0, <2>4 DEF Check, HandlerThrows, Drop, TypeOK
      <3>3. QED
        BY <1>0, <3>1, <3>2, PlacesKept
    <2>5. QED
      BY <1>5, <2>1, <2>2, <2>3, <2>4 DEF WorkerStep
  <1>6. CASE \/ \E h \in Handle : Signal(h)
             \/ \E w \in Worker : Consume(w)
             \/ \E t \in User : Start(t)
             \/ \E t \in Thread, h \in Handle : Close(t, h)
             \/ UNCHANGED vars
    BY <1>1, <1>6 DEF Signal, Consume, Start, Close, vars, taskVars, histVars
  <1>7. QED
    BY <1>2, <1>3, <1>4, <1>5, <1>6 DEF Next, Basic, Failing, LoopStep

LEMMA OneStep ==
    ASSUME IInv, [Next]_vars
    PROVE  OnePerTopic'
  <1>1. Unique'
    BY UniqueStep DEF IInv, OnePerTopic, Unique
  <1>2. Placed'
    BY PlaceStep
  <1>3. QED
    BY <1>1, <1>2 DEF OnePerTopic, Unique, Placed

\* Nothing puts the loop to sleep on a stale set but a change of the list or of
\* _running, and each of those leaves a thread in nop().
LEMMA SleepStep ==
    ASSUME TypeOK, NeverSleepsOnChange, [Next]_vars
    PROVE  NeverSleepsOnChange'
  <1>0. Loop \in Thread
    BY DEF Thread
  <1>1. ASSUME NEW t \in Thread, nop'[t] # "no" PROVE NeverSleepsOnChange'
    BY <1>1 DEF NeverSleepsOnChange, WakeUpPending
  <1>2. ASSUME UNCHANGED <<events, running, fds, selfBytes, nop>>,
               pc'[Loop] = pc[Loop] \/ pc'[Loop] \notin {"multiplex", "enter", "select"}
        PROVE  NeverSleepsOnChange'
    BY <1>2 DEF NeverSleepsOnChange, WakeUpPending, Interest, Handles
  <1>3. ASSUME NEW t \in Thread, UserCall(t) PROVE NeverSleepsOnChange'
    <2>1. CASE \E e \in Event : Add(t, e)
      BY <1>1, <2>1 DEF TypeOK, Add
    <2>2. CASE \E p \in Topic : Remove(t, p)
      <3>1. PICK p \in Topic : Remove(t, p)
        BY <2>2
      <3>2. CASE events' = events
        <4>1. nop' = nop
          BY <3>1, <3>2 DEF TypeOK, Remove, MayCall, Moves
        <4>2. QED
          BY <1>2, <3>1, <3>2, <4>1 DEF Remove
      <3>3. CASE events' # events
        BY <1>1, <3>1, <3>3 DEF TypeOK, Remove
      <3>4. QED
        BY <3>2, <3>3
    <2>3. CASE \E p \in Topic : Attach(t, p) \/ Detach(t, p)
      BY <1>2, <2>3 DEF Attach, Detach
    <2>4. CASE Terminate(t)
      BY <1>1, <2>4 DEF TypeOK, Terminate
    <2>5. CASE Initiate(t)
      <3>1. pc'[Loop] = pc[Loop] \/ pc'[Loop] = "joining"
        BY <1>0, <2>5 DEF TypeOK, Initiate
      <3>2. running' /\ UNCHANGED <<events, fds, selfBytes, nop>>
        BY <2>5 DEF Initiate
      <3>3. QED
        BY <3>1, <3>2 DEF NeverSleepsOnChange, WakeUpPending, Interest, Handles
    <2>6. QED
      BY <1>3, <2>1, <2>2, <2>3, <2>4, <2>5 DEF UserCall
  <1>4. ASSUME NEW t \in Thread, Trigger(t) PROVE NeverSleepsOnChange'
    <2>1. selfBytes' > 0
      BY <1>4, CapacityAssumption DEF TypeOK, Trigger
    <2>2. QED
      BY <2>1 DEF NeverSleepsOnChange, WakeUpPending
  <1>5. CASE Test
    <2>1. CASE running
      <3>1. UNCHANGED <<running, selfBytes, nop, fds, events>> /\ pc'[Loop] = "multiplex"
        BY <1>0, <1>5, <2>1 DEF TypeOK, Test, GoLoop, Moves
      <3>2. QED
        BY <2>1, <3>1 DEF NeverSleepsOnChange
    <2>2. CASE ~ running
      BY <1>0, <1>1, <1>5, <2>2 DEF TypeOK, Test
    <2>3. QED
      BY <2>1, <2>2
  <1>6. CASE Multiplex
    <2>1. fds' = Interest /\ Interest' = Interest
      BY <1>6 DEF Multiplex, Interest, Handles
    <2>2. QED
      BY <1>0, <1>6, <2>1 DEF TypeOK, Multiplex, GoLoop, NeverSleepsOnChange, WakeUpPending
  <1>7. CASE SelectEnter
    BY <1>0, <1>7 DEF TypeOK, SelectEnter, GoLoop, NeverSleepsOnChange, WakeUpPending,
        Interest, Handles
  <1>8. CASE \/ SelectReady \/ SelectTimeout \/ PublishTimedOut \/ TimedOutReturns
             \/ RemoveBadf \/ Demultiplex \/ SignalEnd
    <2>1. pc'[Loop] \notin {"multiplex", "enter", "select"}
      BY <1>0, <1>8 DEF TypeOK, SelectReady, SelectTimeout, PublishTimedOut, TimedOutReturns,
          RemoveBadf, Demultiplex, SignalEnd, GoLoop
    <2>2. QED
      BY <2>1 DEF NeverSleepsOnChange
  <1>9. ASSUME NEW w \in Worker, WorkerStep(w) \/ HandlerThrows(w) PROVE NeverSleepsOnChange'
    <2>1. w \in Thread /\ w # Loop
      BY DistinctAssumption DEF Thread
    <2>2. CASE ReAdd(w)
      BY <1>1, <2>1, <2>2 DEF TypeOK, ReAdd
    <2>3. CASE ~ ReAdd(w)
      <3>1. UNCHANGED <<events, running, fds, selfBytes, nop>>
        BY <1>9, <2>3 DEF WorkerStep, HandlerThrows, Take, Publish, HandlerReturns, Check
      <3>2. pc'[Loop] = pc[Loop]
        BY <1>0, <1>9, <2>1 DEF TypeOK, WorkerStep, HandlerThrows, Take, Publish,
            HandlerReturns, Check, ReAdd, GoWorker
      <3>3. QED
        BY <1>2, <3>1, <3>2
    <2>4. QED
      BY <2>2, <2>3
  <1>10. CASE \E t \in User : Start(t)
    <2>1. pc'[Loop] = "test"
      BY <1>0, <1>10, DistinctAssumption DEF TypeOK, Start
    <2>2. QED
      BY <2>1 DEF NeverSleepsOnChange
  <1>11. CASE \/ \E h \in Handle : Signal(h)
              \/ \E w \in Worker : Consume(w)
              \/ \E t \in Thread, h \in Handle : Close(t, h)
              \/ UNCHANGED vars
    BY <1>2, <1>11 DEF Signal, Consume, Close, vars
  <1>12. QED
    BY <1>3, <1>4, <1>5, <1>6, <1>7, <1>8, <1>9, <1>10, <1>11 DEF Next, Basic, Failing, LoopStep

\* A step that moves the events of no topic out of all three places.
LEMMA Kept ==
    ASSUME Accounted,
           \A p \in Topic : wanted'[p] # None => wanted[p] # None /\ (Somewhere(p) => Somewhere(p)')
    PROVE  Accounted'
  BY DEF Accounted

LEMMA AccountedStep ==
    ASSUME IInv, [Next]_vars
    PROVE  Accounted'
  <1>0. TypeOK /\ JobsHeld /\ Accounted
    BY DEF IInv
  <1>1. ASSUME UNCHANGED <<events, tasks, job, wanted>> PROVE Accounted'
    BY <1>0, <1>1 DEF Accounted, Somewhere, Listed, Queued, Held, Holds
  <1>2. ASSUME NEW t \in Thread, UserCall(t) PROVE Accounted'
    <2>1. ASSUME NEW e \in Event, Add(t, e) PROVE Accounted'
      <3>1. e.topic \in Topic /\ e \in events'
        BY <2>1 DEF Event, Add, Replace
      <3>2. \A p \in Topic : p # e.topic => wanted'[p] = wanted[p]
        BY <1>0, <2>1 DEF TypeOK, Add
      <3>3. \A f \in events : f.topic # e.topic => f \in events'
        BY <2>1 DEF Add, Replace
      <3>4. UNCHANGED <<tasks, job>>
        BY <2>1 DEF Add, taskVars, worldVars
      <3>5. QED
        BY <1>0, <3>1, <3>2, <3>3, <3>4 DEF Accounted, Somewhere, Listed, Queued, Held, Holds
    <2>2. ASSUME NEW q \in Topic, Remove(t, q) PROVE Accounted'
      <3>1. wanted'[q] = None /\ \A p \in Topic \ {q} : wanted'[p] = wanted[p]
        BY <1>0, <2>2 DEF TypeOK, Remove
      <3>2. \A f \in events : f.topic # q => f \in events'
        BY <2>2 DEF Remove
      <3>3. UNCHANGED <<tasks, job>>
        BY <2>2 DEF Remove, taskVars, worldVars
      <3>4. QED
        BY <1>0, <3>1, <3>2, <3>3 DEF Accounted, Somewhere, Listed, Queued, Held, Holds
    <2>3. CASE Terminate(t) \/ Initiate(t) \/ \E p \in Topic : Attach(t, p) \/ Detach(t, p)
      BY <1>0, <1>1, <2>3 DEF Terminate, Initiate, Attach, Detach, taskVars, worldVars
    <2>4. QED
      BY <1>2, <2>1, <2>2, <2>3 DEF UserCall
  <1>3. CASE RemoveBadf
    <2>1. \A p \in Topic : wanted'[p] =
              IF \E e \in events \ events' : e.topic = p THEN None ELSE wanted[p]
      BY <1>3 DEF RemoveBadf
    <2>2. UNCHANGED <<tasks, job>>
      BY <1>3 DEF RemoveBadf, taskVars
    <2>3. ASSUME NEW p \in Topic, wanted'[p] # None
          PROVE  wanted[p] # None /\ (Somewhere(p) => Somewhere(p)')
      <3>1. wanted'[p] = wanted[p] /\ \A e \in events : e.topic = p => e \in events'
        BY <2>1, <2>3
      <3>2. QED
        BY <2>2, <2>3, <3>1 DEF Somewhere, Listed, Queued, Held, Holds
    <2>4. QED
      BY <1>0, <2>3, Kept
  <1>4. CASE Demultiplex
    <2>1. tasks' = [e \in Event |-> tasks[e] + (IF e \in {f \in events : f.handle \in fds} THEN 1 ELSE 0)]
      BY <1>4 DEF Demultiplex
    <2>2. \A e \in Event : tasks[e] \in Nat
      BY <1>0 DEF TypeOK
    <2>3. \A e \in Event : tasks[e] > 0 => tasks'[e] > 0
      BY <2>1, <2>2
    <2>4. \A e \in events : e \in events' \/ tasks'[e] > 0
      BY <1>0, <1>4, <2>1, <2>2 DEF Demultiplex, TypeOK
    <2>5. UNCHANGED <<job, wanted>>
      BY <1>4 DEF Demultiplex, worldVars, histVars
    <2>6. events \subseteq Event
      BY <1>0 DEF TypeOK
    <2>7. \A p \in Topic : Somewhere(p) => Somewhere(p)'
      BY <2>3, <2>4, <2>5, <2>6 DEF Somewhere, Listed, Queued, Held, Holds
    <2>8. QED
      BY <1>0, <2>5, <2>7, Kept
  <1>5. CASE \/ Test \/ Multiplex \/ SelectEnter \/ SelectReady \/ SelectTimeout
             \/ PublishTimedOut \/ TimedOutReturns \/ SignalEnd
    BY <1>0, <1>1, <1>5 DEF Test, Multiplex, SelectEnter, SelectReady, SelectTimeout,
        PublishTimedOut, TimedOutReturns, SignalEnd, taskVars, worldVars, histVars
  <1>6. ASSUME NEW w \in Worker, NEW e \in Event, Take(w, e)
        PROVE  Accounted'
    <2>1. pc[w] = "idle" /\ job'[w] = e /\ \A v \in Worker \ {w} : job'[v] = job[v]
      BY <1>0, <1>6 DEF TypeOK, Take, GoWorker
    <2>2. \A f \in Event : f # e => tasks'[f] = tasks[f]
      BY <1>0, <1>6 DEF TypeOK, Take
    <2>3. UNCHANGED <<events, wanted>>
      BY <1>6 DEF Take, worldVars, histVars
    <2>4. job[w] = None
      BY <1>0, <2>1 DEF JobsHeld
    <2>5. e # None
      BY NoneAssumption
    <2>6. \A p \in Topic : Somewhere(p) => Somewhere(p)'
      BY <2>1, <2>2, <2>3, <2>4, <2>5 DEF Somewhere, Listed, Queued, Held, Holds
    <2>7. QED
      BY <1>0, <2>3, <2>6, Kept
  <1>7. ASSUME NEW w \in Worker, Check(w) \/ HandlerThrows(w) PROVE Accounted'
    <2>1. UNCHANGED <<events, tasks>>
      BY <1>7 DEF Check, HandlerThrows
    <2>2. CASE UNCHANGED <<job, wanted>>
      BY <1>0, <1>1, <2>1, <2>2
    <2>3. CASE Drop(w)
      <3>1. job' = [job EXCEPT ![w] = None]
        BY <2>3 DEF Drop
      <3>2. job[w] \in Event /\ job[w].topic \in Topic
        BY <1>0, <1>7 DEF Check, HandlerThrows, GoWorker, JobsHeld, Holding, Event
      <3>3. wanted' = [wanted EXCEPT ![job[w].topic] =
                          IF \E e \in events : e.topic = job[w].topic THEN @ ELSE None]
        BY <2>3 DEF Drop
      <3>4. \A v \in Worker \ {w} : job'[v] = job[v]
        BY <1>0, <3>1 DEF TypeOK
      <3>5. ASSUME NEW p \in Topic, wanted'[p] # None
            PROVE  wanted[p] # None /\ (Somewhere(p) => Somewhere(p)')
        <4>1. CASE p = job[w].topic
          <5>1. wanted'[p] = IF \E e \in events : e.topic = p THEN wanted[p] ELSE None
            BY <1>0, <3>3, <4>1 DEF TypeOK
          <5>2. \E e \in events' : e.topic = p
            BY <2>1, <3>5, <5>1
          <5>3. QED
            BY <3>5, <5>1, <5>2 DEF Somewhere, Listed, Queued, Held, Holds
        <4>2. CASE p # job[w].topic
          <5>1. wanted'[p] = wanted[p]
            BY <1>0, <3>2, <3>3, <4>2 DEF TypeOK
          <5>2. QED
            BY <2>1, <3>4, <3>5, <4>2, <5>1 DEF Somewhere, Listed, Queued, Held, Holds
        <4>3. QED
          BY <4>1, <4>2
      <3>6. QED
        BY <1>0, <2>1, <3>5, Kept
    <2>4. QED
      BY <1>7, <2>2, <2>3 DEF Check, HandlerThrows
  <1>8. ASSUME NEW w \in Worker, ReAdd(w) PROVE Accounted'
    <2>1. job[w] \in Event
      BY <1>0, <1>8 DEF ReAdd, GoWorker, JobsHeld, Holding
    <2>2. job[w] \in events' /\ \A e \in events : e.topic # job[w].topic => e \in events'
      BY <1>8 DEF ReAdd, Replace
    <2>3. \A v \in Worker \ {w} : job'[v] = job[v]
      BY <1>0, <1>8 DEF TypeOK, ReAdd
    <2>4. UNCHANGED <<tasks, wanted>>
      BY <1>8 DEF ReAdd, worldVars, histVars
    <2>5. \A p \in Topic : Somewhere(p) => Somewhere(p)'
      BY <2>1, <2>2, <2>3, <2>4 DEF Somewhere, Listed, Queued, Held, Holds
    <2>6. QED
      BY <1>0, <2>4, <2>5, Kept
  <1>9. ASSUME NEW w \in Worker, Publish(w) \/ HandlerReturns(w) \/ Consume(w)
        PROVE  Accounted'
    BY <1>0, <1>1, <1>9 DEF Publish, HandlerReturns, Consume, taskVars, worldVars, histVars
  <1>10. CASE \/ \E h \in Handle : Signal(h)
              \/ \E t \in Thread : Trigger(t)
              \/ \E t \in User : Start(t)
              \/ \E t \in Thread, h \in Handle : Close(t, h)
              \/ UNCHANGED vars
    BY <1>0, <1>1, <1>10 DEF Signal, Trigger, Start, Close, vars, taskVars, worldVars, histVars
  <1>11. QED
    BY <1>2, <1>3, <1>4, <1>5, <1>6, <1>7, <1>8, <1>9, <1>10
    DEF Next, Basic, Failing, LoopStep, WorkerStep

LEMMA StepInv == IInv /\ [Next]_vars => IInv'
  BY TypeStep, JobsStep, PlaceStep, OneStep, SleepStep, AccountedStep DEF IInv

THEOREM InvHolds == Spec => []IInv
  BY InitInv, StepInv, PTL DEF Spec

\* Every variable keeps its type.
THEOREM TypeCorrect == Spec => []TypeOK
  <1>1. IInv => TypeOK
    BY DEF IInv
  <1>2. QED
    BY <1>1, InvHolds, PTL

\* However users, handlers and event tasks add and remove, _events never holds
\* two events of a topic (select_mechanism::add), and the event of a topic that
\* was added once is on the list, in one task or with one worker.
THEOREM TopicsUnique == Spec => []OnePerTopic
  <1>1. IInv => OnePerTopic
    BY DEF IInv
  <1>2. QED
    BY <1>1, InvHolds, PTL

\* The byte in the pipe is never missing when the loop would otherwise sleep on
\* descriptor sets, or on a run, that are no longer those asked for.
THEOREM NoLostWakeUp == Spec => []NeverSleepsOnChange
  <1>1. IInv => NeverSleepsOnChange
    BY DEF IInv
  <1>2. QED
    BY <1>1, InvHolds, PTL

\* event.h:59: an added event is never lost between the list, the queue and the
\* workers, until it is removed, unsubscribed, closed or its handler throws.
THEOREM NoEventLost == Spec => []Accounted
  <1>1. IInv => Accounted
    BY DEF IInv
  <1>2. QED
    BY <1>1, InvHolds, PTL
=============================================================================
