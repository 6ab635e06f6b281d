-------------------------- MODULE EventLoopProofs --------------------------
(***************************************************************************)
(* Theorems about EventLoop for every set of threads and any number of     *)
(* calls: its type invariant, what ready() and the future of terminate()   *)
(* promise in regular histories, and that nobody is stuck there.           *)
(***************************************************************************)
EXTENDS EventLoop, FiniteSetTheorems, TLAPS

-----------------------------------------------------------------------------
(* The invariant *)

\* Threads that loop() and threads that terminate() are at points of their own.
PointsAgree ==
    /\ \A l \in Looper : pc[l] \in LooperPoint
    /\ \A s \in Stopper : pc[s] \in StopperPoint

\* The calls of loop() that have not made their promise yet.
Coming == {l \in Looper : pc[l] \in {"assert", "promise"}}

Before == {"idle", "assert", "promise", "thrown"}

\* Each call makes one promise, and sets the value of a promise that was made.
PromisesCounted ==
    /\ IsFiniteSet(Coming)
    /\ promise + Cardinality(Coming) <= loops
    /\ done \subseteq 1 .. promise
    /\ \A l \in Looper : pc[l] \notin Before => promise >= 1

Locked == {"mechanisms", "running", "renew"}

\* _lock is held by initiate() of the mechanism and by terminate().
LockAgrees ==
    /\ \A s \in Stopper : pc[s] \in Locked <=> lock = s
    /\ \A l \in Looper : pc[l] = "start" <=> lock = l

\* No other call of loop(), and none that is starting meets a terminate().
OneAtATime ==
    /\ \A l \in Looper : pc[l] \notin {"assert", "thrown"}
    /\ \A l, k \in Looper : Looping(l) /\ Looping(k) => l = k
    /\ \A l \in Looper, s \in Stopper : pc[l] \in Starting => ~ Stopping(s)

\* A terminate() has done what lies behind it.
StopperAgrees(s) ==
    /\ pc[s] \in Locked => terminated
    /\ pc[s] \in {"running", "renew"} => ~ mechRunning
    /\ pc[s] = "renew" => ~ running

\* A terminate() that has told the mechanism will clear the rest.
Told ==
    /\ running => \E s \in Stopper : pc[s] = "running"
    /\ ready => \E s \in Stopper : pc[s] \in {"running", "renew"}

StartAgrees(l) ==
    /\ pc[l] \in Starting => running /\ ~ ready
    /\ pc[l] \in {"promise", "pool", "create"} => pool = "none"
    /\ pc[l] \in {"promise", "pool", "create", "initiate"} => ~ mechRunning
    /\ pc[l] \in {"promise", "pool", "create", "initiate", "start"} => mech # "looping"
    /\ pc[l] \in {"create", "initiate", "start", "ready"} => ~ terminated
    /\ pc[l] \in {"initiate", "start", "ready"} => pool = "running"
    /\ pc[l] \in {"start", "ready"} => mechRunning
    /\ pc[l] = "ready" => mech = "looping"

RunAgrees(l) ==
    /\ pc[l] = "futures" =>
          /\ pool # "none"
          /\ terminated \/ pool = "running"
          /\ mechRunning => /\ running /\ ready /\ mech = "looping"
                            /\ terminated => \E s \in Stopper : pc[s] = "mechanisms"
    /\ pc[l] \in {"join", "finish"} => mech = "ended" /\ ~ mechRunning
    /\ pc[l] \in {"futures", "join", "finish"} => mechRunning \/ (terminated /\ Told)
    /\ pc[l] = "finish" => pool = "none"
    /\ pc[l] \notin Before => promise \notin done

\* Nothing of the last run is left, unless a terminate() is just clearing it.
Quiet == pool = "none" /\ mech # "looping" /\ ~ mechRunning /\ Told

RegularRun ==
    /\ OneAtATime
    /\ \A s \in Stopper : StopperAgrees(s)
    /\ \A l \in Looper : StartAgrees(l) /\ RunAgrees(l)
    /\ (\A l \in Looper : ~ Looping(l)) => Quiet

IInv ==
    /\ TypeOK
    /\ PointsAgree
    /\ PromisesCounted
    /\ LockAgrees
    /\ regular => RegularRun

-----------------------------------------------------------------------------
(* Steps in general *)

\* A step of one thread moves that thread alone.
LEMMA GoFacts ==
    ASSUME TypeOK, NEW t \in Thread, NEW a, NEW b, Go(t, a, b)
    PROVE  /\ pc[t] = a /\ pc'[t] = b
           /\ \A u \in Thread : u # t => pc'[u] = pc[u]
           /\ DOMAIN pc' = Thread
  BY DEF TypeOK, Go

\* Loopers and stoppers are different threads, and None is no thread.
LEMMA ThreadFacts ==
    /\ Looper \subseteq Thread /\ Stopper \subseteq Thread
    /\ Looper \intersect Stopper = {}
    /\ None \notin Thread
  BY ThreadAssumption DEF Thread, Stopper

\* A step that leaves the promises alone keeps the count when it moves a looper, if
\* any, that has made its promise.
LEMMA PromisesUnmoved ==
    ASSUME PromisesCounted, promise' = promise, done' = done, loops' = loops,
           \A l \in Looper :
               pc'[l] = pc[l] \/ (pc[l] \notin Before /\ pc'[l] \notin {"assert", "promise"})
    PROVE  PromisesCounted'
  <1>1. Coming' = Coming
    BY DEF Coming, Before
  <1>2. QED
    BY <1>1 DEF PromisesCounted, Before

LEMMA InitInv == Init => IInv
  <1>1. SUFFICES ASSUME Init PROVE IInv
    OBVIOUS
  <1>2. \A t \in Thread : pc[t] = "idle"
    BY <1>1 DEF Init
  <1>3. TypeOK
    <2>1. 0 \in 0 .. MaxLoops /\ 0 \in 0 .. MaxStops
      BY ThreadAssumption
    <2>2. QED
      BY <1>1, <2>1 DEF Init, TypeOK, LooperPoint, StopperPoint
  <1>4. PointsAgree
    BY <1>2, ThreadFacts DEF PointsAgree, LooperPoint, StopperPoint
  <1>5. PromisesCounted
    <2>1. Coming = {}
      BY <1>2, ThreadFacts DEF Coming
    <2>2. QED
      BY <1>1, <1>2, <2>1, ThreadFacts, FS_EmptySet DEF Init, PromisesCounted, Before
  <1>6. LockAgrees
    BY <1>1, <1>2, ThreadFacts DEF Init, LockAgrees, Locked
  <1>7. RegularRun
    BY <1>1, <1>2, ThreadFacts DEF Init, RegularRun, OneAtATime, StopperAgrees, StartAgrees, RunAgrees,
       Quiet, Told, Looping, Stopping, Starting, Locked, Before
  <1>8. QED
    BY <1>3, <1>4, <1>5, <1>6, <1>7 DEF IInv

-----------------------------------------------------------------------------
(* The steps of loop() *)

LEMMA CallInv ==
    ASSUME IInv, NEW t \in Looper, Call(t)
    PROVE  IInv'
  <1>1. /\ t \in Thread
        /\ pc[t] = "idle" /\ pc'[t] \in {"assert", "promise"}
        /\ \A u \in Thread : u # t => pc'[u] = pc[u]
        /\ DOMAIN pc' = Thread
    BY GoFacts, ThreadFacts DEF Call, IInv
  <1>2. TypeOK /\ PointsAgree /\ PromisesCounted /\ LockAgrees
    BY DEF IInv
  <1>3. TypeOK'
    BY <1>1, <1>2, ThreadAssumption DEF Call, TypeOK, Go, LooperPoint, StopperPoint, endVars, poolVars, mechVars, histVars
  <1>4. PointsAgree'
    BY <1>1, <1>2, ThreadFacts DEF Call, Go, TypeOK, PointsAgree, LooperPoint, StopperPoint
  <1>5. PromisesCounted'
    <2>1. Coming' = Coming \union {t} /\ t \notin Coming
      BY <1>1, ThreadFacts DEF Coming
    <2>2. promise' = promise /\ done' = done /\ loops' = loops + 1
      BY DEF Call, endVars
    <2>3. /\ IsFiniteSet(Coming')
          /\ Cardinality(Coming) \in Nat
          /\ Cardinality(Coming') = Cardinality(Coming) + 1
      BY <1>2, <2>1, FS_AddElement, FS_CardinalityType DEF PromisesCounted
    <2>4. \A l \in Looper : pc'[l] \notin Before => promise' >= 1
      BY <1>1, <1>2, <2>2, ThreadFacts DEF PromisesCounted, Before
    <2>5. promise + Cardinality(Coming) <= loops /\ promise \in Nat /\ loops \in Nat
      BY <1>2, ThreadAssumption DEF PromisesCounted, TypeOK
    <2>6. promise' + Cardinality(Coming') <= loops'
      BY <2>2, <2>3, <2>5
    <2>7. QED
      BY <1>2, <2>2, <2>3, <2>4, <2>6 DEF PromisesCounted
  <1>6. LockAgrees'
    BY <1>1, <1>2, ThreadFacts DEF Call, Go, TypeOK, LockAgrees, Locked, PointsAgree, LooperPoint, StopperPoint
  <1>7. ASSUME regular'
        PROVE  RegularRun'
    <2>1. regular /\ (\A l \in Looper : pc[l] \in {"idle", "thrown"}) /\ (\A s \in Stopper : pc[s] \in {"idle", "wait"})
      BY <1>7 DEF Call, Looping, Stopping
    <2>2. Quiet /\ (\A l \in Looper : pc[l] = "idle")
      BY <1>7, <2>1 DEF IInv, RegularRun, OneAtATime, Looping
    <2>3. ~ running /\ ~ ready
      BY <2>1, <2>2 DEF Quiet, Told
    <2>4. QED
      BY <1>1, <1>2, <2>1, <2>2, <2>3, ThreadFacts
       DEF Call, Go, endVars, poolVars, mechVars,
       RegularRun, OneAtATime, StopperAgrees, StartAgrees, RunAgrees, Quiet, Told,
       Looping, Stopping, Starting, Locked, Before, PointsAgree, LooperPoint, StopperPoint, LockAgrees
  <1>8. QED
    BY <1>3, <1>4, <1>5, <1>6, <1>7 DEF IInv

LEMMA AssertInv ==
    ASSUME IInv, NEW t \in Looper, Assert(t)
    PROVE  IInv'
  <1>1. /\ t \in Thread
        /\ pc[t] = "assert" /\ pc'[t] \in {"idle", "promise"}
        /\ \A u \in Thread : u # t => pc'[u] = pc[u]
        /\ DOMAIN pc' = Thread
    BY GoFacts, ThreadFacts DEF Assert, IInv
  <1>2. TypeOK /\ PointsAgree /\ PromisesCounted /\ LockAgrees
    BY DEF IInv
  <1>3. TypeOK'
    BY <1>1, <1>2, ThreadAssumption DEF Assert, TypeOK, Go, LooperPoint, StopperPoint, endVars, poolVars, mechVars, histVars
  <1>4. PointsAgree'
    BY <1>1, <1>2, ThreadFacts DEF Assert, Go, TypeOK, PointsAgree, LooperPoint, StopperPoint
  <1>5. PromisesCounted'
    <2>1. Coming' = Coming \/ Coming' = Coming \ {t}
      BY <1>1, ThreadFacts DEF Coming
    <2>2. promise' = promise /\ done' = done /\ loops' = loops
      BY DEF Assert, endVars, histVars
    <2>3. /\ IsFiniteSet(Coming')
          /\ Cardinality(Coming') \in Nat /\ Cardinality(Coming) \in Nat
          /\ Cardinality(Coming') <= Cardinality(Coming)
      <3>1. IsFiniteSet(Coming) /\ Cardinality(Coming) \in Nat
        BY <1>2, FS_CardinalityType DEF PromisesCounted
      <3>2. CASE Coming' = Coming \ {t}
        <4>1. IsFiniteSet(Coming \ {t}) /\ Cardinality(Coming \ {t}) = IF t \in Coming THEN Cardinality(Coming) - 1 ELSE Cardinality(Coming)
          BY <3>1, FS_RemoveElement
        <4>2. Cardinality(Coming') \in Nat
          BY <3>2, <4>1, FS_CardinalityType
        <4>3. QED
          BY <3>1, <3>2, <4>1, <4>2
      <3>3. QED
        BY <2>1, <3>1, <3>2
    <2>4. \A l \in Looper : pc'[l] \notin Before => promise' >= 1
      BY <1>1, <1>2, <2>2, ThreadFacts DEF PromisesCounted, Before
    <2>5. promise + Cardinality(Coming) <= loops /\ promise \in Nat /\ loops \in Nat
      BY <1>2, ThreadAssumption DEF PromisesCounted, TypeOK
    <2>6. promise' + Cardinality(Coming') <= loops'
      BY <2>2, <2>3, <2>5
    <2>7. QED
      BY <1>2, <2>2, <2>3, <2>4, <2>6 DEF PromisesCounted
  <1>6. LockAgrees'
    BY <1>1, <1>2, ThreadFacts DEF Assert, Go, TypeOK, LockAgrees, Locked, PointsAgree, LooperPoint, StopperPoint
  <1>7. ASSUME regular'
        PROVE  RegularRun'
    BY <1>1, <1>2, <1>7, ThreadFacts
       DEF IInv, Assert, Go, TypeOK, endVars, poolVars, mechVars, histVars,
       RegularRun, OneAtATime, StopperAgrees, StartAgrees, RunAgrees, Quiet, Told,
       Looping, Stopping, Starting, Locked, Before, PointsAgree, LooperPoint, StopperPoint, LockAgrees
  <1>8. QED
    BY <1>3, <1>4, <1>5, <1>6, <1>7 DEF IInv

LEMMA NewPromiseInv ==
    ASSUME IInv, NEW t \in Looper, NewPromise(t)
    PROVE  IInv'
  <1>1. /\ t \in Thread
        /\ pc[t] = "promise" /\ pc'[t] = "pool"
        /\ \A u \in Thread : u # t => pc'[u] = pc[u]
        /\ DOMAIN pc' = Thread
    BY GoFacts, ThreadFacts DEF NewPromise, IInv
  <1>2. TypeOK /\ PointsAgree /\ PromisesCounted /\ LockAgrees
    BY DEF IInv
  <1>3. TypeOK'
    <2>1. t \in Coming
      BY <1>1 DEF Coming
    <2>2. Cardinality(Coming) \in Nat /\ Cardinality(Coming) # 0
      BY <1>2, <2>1, FS_CardinalityType, FS_EmptySet DEF PromisesCounted
    <2>3. promise + 1 <= MaxLoops
      BY <1>2, <2>2, ThreadAssumption DEF PromisesCounted, TypeOK
    <2>4. QED
      BY <1>1, <1>2, <2>3, ThreadAssumption
         DEF NewPromise, TypeOK, Go, LooperPoint, StopperPoint, poolVars, mechVars, histVars
  <1>4. PointsAgree'
    BY <1>1, <1>2, ThreadFacts DEF NewPromise, Go, TypeOK, PointsAgree, LooperPoint, StopperPoint
  <1>5. PromisesCounted'
    <2>1. Coming' = Coming \ {t} /\ t \in Coming
      BY <1>1, ThreadFacts DEF Coming
    <2>2. promise' = promise + 1 /\ done' = done /\ loops' = loops
      BY DEF NewPromise, histVars
    <2>3. /\ IsFiniteSet(Coming')
          /\ Cardinality(Coming) \in Nat
          /\ Cardinality(Coming') = Cardinality(Coming) - 1
      BY <1>2, <2>1, FS_RemoveElement, FS_CardinalityType DEF PromisesCounted
    <2>4. promise + Cardinality(Coming) <= loops /\ promise \in Nat /\ loops \in Nat
      BY <1>2, ThreadAssumption DEF PromisesCounted, TypeOK
    <2>5. promise' >= 1 /\ promise' + Cardinality(Coming') <= loops' /\ 1 .. promise \subseteq 1 .. promise'
      BY <2>2, <2>3, <2>4
    <2>6. QED
      BY <1>2, <2>2, <2>3, <2>5 DEF PromisesCounted
  <1>6. LockAgrees'
    BY <1>1, <1>2, ThreadFacts DEF NewPromise, Go, TypeOK, LockAgrees, Locked, PointsAgree, LooperPoint, StopperPoint
  <1>7. ASSUME regular'
        PROVE  RegularRun'
    <2>1. promise' = promise + 1 /\ done' = done /\ promise \in Nat
      BY <1>2, ThreadAssumption DEF NewPromise, TypeOK
    <2>2. promise' \notin done'
      BY <1>2, <2>1 DEF PromisesCounted
    <2>3. QED
      BY <1>1, <1>2, <1>7, <2>2, ThreadFacts
       DEF IInv, NewPromise, Go, poolVars, mechVars, histVars,
       RegularRun, OneAtATime, StopperAgrees, StartAgrees, RunAgrees, Quiet, Told,
       Looping, Stopping, Starting, Locked, Before, PointsAgree, LooperPoint, StopperPoint, LockAgrees
  <1>8. QED
    BY <1>3, <1>4, <1>5, <1>6, <1>7 DEF IInv

LEMMA InitiatePoolInv ==
    ASSUME IInv, NEW t \in Looper, InitiatePool(t)
    PROVE  IInv'
  <1>1. /\ t \in Thread
        /\ pc[t] = "pool" /\ pc'[t] \in {"create", "initiate"}
        /\ \A u \in Thread : u # t => pc'[u] = pc[u]
        /\ DOMAIN pc' = Thread
    BY GoFacts, ThreadFacts DEF InitiatePool, IInv
  <1>2. TypeOK /\ PointsAgree /\ PromisesCounted /\ LockAgrees
    BY DEF IInv
  <1>3. TypeOK'
    BY <1>1, <1>2, ThreadAssumption DEF InitiatePool, TypeOK, Go, LooperPoint, StopperPoint, endVars, poolVars, mechVars, histVars
  <1>4. PointsAgree'
    BY <1>1, <1>2, ThreadFacts DEF InitiatePool, Go, TypeOK, PointsAgree, LooperPoint, StopperPoint
  <1>5. PromisesCounted'
    <2>1. \A l \in Looper :
              pc'[l] = pc[l] \/ (pc[l] \notin Before /\ pc'[l] \notin {"assert", "promise"})
      BY <1>1, ThreadFacts DEF InitiatePool, Before
    <2>2. promise' = promise /\ done' = done /\ loops' = loops
      BY DEF InitiatePool, endVars, histVars
    <2>3. QED
      BY <1>2, <2>1, <2>2, PromisesUnmoved
  <1>6. LockAgrees'
    BY <1>1, <1>2, ThreadFacts DEF InitiatePool, Go, TypeOK, LockAgrees, Locked, PointsAgree, LooperPoint, StopperPoint
  <1>7. ASSUME regular'
        PROVE  RegularRun'
    BY <1>1, <1>2, <1>7, ThreadFacts
       DEF IInv, InitiatePool, Go, TypeOK, endVars, poolVars, mechVars, histVars,
       RegularRun, OneAtATime, StopperAgrees, StartAgrees, RunAgrees, Quiet, Told,
       Looping, Stopping, Starting, Locked, Before, PointsAgree, LooperPoint, StopperPoint, LockAgrees
  <1>8. QED
    BY <1>3, <1>4, <1>5, <1>6, <1>7 DEF IInv

LEMMA CreateWorkersInv ==
    ASSUME IInv, NEW t \in Looper, CreateWorkers(t)
    PROVE  IInv'
  <1>1. /\ t \in Thread
        /\ pc[t] = "create" /\ pc'[t] = "initiate"
        /\ \A u \in Thread : u # t => pc'[u] = pc[u]
        /\ DOMAIN pc' = Thread
    BY GoFacts, ThreadFacts DEF CreateWorkers, IInv
  <1>2. TypeOK /\ PointsAgree /\ PromisesCounted /\ LockAgrees
    BY DEF IInv
  <1>3. TypeOK'
    BY <1>1, <1>2, ThreadAssumption DEF CreateWorkers, TypeOK, Go, LooperPoint, StopperPoint, endVars, poolVars, mechVars, histVars
  <1>4. PointsAgree'
    BY <1>1, <1>2, ThreadFacts DEF CreateWorkers, Go, TypeOK, PointsAgree, LooperPoint, StopperPoint
  <1>5. PromisesCounted'
    <2>1. \A l \in Looper :
              pc'[l] = pc[l] \/ (pc[l] \notin Before /\ pc'[l] \notin {"assert", "promise"})
      BY <1>1, ThreadFacts DEF CreateWorkers, Before
    <2>2. promise' = promise /\ done' = done /\ loops' = loops
      BY DEF CreateWorkers, endVars, histVars
    <2>3. QED
      BY <1>2, <2>1, <2>2, PromisesUnmoved
  <1>6. LockAgrees'
    BY <1>1, <1>2, ThreadFacts DEF CreateWorkers, Go, TypeOK, LockAgrees, Locked, PointsAgree, LooperPoint, StopperPoint
  <1>7. ASSUME regular'
        PROVE  RegularRun'
    BY <1>1, <1>2, <1>7, ThreadFacts
       DEF IInv, CreateWorkers, Go, TypeOK, endVars, poolVars, mechVars, histVars,
       RegularRun, OneAtATime, StopperAgrees, StartAgrees, RunAgrees, Quiet, Told,
       Looping, Stopping, Starting, Locked, Before, PointsAgree, LooperPoint, StopperPoint, LockAgrees
  <1>8. QED
    BY <1>3, <1>4, <1>5, <1>6, <1>7 DEF IInv

LEMMA CreateFailsInv ==
    ASSUME IInv, NEW t \in Looper, CreateFails(t)
    PROVE  IInv'
  <1>1. /\ t \in Thread
        /\ pc[t] = "create" /\ pc'[t] = "idle"
        /\ \A u \in Thread : u # t => pc'[u] = pc[u]
        /\ DOMAIN pc' = Thread
    BY GoFacts, ThreadFacts DEF CreateFails, IInv
  <1>2. TypeOK /\ PointsAgree /\ PromisesCounted /\ LockAgrees
    BY DEF IInv
  <1>3. TypeOK'
    BY <1>1, <1>2, ThreadAssumption DEF CreateFails, TypeOK, Go, LooperPoint, StopperPoint, endVars, poolVars, mechVars, histVars
  <1>4. PointsAgree'
    BY <1>1, <1>2, ThreadFacts DEF CreateFails, Go, TypeOK, PointsAgree, LooperPoint, StopperPoint
  <1>5. PromisesCounted'
    <2>1. \A l \in Looper :
              pc'[l] = pc[l] \/ (pc[l] \notin Before /\ pc'[l] \notin {"assert", "promise"})
      BY <1>1, ThreadFacts DEF CreateFails, Before
    <2>2. promise' = promise /\ done' = done /\ loops' = loops
      BY DEF CreateFails, endVars, histVars
    <2>3. QED
      BY <1>2, <2>1, <2>2, PromisesUnmoved
  <1>6. LockAgrees'
    BY <1>1, <1>2, ThreadFacts DEF CreateFails, Go, TypeOK, LockAgrees, Locked, PointsAgree, LooperPoint, StopperPoint
  <1>7. ASSUME regular'
        PROVE  RegularRun'
    BY <1>1, <1>2, <1>7, ThreadFacts
       DEF IInv, CreateFails, Go, TypeOK, endVars, poolVars, mechVars, histVars,
       RegularRun, OneAtATime, StopperAgrees, StartAgrees, RunAgrees, Quiet, Told,
       Looping, Stopping, Starting, Locked, Before, PointsAgree, LooperPoint, StopperPoint, LockAgrees
  <1>8. QED
    BY <1>3, <1>4, <1>5, <1>6, <1>7 DEF IInv

LEMMA InitiateMechanismInv ==
    ASSUME IInv, NEW t \in Looper, InitiateMechanism(t)
    PROVE  IInv'
  <1>1. /\ t \in Thread
        /\ pc[t] = "initiate" /\ pc'[t] \in {"ready", "start"}
        /\ \A u \in Thread : u # t => pc'[u] = pc[u]
        /\ DOMAIN pc' = Thread
    BY GoFacts, ThreadFacts DEF InitiateMechanism, IInv
  <1>2. TypeOK /\ PointsAgree /\ PromisesCounted /\ LockAgrees
    BY DEF IInv
  <1>3. TypeOK'
    BY <1>1, <1>2, ThreadAssumption DEF InitiateMechanism, TypeOK, Go, LooperPoint, StopperPoint, endVars, poolVars, mechVars, histVars
  <1>4. PointsAgree'
    BY <1>1, <1>2, ThreadFacts DEF InitiateMechanism, Go, TypeOK, PointsAgree, LooperPoint, StopperPoint
  <1>5. PromisesCounted'
    <2>1. \A l \in Looper :
              pc'[l] = pc[l] \/ (pc[l] \notin Before /\ pc'[l] \notin {"assert", "promise"})
      BY <1>1, ThreadFacts DEF InitiateMechanism, Before
    <2>2. promise' = promise /\ done' = done /\ loops' = loops
      BY DEF InitiateMechanism, endVars, histVars
    <2>3. QED
      BY <1>2, <2>1, <2>2, PromisesUnmoved
  <1>6. LockAgrees'
    BY <1>1, <1>2, ThreadFacts DEF InitiateMechanism, Go, TypeOK, LockAgrees, Locked, PointsAgree, LooperPoint, StopperPoint
  <1>7. ASSUME regular'
        PROVE  RegularRun'
    BY <1>1, <1>2, <1>7, ThreadFacts
       DEF IInv, InitiateMechanism, Go, TypeOK, endVars, poolVars, mechVars, histVars,
       RegularRun, OneAtATime, StopperAgrees, StartAgrees, RunAgrees, Quiet, Told,
       Looping, Stopping, Starting, Locked, Before, PointsAgree, LooperPoint, StopperPoint, LockAgrees
  <1>8. QED
    BY <1>3, <1>4, <1>5, <1>6, <1>7 DEF IInv

LEMMA StartMechanismInv ==
    ASSUME IInv, NEW t \in Looper, StartMechanism(t)
    PROVE  IInv'
  <1>1. /\ t \in Thread
        /\ pc[t] = "start" /\ pc'[t] = "ready"
        /\ \A u \in Thread : u # t => pc'[u] = pc[u]
        /\ DOMAIN pc' = Thread
    BY GoFacts, ThreadFacts DEF StartMechanism, IInv
  <1>2. TypeOK /\ PointsAgree /\ PromisesCounted /\ LockAgrees
    BY DEF IInv
  <1>3. TypeOK'
    BY <1>1, <1>2, ThreadAssumption DEF StartMechanism, TypeOK, Go, LooperPoint, StopperPoint, endVars, poolVars, mechVars, histVars
  <1>4. PointsAgree'
    BY <1>1, <1>2, ThreadFacts DEF StartMechanism, Go, TypeOK, PointsAgree, LooperPoint, StopperPoint
  <1>5. PromisesCounted'
    <2>1. \A l \in Looper :
              pc'[l] = pc[l] \/ (pc[l] \notin Before /\ pc'[l] \notin {"assert", "promise"})
      BY <1>1, ThreadFacts DEF StartMechanism, Before
    <2>2. promise' = promise /\ done' = done /\ loops' = loops
      BY DEF StartMechanism, endVars, histVars
    <2>3. QED
      BY <1>2, <2>1, <2>2, PromisesUnmoved
  <1>6. LockAgrees'
    BY <1>1, <1>2, ThreadFacts DEF StartMechanism, Go, TypeOK, LockAgrees, Locked, PointsAgree, LooperPoint, StopperPoint
  <1>7. ASSUME regular'
        PROVE  RegularRun'
    BY <1>1, <1>2, <1>7, ThreadFacts
       DEF IInv, StartMechanism, Go, TypeOK, endVars, poolVars, mechVars, histVars,
       RegularRun, OneAtATime, StopperAgrees, StartAgrees, RunAgrees, Quiet, Told,
       Looping, Stopping, Starting, Locked, Before, PointsAgree, LooperPoint, StopperPoint, LockAgrees
  <1>8. QED
    BY <1>3, <1>4, <1>5, <1>6, <1>7 DEF IInv

LEMMA SetReadyInv ==
    ASSUME IInv, NEW t \in Looper, SetReady(t)
    PROVE  IInv'
  <1>1. /\ t \in Thread
        /\ pc[t] = "ready" /\ pc'[t] \in {"thrown", "futures"}
        /\ \A u \in Thread : u # t => pc'[u] = pc[u]
        /\ DOMAIN pc' = Thread
    BY GoFacts, ThreadFacts DEF SetReady, IInv
  <1>2. TypeOK /\ PointsAgree /\ PromisesCounted /\ LockAgrees
    BY DEF IInv
  <1>3. TypeOK'
    BY <1>1, <1>2, ThreadAssumption DEF SetReady, TypeOK, Go, LooperPoint, StopperPoint, endVars, poolVars, mechVars, histVars
  <1>4. PointsAgree'
    BY <1>1, <1>2, ThreadFacts DEF SetReady, Go, TypeOK, PointsAgree, LooperPoint, StopperPoint
  <1>5. PromisesCounted'
    <2>1. \A l \in Looper :
              pc'[l] = pc[l] \/ (pc[l] \notin Before /\ pc'[l] \notin {"assert", "promise"})
      BY <1>1, ThreadFacts DEF SetReady, Before
    <2>2. promise' = promise /\ done' = done /\ loops' = loops
      BY DEF SetReady, endVars, histVars
    <2>3. QED
      BY <1>2, <2>1, <2>2, PromisesUnmoved
  <1>6. LockAgrees'
    BY <1>1, <1>2, ThreadFacts DEF SetReady, Go, TypeOK, LockAgrees, Locked, PointsAgree, LooperPoint, StopperPoint
  <1>7. ASSUME regular'
        PROVE  RegularRun'
    BY <1>1, <1>2, <1>7, ThreadFacts
       DEF IInv, SetReady, Go, TypeOK, endVars, poolVars, mechVars, histVars,
       RegularRun, OneAtATime, StopperAgrees, StartAgrees, RunAgrees, Quiet, Told,
       Looping, Stopping, Starting, Locked, Before, PointsAgree, LooperPoint, StopperPoint, LockAgrees
  <1>8. QED
    BY <1>3, <1>4, <1>5, <1>6, <1>7 DEF IInv

LEMMA WaitMechanismInv ==
    ASSUME IInv, NEW t \in Looper, WaitMechanism(t)
    PROVE  IInv'
  <1>1. /\ t \in Thread
        /\ pc[t] = "futures" /\ pc'[t] = "join"
        /\ \A u \in Thread : u # t => pc'[u] = pc[u]
        /\ DOMAIN pc' = Thread
    BY GoFacts, ThreadFacts DEF WaitMechanism, IInv
  <1>2. TypeOK /\ PointsAgree /\ PromisesCounted /\ LockAgrees
    BY DEF IInv
  <1>3. TypeOK'
    BY <1>1, <1>2, ThreadAssumption DEF WaitMechanism, TypeOK, Go, LooperPoint, StopperPoint, endVars, poolVars, mechVars, histVars
  <1>4. PointsAgree'
    BY <1>1, <1>2, ThreadFacts DEF WaitMechanism, Go, TypeOK, PointsAgree, LooperPoint, StopperPoint
  <1>5. PromisesCounted'
    <2>1. \A l \in Looper :
              pc'[l] = pc[l] \/ (pc[l] \notin Before /\ pc'[l] \notin {"assert", "promise"})
      BY <1>1, ThreadFacts DEF WaitMechanism, Before
    <2>2. promise' = promise /\ done' = done /\ loops' = loops
      BY DEF WaitMechanism, endVars, histVars
    <2>3. QED
      BY <1>2, <2>1, <2>2, PromisesUnmoved
  <1>6. LockAgrees'
    BY <1>1, <1>2, ThreadFacts DEF WaitMechanism, Go, TypeOK, LockAgrees, Locked, PointsAgree, LooperPoint, StopperPoint
  <1>7. ASSUME regular'
        PROVE  RegularRun'
    BY <1>1, <1>2, <1>7, ThreadFacts
       DEF IInv, WaitMechanism, Go, TypeOK, endVars, poolVars, mechVars, histVars,
       RegularRun, OneAtATime, StopperAgrees, StartAgrees, RunAgrees, Quiet, Told,
       Looping, Stopping, Starting, Locked, Before, PointsAgree, LooperPoint, StopperPoint, LockAgrees
  <1>8. QED
    BY <1>3, <1>4, <1>5, <1>6, <1>7 DEF IInv

LEMMA JoinPoolInv ==
    ASSUME IInv, NEW t \in Looper, JoinPool(t)
    PROVE  IInv'
  <1>1. /\ t \in Thread
        /\ pc[t] = "join" /\ pc'[t] = "finish"
        /\ \A u \in Thread : u # t => pc'[u] = pc[u]
        /\ DOMAIN pc' = Thread
    BY GoFacts, ThreadFacts DEF JoinPool, IInv
  <1>2. TypeOK /\ PointsAgree /\ PromisesCounted /\ LockAgrees
    BY DEF IInv
  <1>3. TypeOK'
    BY <1>1, <1>2, ThreadAssumption DEF JoinPool, TypeOK, Go, LooperPoint, StopperPoint, endVars, poolVars, mechVars, histVars
  <1>4. PointsAgree'
    BY <1>1, <1>2, ThreadFacts DEF JoinPool, Go, TypeOK, PointsAgree, LooperPoint, StopperPoint
  <1>5. PromisesCounted'
    <2>1. \A l \in Looper :
              pc'[l] = pc[l] \/ (pc[l] \notin Before /\ pc'[l] \notin {"assert", "promise"})
      BY <1>1, ThreadFacts DEF JoinPool, Before
    <2>2. promise' = promise /\ done' = done /\ loops' = loops
      BY DEF JoinPool, endVars, histVars
    <2>3. QED
      BY <1>2, <2>1, <2>2, PromisesUnmoved
  <1>6. LockAgrees'
    BY <1>1, <1>2, ThreadFacts DEF JoinPool, Go, TypeOK, LockAgrees, Locked, PointsAgree, LooperPoint, StopperPoint
  <1>7. ASSUME regular'
        PROVE  RegularRun'
    BY <1>1, <1>2, <1>7, ThreadFacts
       DEF IInv, JoinPool, Go, TypeOK, endVars, poolVars, mechVars, histVars,
       RegularRun, OneAtATime, StopperAgrees, StartAgrees, RunAgrees, Quiet, Told,
       Looping, Stopping, Starting, Locked, Before, PointsAgree, LooperPoint, StopperPoint, LockAgrees
  <1>8. QED
    BY <1>3, <1>4, <1>5, <1>6, <1>7 DEF IInv

LEMMA FinishInv ==
    ASSUME IInv, NEW t \in Looper, Finish(t)
    PROVE  IInv'
  <1>1. /\ t \in Thread
        /\ pc[t] = "finish" /\ pc'[t] \in {"thrown", "idle"}
        /\ \A u \in Thread : u # t => pc'[u] = pc[u]
        /\ DOMAIN pc' = Thread
    BY GoFacts, ThreadFacts DEF Finish, IInv
  <1>2. TypeOK /\ PointsAgree /\ PromisesCounted /\ LockAgrees
    BY DEF IInv
  <1>3. TypeOK'
    <2>1. promise \in 1 .. MaxLoops
      BY <1>1, <1>2, ThreadAssumption DEF PromisesCounted, TypeOK, Before
    <2>2. QED
      BY <1>1, <1>2, <2>1, ThreadAssumption
         DEF Finish, TypeOK, Go, LooperPoint, StopperPoint, poolVars, mechVars, histVars
  <1>4. PointsAgree'
    BY <1>1, <1>2, ThreadFacts DEF Finish, Go, TypeOK, PointsAgree, LooperPoint, StopperPoint
  <1>5. PromisesCounted'
    <2>1. Coming' = Coming
      BY <1>1, ThreadFacts DEF Coming
    <2>2. promise' = promise /\ loops' = loops /\ done' = done \union {promise}
      BY DEF Finish, histVars
    <2>3. promise \in 1 .. promise
      BY <1>1, <1>2, ThreadAssumption DEF PromisesCounted, TypeOK, Before
    <2>4. \A l \in Looper : pc'[l] \notin Before => promise' >= 1
      BY <1>1, <1>2, <2>2, ThreadFacts DEF PromisesCounted, Before
    <2>5. QED
      BY <1>2, <2>1, <2>2, <2>3, <2>4 DEF PromisesCounted
  <1>6. LockAgrees'
    BY <1>1, <1>2, ThreadFacts DEF Finish, Go, TypeOK, LockAgrees, Locked, PointsAgree, LooperPoint, StopperPoint
  <1>7. ASSUME regular'
        PROVE  RegularRun'
    BY <1>1, <1>2, <1>7, ThreadFacts
       DEF IInv, Finish, Go, TypeOK, endVars, poolVars, mechVars, histVars,
       RegularRun, OneAtATime, StopperAgrees, StartAgrees, RunAgrees, Quiet, Told,
       Looping, Stopping, Starting, Locked, Before, PointsAgree, LooperPoint, StopperPoint, LockAgrees
  <1>8. QED
    BY <1>3, <1>4, <1>5, <1>6, <1>7 DEF IInv

-----------------------------------------------------------------------------
(* The steps of terminate() *)

LEMMA TerminateInv ==
    ASSUME IInv, NEW t \in Stopper, Terminate(t)
    PROVE  IInv'
  <1>1. /\ t \in Thread
        /\ pc[t] = "idle" /\ pc'[t] = "enter"
        /\ \A u \in Thread : u # t => pc'[u] = pc[u]
        /\ DOMAIN pc' = Thread
    BY GoFacts, ThreadFacts DEF Terminate, IInv
  <1>2. TypeOK /\ PointsAgree /\ PromisesCounted /\ LockAgrees
    BY DEF IInv
  <1>3. TypeOK'
    BY <1>1, <1>2, ThreadAssumption DEF Terminate, TypeOK, Go, LooperPoint, StopperPoint, endVars, poolVars, mechVars, histVars
  <1>4. PointsAgree'
    BY <1>1, <1>2, ThreadFacts DEF Terminate, Go, TypeOK, PointsAgree, LooperPoint, StopperPoint
  <1>5. PromisesCounted'
    <2>1. \A l \in Looper :
              pc'[l] = pc[l] \/ (pc[l] \notin Before /\ pc'[l] \notin {"assert", "promise"})
      BY <1>1, ThreadFacts DEF Terminate, Before
    <2>2. promise' = promise /\ done' = done /\ loops' = loops
      BY DEF Terminate, endVars, histVars
    <2>3. QED
      BY <1>2, <2>1, <2>2, PromisesUnmoved
  <1>6. LockAgrees'
    BY <1>1, <1>2, ThreadFacts DEF Terminate, Go, TypeOK, LockAgrees, Locked, PointsAgree, LooperPoint, StopperPoint
  <1>7. ASSUME regular'
        PROVE  RegularRun'
    BY <1>1, <1>2, <1>7, ThreadFacts
       DEF IInv, Terminate, Go, TypeOK, endVars, poolVars, mechVars, histVars,
       RegularRun, OneAtATime, StopperAgrees, StartAgrees, RunAgrees, Quiet, Told,
       Looping, Stopping, Starting, Locked, Before, PointsAgree, LooperPoint, StopperPoint, LockAgrees
  <1>8. QED
    BY <1>3, <1>4, <1>5, <1>6, <1>7 DEF IInv

LEMMA TerminatePoolInv ==
    ASSUME IInv, NEW t \in Stopper, TerminatePool(t)
    PROVE  IInv'
  <1>1. /\ t \in Thread
        /\ pc[t] = "enter" /\ pc'[t] = "mechanisms"
        /\ \A u \in Thread : u # t => pc'[u] = pc[u]
        /\ DOMAIN pc' = Thread
    BY GoFacts, ThreadFacts DEF TerminatePool, IInv
  <1>2. TypeOK /\ PointsAgree /\ PromisesCounted /\ LockAgrees
    BY DEF IInv
  <1>3. TypeOK'
    BY <1>1, <1>2, ThreadAssumption DEF TerminatePool, TypeOK, Go, LooperPoint, StopperPoint, endVars, poolVars, mechVars, histVars
  <1>4. PointsAgree'
    BY <1>1, <1>2, ThreadFacts DEF TerminatePool, Go, TypeOK, PointsAgree, LooperPoint, StopperPoint
  <1>5. PromisesCounted'
    <2>1. \A l \in Looper :
              pc'[l] = pc[l] \/ (pc[l] \notin Before /\ pc'[l] \notin {"assert", "promise"})
      BY <1>1, ThreadFacts DEF TerminatePool, Before
    <2>2. promise' = promise /\ done' = done /\ loops' = loops
      BY DEF TerminatePool, endVars, histVars
    <2>3. QED
      BY <1>2, <2>1, <2>2, PromisesUnmoved
  <1>6. LockAgrees'
    BY <1>1, <1>2, ThreadFacts DEF TerminatePool, Go, TypeOK, LockAgrees, Locked, PointsAgree, LooperPoint, StopperPoint
  <1>7. ASSUME regular'
        PROVE  RegularRun'
    BY <1>1, <1>2, <1>7, ThreadFacts
       DEF IInv, TerminatePool, Go, TypeOK, endVars, poolVars, mechVars, histVars,
       RegularRun, OneAtATime, StopperAgrees, StartAgrees, RunAgrees, Quiet, Told,
       Looping, Stopping, Starting, Locked, Before, PointsAgree, LooperPoint, StopperPoint, LockAgrees
  <1>8. QED
    BY <1>3, <1>4, <1>5, <1>6, <1>7 DEF IInv

LEMMA TerminateMechanismInv ==
    ASSUME IInv, NEW t \in Stopper, TerminateMechanism(t)
    PROVE  IInv'
  <1>1. /\ t \in Thread
        /\ pc[t] = "mechanisms" /\ pc'[t] = "running"
        /\ \A u \in Thread : u # t => pc'[u] = pc[u]
        /\ DOMAIN pc' = Thread
    BY GoFacts, ThreadFacts DEF TerminateMechanism, IInv
  <1>2. TypeOK /\ PointsAgree /\ PromisesCounted /\ LockAgrees
    BY DEF IInv
  <1>3. TypeOK'
    BY <1>1, <1>2, ThreadAssumption DEF TerminateMechanism, TypeOK, Go, LooperPoint, StopperPoint, endVars, poolVars, mechVars, histVars
  <1>4. PointsAgree'
    BY <1>1, <1>2, ThreadFacts DEF TerminateMechanism, Go, TypeOK, PointsAgree, LooperPoint, StopperPoint
  <1>5. PromisesCounted'
    <2>1. \A l \in Looper :
              pc'[l] = pc[l] \/ (pc[l] \notin Before /\ pc'[l] \notin {"assert", "promise"})
      BY <1>1, ThreadFacts DEF TerminateMechanism, Before
    <2>2. promise' = promise /\ done' = done /\ loops' = loops
      BY DEF TerminateMechanism, endVars, histVars
    <2>3. QED
      BY <1>2, <2>1, <2>2, PromisesUnmoved
  <1>6. LockAgrees'
    BY <1>1, <1>2, ThreadFacts DEF TerminateMechanism, Go, TypeOK, LockAgrees, Locked, PointsAgree, LooperPoint, StopperPoint
  <1>7. ASSUME regular'
        PROVE  RegularRun'
    BY <1>1, <1>2, <1>7, ThreadFacts
       DEF IInv, TerminateMechanism, Go, TypeOK, endVars, poolVars, mechVars, histVars,
       RegularRun, OneAtATime, StopperAgrees, StartAgrees, RunAgrees, Quiet, Told,
       Looping, Stopping, Starting, Locked, Before, PointsAgree, LooperPoint, StopperPoint, LockAgrees
  <1>8. QED
    BY <1>3, <1>4, <1>5, <1>6, <1>7 DEF IInv

LEMMA ClearRunningInv ==
    ASSUME IInv, NEW t \in Stopper, ClearRunning(t)
    PROVE  IInv'
  <1>1. /\ t \in Thread
        /\ pc[t] = "running" /\ pc'[t] = "renew"
        /\ \A u \in Thread : u # t => pc'[u] = pc[u]
        /\ DOMAIN pc' = Thread
    BY GoFacts, ThreadFacts DEF ClearRunning, IInv
  <1>2. TypeOK /\ PointsAgree /\ PromisesCounted /\ LockAgrees
    BY DEF IInv
  <1>3. TypeOK'
    BY <1>1, <1>2, ThreadAssumption DEF ClearRunning, TypeOK, Go, LooperPoint, StopperPoint, endVars, poolVars, mechVars, histVars
  <1>4. PointsAgree'
    BY <1>1, <1>2, ThreadFacts DEF ClearRunning, Go, TypeOK, PointsAgree, LooperPoint, StopperPoint
  <1>5. PromisesCounted'
    <2>1. \A l \in Looper :
              pc'[l] = pc[l] \/ (pc[l] \notin Before /\ pc'[l] \notin {"assert", "promise"})
      BY <1>1, ThreadFacts DEF ClearRunning, Before
    <2>2. promise' = promise /\ done' = done /\ loops' = loops
      BY DEF ClearRunning, endVars, histVars
    <2>3. QED
      BY <1>2, <2>1, <2>2, PromisesUnmoved
  <1>6. LockAgrees'
    BY <1>1, <1>2, ThreadFacts DEF ClearRunning, Go, TypeOK, LockAgrees, Locked, PointsAgree, LooperPoint, StopperPoint
  <1>7. ASSUME regular'
        PROVE  RegularRun'
    BY <1>1, <1>2, <1>7, ThreadFacts
       DEF IInv, ClearRunning, Go, TypeOK, endVars, poolVars, mechVars, histVars,
       RegularRun, OneAtATime, StopperAgrees, StartAgrees, RunAgrees, Quiet, Told,
       Looping, Stopping, Starting, Locked, Before, PointsAgree, LooperPoint, StopperPoint, LockAgrees
  <1>8. QED
    BY <1>3, <1>4, <1>5, <1>6, <1>7 DEF IInv

LEMMA RenewInv ==
    ASSUME IInv, NEW t \in Stopper, Renew(t)
    PROVE  IInv'
  <1>1. /\ t \in Thread
        /\ pc[t] = "renew" /\ pc'[t] \in {"wait", "idle"}
        /\ \A u \in Thread : u # t => pc'[u] = pc[u]
        /\ DOMAIN pc' = Thread
    BY GoFacts, ThreadFacts DEF Renew, IInv
  <1>2. TypeOK /\ PointsAgree /\ PromisesCounted /\ LockAgrees
    BY DEF IInv
  <1>3. TypeOK'
    BY <1>1, <1>2, ThreadAssumption DEF Renew, TypeOK, Go, LooperPoint, StopperPoint, endVars, poolVars, mechVars, histVars
  <1>4. PointsAgree'
    BY <1>1, <1>2, ThreadFacts DEF Renew, Go, TypeOK, PointsAgree, LooperPoint, StopperPoint
  <1>5. PromisesCounted'
    <2>1. \A l \in Looper :
              pc'[l] = pc[l] \/ (pc[l] \notin Before /\ pc'[l] \notin {"assert", "promise"})
      BY <1>1, ThreadFacts DEF Renew, Before
    <2>2. promise' = promise /\ done' = done /\ loops' = loops
      BY DEF Renew, endVars, histVars
    <2>3. QED
      BY <1>2, <2>1, <2>2, PromisesUnmoved
  <1>6. LockAgrees'
    BY <1>1, <1>2, ThreadFacts DEF Renew, Go, TypeOK, LockAgrees, Locked, PointsAgree, LooperPoint, StopperPoint
  <1>7. ASSUME regular'
        PROVE  RegularRun'
    BY <1>1, <1>2, <1>7, ThreadFacts
       DEF IInv, Renew, Go, TypeOK, endVars, poolVars, mechVars, histVars,
       RegularRun, OneAtATime, StopperAgrees, StartAgrees, RunAgrees, Quiet, Told,
       Looping, Stopping, Starting, Locked, Before, PointsAgree, LooperPoint, StopperPoint, LockAgrees
  <1>8. QED
    BY <1>3, <1>4, <1>5, <1>6, <1>7 DEF IInv

LEMMA WaitedInv ==
    ASSUME IInv, NEW t \in Stopper, Waited(t)
    PROVE  IInv'
  <1>1. /\ t \in Thread
        /\ pc[t] = "wait" /\ pc'[t] = "idle"
        /\ \A u \in Thread : u # t => pc'[u] = pc[u]
        /\ DOMAIN pc' = Thread
    BY GoFacts, ThreadFacts DEF Waited, IInv
  <1>2. TypeOK /\ PointsAgree /\ PromisesCounted /\ LockAgrees
    BY DEF IInv
  <1>3. TypeOK'
    <2>1. 0 \in 0 .. MaxLoops
      BY ThreadAssumption
    <2>2. QED
      BY <1>1, <1>2, <2>1 DEF Waited, TypeOK, Go, LooperPoint, StopperPoint, poolVars, mechVars, histVars
  <1>4. PointsAgree'
    BY <1>1, <1>2, ThreadFacts DEF Waited, Go, TypeOK, PointsAgree, LooperPoint, StopperPoint
  <1>5. PromisesCounted'
    <2>1. \A l \in Looper :
              pc'[l] = pc[l] \/ (pc[l] \notin Before /\ pc'[l] \notin {"assert", "promise"})
      BY <1>1, ThreadFacts DEF Waited, Before
    <2>2. promise' = promise /\ done' = done /\ loops' = loops
      BY DEF Waited, endVars, histVars
    <2>3. QED
      BY <1>2, <2>1, <2>2, PromisesUnmoved
  <1>6. LockAgrees'
    BY <1>1, <1>2, ThreadFacts DEF Waited, Go, TypeOK, LockAgrees, Locked, PointsAgree, LooperPoint, StopperPoint
  <1>7. ASSUME regular'
        PROVE  RegularRun'
    BY <1>1, <1>2, <1>7, ThreadFacts
       DEF IInv, Waited, Go, TypeOK, endVars, poolVars, mechVars, histVars,
       RegularRun, OneAtATime, StopperAgrees, StartAgrees, RunAgrees, Quiet, Told,
       Looping, Stopping, Starting, Locked, Before, PointsAgree, LooperPoint, StopperPoint, LockAgrees
  <1>8. QED
    BY <1>3, <1>4, <1>5, <1>6, <1>7 DEF IInv

-----------------------------------------------------------------------------
(* The pool, the mechanism, and all steps *)

\* Steps of the pool and the mechanism move no thread of the program.
LEMMA EndsInv ==
    ASSUME IInv, WorkersEnd \/ MechanismEnds \/ UNCHANGED vars
    PROVE  IInv'
  <1>1. TypeOK /\ PointsAgree /\ PromisesCounted /\ LockAgrees
    BY DEF IInv
  <1>2. pc' = pc /\ lock' = lock /\ promise' = promise /\ done' = done /\ loops' = loops /\ regular' = regular
    BY DEF WorkersEnd, MechanismEnds, vars, endVars, histVars
  <1>3. TypeOK'
    BY <1>1 DEF WorkersEnd, MechanismEnds, vars, TypeOK, endVars, poolVars, mechVars, histVars
  <1>4. PointsAgree' /\ PromisesCounted' /\ LockAgrees'
    BY <1>1, <1>2, PromisesUnmoved DEF PointsAgree, LockAgrees
  <1>5. ASSUME regular'
        PROVE  RegularRun'
    BY <1>1, <1>2, <1>5, ThreadFacts
       DEF IInv, WorkersEnd, MechanismEnds, vars, TypeOK, endVars, poolVars, mechVars, histVars,
       RegularRun, OneAtATime, StopperAgrees, StartAgrees, RunAgrees, Quiet, Told,
       Looping, Stopping, Starting, Locked, Before, PointsAgree, LooperPoint, StopperPoint, LockAgrees
  <1>6. QED
    BY <1>3, <1>4, <1>5 DEF IInv

LEMMA NextInv == IInv /\ [Next]_vars => IInv'
  <1>1. SUFFICES ASSUME IInv, [Next]_vars
                 PROVE  IInv'
    OBVIOUS
  <1>2. ASSUME NEW t \in Looper, Call(t) \/ CreateFails(t) \/ LooperStep(t)
        PROVE  IInv'
    BY <1>1, <1>2, CallInv, AssertInv, NewPromiseInv, InitiatePoolInv, CreateWorkersInv, CreateFailsInv,
       InitiateMechanismInv, StartMechanismInv, SetReadyInv, WaitMechanismInv, JoinPoolInv, FinishInv
       DEF LooperStep
  <1>3. ASSUME NEW t \in Stopper, Terminate(t) \/ StopperStep(t)
        PROVE  IInv'
    BY <1>1, <1>3, TerminateInv, TerminatePoolInv, TerminateMechanismInv, ClearRunningInv, RenewInv, WaitedInv
       DEF StopperStep
  <1>4. CASE WorkersEnd \/ MechanismEnds \/ UNCHANGED vars
    BY <1>1, <1>4, EndsInv
  <1>5. QED
    BY <1>1, <1>2, <1>3, <1>4 DEF Next

\* The invariant of event_loop.cpp holds in every reachable state.
THEOREM Invariant == Spec => []IInv
  BY InitInv, NextInv, PTL DEF Spec

-----------------------------------------------------------------------------
(* The properties of the run *)

\* Every variable keeps its type; no call of loop() makes more than one promise.
THEOREM TypeCorrect == Spec => []TypeOK
  <1>1. IInv => TypeOK
    BY DEF IInv
  <1>2. QED
    BY <1>1, Invariant, PTL

\* ready() is set only while the workers and the mechanism run.
THEOREM ReadyIsRunning == Spec => []ReadyMeansRunning
  <1>1. ASSUME IInv
        PROVE  ReadyMeansRunning
    <2>1. SUFFICES ASSUME regular, ready, \A s \in Stopper : pc[s] \notin {"mechanisms", "running", "renew"}
                   PROVE  running /\ pool = "running" /\ ~ terminated /\ mechRunning /\ mech = "looping"
      BY DEF ReadyMeansRunning
    <2>2. RegularRun /\ PointsAgree
      BY <1>1, <2>1 DEF IInv
    <2>3. ~ Told
      BY <2>1 DEF Told
    <2>4. PICK l \in Looper : Looping(l)
      BY <2>2, <2>3 DEF RegularRun, Quiet
    <2>5. pc[l] = "futures" /\ mechRunning
      BY <2>1, <2>2, <2>3, <2>4 DEF RegularRun, OneAtATime, StartAgrees, RunAgrees, Looping, Starting, PointsAgree, LooperPoint
    <2>6. QED
      BY <2>1, <2>2, <2>5 DEF RegularRun, RunAgrees
  <1>2. QED
    BY <1>1, Invariant, PTL

\* When the future of terminate() is set nothing of the loop is left.
THEOREM EndIsQuiet == Spec => []EndedMeansQuiet
  <1>1. IInv => EndedMeansQuiet
    BY DEF IInv, RegularRun, EndedMeansQuiet, Quiet
  <1>2. QED
    BY <1>1, Invariant, PTL

\* No value of a promise is set twice, so that loop() throws nothing.
THEOREM PromisesSetOnce == Spec => []NeverThrows
  <1>1. IInv => NeverThrows
    BY DEF IInv, RegularRun, OneAtATime, NeverThrows
  <1>2. QED
    BY <1>1, Invariant, PTL

-----------------------------------------------------------------------------
(* What TerminateEndsLoop rests on: somebody can always go on              *)

\* Until a call has made its promise, the last one has its value.
Settled ==
    (\A l \in Looper : pc[l] \in {"idle", "promise"}) => promise = 0 \/ promise \in done

\* Nobody waits for the promise of a loop that is starting.
Fresh ==
    \A l \in Looper : pc[l] \in Starting \ {"assert", "promise"} =>
        \A s \in Stopper : future[s] # promise

\* Whoever waits for the promise of the present run has told pool and mechanism.
Awaited(s) ==
    pc[s] = "wait" /\ future[s] = promise =>
        promise = 0 \/ promise \in done \/ (terminated /\ ~ mechRunning)

\* A loop that waits for its mechanism has one.
MechanismMade == \A l \in Looper : pc[l] = "futures" => mech # "none"

EndInv ==
    /\ IInv
    /\ \A s \in Stopper : future[s] <= promise
    /\ \A h \in Handler : pc[h] # "wait"
    /\ regular => Settled /\ Fresh /\ MechanismMade /\ \A s \in Stopper : Awaited(s)

\* The threads that go on by themselves, and the pool and the mechanism.
LooperGoesOn(l) ==
    \/ pc[l] \in {"assert", "promise", "pool", "create", "ready", "finish"}
    \/ pc[l] = "initiate" /\ lock = None
    \/ pc[l] = "start" /\ mech # "looping"
    \/ pc[l] = "futures" /\ mech = "ended"
    \/ pc[l] = "join" /\ pool # "running"

StopperGoesOn(s) ==
    \/ pc[s] = "enter" /\ lock = None
    \/ pc[s] \in Locked
    \/ pc[s] = "wait" /\ (future[s] \in done \union {0} \/ future[s] # promise)

PoolGoesOn == pool = "running" /\ terminated /\ \A h \in Handler : pc[h] = "idle"

SomebodyGoesOn ==
    \/ \E l \in Looper : LooperGoesOn(l)
    \/ \E s \in Stopper : StopperGoesOn(s)
    \/ PoolGoesOn
    \/ mech = "looping" /\ ~ mechRunning

\* A loop is starting, ending or told to end, or somebody waits in terminate().
Under ==
    \/ \E l \in Looper : Looping(l) /\ (terminated \/ pc[l] # "futures")
    \/ \E s \in Stopper : pc[s] # "idle"

LEMMA EndInit == Init => EndInv
  <1>1. SUFFICES ASSUME Init PROVE EndInv
    OBVIOUS
  <1>2. IInv
    BY <1>1, InitInv
  <1>3. \A t \in Thread : pc[t] = "idle"
    BY <1>1 DEF Init
  <1>4. Handler \subseteq Stopper
    BY DEF Stopper
  <1>5. promise = 0 /\ \A s \in Stopper : future[s] = 0
    BY <1>1 DEF Init
  <1>6. QED
    BY <1>2, <1>3, <1>4, <1>5, ThreadFacts
       DEF EndInv, Settled, Fresh, MechanismMade, Awaited, Starting

\* The steps of loop().  A looper that calls comes from idle, so that the last promise
\* has its value; its new promise is one that nobody was given.
LEMMA LooperEnds ==
    ASSUME EndInv, NEW t \in Looper, Call(t) \/ CreateFails(t) \/ LooperStep(t), IInv'
    PROVE  EndInv'
  <1>1. /\ TypeOK /\ PointsAgree /\ PromisesCounted
        /\ t \in Thread
        /\ promise \in Nat
        /\ \A s \in Stopper : future[s] \in Nat /\ future[s] <= promise
        /\ Handler \subseteq Stopper
    BY ThreadFacts, ThreadAssumption DEF EndInv, IInv, TypeOK, Stopper
  <1>2. /\ \A u \in Thread : u # t => pc'[u] = pc[u]
        /\ \A s \in Stopper : pc'[s] = pc[s]
        /\ future' = future
        /\ regular' => regular
    <2>1. \A u \in Thread : u # t => pc'[u] = pc[u]
      <3>1. \E a, b : Go(t, a, b)
        BY DEF Call, CreateFails, LooperStep, Assert, NewPromise, InitiatePool, CreateWorkers,
           InitiateMechanism, StartMechanism, SetReady, WaitMechanism, JoinPool, Finish
      <3>2. QED
        BY <1>1, <3>1, GoFacts
    <2>2. future' = future
      BY DEF Call, CreateFails, LooperStep, Assert, NewPromise, InitiatePool, CreateWorkers,
         InitiateMechanism, StartMechanism, SetReady, WaitMechanism, JoinPool, Finish, endVars
    <2>3. regular' => regular
      <3>1. CASE Call(t)
        BY <3>1 DEF Call
      <3>2. CASE CreateFails(t) \/ LooperStep(t)
        BY <3>2 DEF CreateFails, LooperStep, Assert, NewPromise, InitiatePool, CreateWorkers,
           InitiateMechanism, StartMechanism, SetReady, WaitMechanism, JoinPool, Finish, histVars
      <3>3. QED
        BY <3>1, <3>2
    <2>4. QED
      BY <2>1, <2>2, <2>3, ThreadFacts
  <1>3. \A h \in Handler : pc'[h] # "wait"
    BY <1>1, <1>2 DEF EndInv
  <1>4. CASE NewPromise(t)
    <2>1. promise' = promise + 1 /\ pc'[t] = "pool" /\ mech' = mech /\ mechRunning' = mechRunning
      BY <1>1, <1>4 DEF NewPromise, Go, TypeOK, mechVars
    <2>2. \A s \in Stopper : future'[s] <= promise' /\ future'[s] # promise'
      BY <1>1, <1>2, <2>1
    <2>3. Settled' /\ Fresh' /\ \A s \in Stopper : Awaited(s)'
      BY <2>1, <2>2 DEF Settled, Fresh, Awaited
    <2>4. regular => MechanismMade'
      BY <1>1, <1>2, <2>1, ThreadFacts DEF MechanismMade, EndInv
    <2>5. QED
      BY <1>2, <1>3, <2>2, <2>3, <2>4 DEF EndInv
  <1>5. CASE ~ NewPromise(t)
    <2>1. promise' = promise /\ done \subseteq done'
      BY <1>5 DEF Call, CreateFails, LooperStep, Assert, InitiatePool, CreateWorkers,
         InitiateMechanism, StartMechanism, SetReady, WaitMechanism, JoinPool, Finish, endVars
    <2>2. \A s \in Stopper : future'[s] <= promise'
      BY <1>1, <1>2, <2>1
    <2>3. ASSUME regular'
          PROVE  Settled' /\ Fresh' /\ MechanismMade' /\ \A s \in Stopper : Awaited(s)'
      <3>1. /\ regular /\ Settled /\ Fresh /\ MechanismMade /\ \A s \in Stopper : Awaited(s)
            /\ RegularRun
        BY <1>2, <2>3 DEF EndInv, IInv
      <3>2. pc[t] # "assert" /\ (pc[t] = "ready" => mech = "looping") /\ (\A l \in Looper : pc'[l] # "assert")
        BY <2>3, <3>1 DEF RegularRun, OneAtATime, StartAgrees, EndInv, IInv
      <3>3. Settled'
        <4>1. SUFFICES ASSUME \A l \in Looper : pc'[l] \in {"idle", "promise"}
                       PROVE  promise \in done' \/ promise = 0
          BY <2>1 DEF Settled
        <4>2. CASE Finish(t)
          BY <4>2 DEF Finish
        <4>3. CASE ~ Finish(t)
          <5>1. Call(t)
            BY <1>1, <1>5, <2>3, <3>2, <4>1, <4>3
               DEF CreateFails, LooperStep, Assert, InitiatePool, CreateWorkers,
               InitiateMechanism, StartMechanism, SetReady, WaitMechanism, JoinPool, Go, TypeOK
          <5>2. pc[t] = "idle"
            BY <5>1 DEF Call, Go
          <5>3. \A l \in Looper : pc[l] \in {"idle", "promise"}
            BY <1>2, <4>1, <5>2, ThreadFacts
          <5>4. QED
            BY <2>1, <3>1, <5>3 DEF Settled
        <4>4. QED
          BY <4>2, <4>3
      <3>4. Fresh'
        <4>1. pc'[t] \in Starting \ {"assert", "promise"} => pc[t] \in Starting \ {"assert", "promise"}
          BY <1>1, <1>5, <3>2
             DEF Call, CreateFails, LooperStep, Assert, InitiatePool, CreateWorkers, Starting,
             InitiateMechanism, StartMechanism, SetReady, WaitMechanism, JoinPool, Finish, Go, TypeOK
        <4>2. QED
          BY <1>2, <2>1, <3>1, <4>1, ThreadFacts DEF Fresh
      <3>5. MechanismMade'
        <4>1. SUFFICES ASSUME NEW l \in Looper, pc'[l] = "futures"
                       PROVE  mech' # "none"
          BY DEF MechanismMade
        <4>2. mech # "none" /\ (mech' = mech \/ mech' = "looping")
          <5>1. mech' = mech \/ mech' = "looping"
            BY DEF Call, CreateFails, LooperStep, Assert, NewPromise, InitiatePool, CreateWorkers,
               InitiateMechanism, StartMechanism, SetReady, WaitMechanism, JoinPool, Finish, mechVars
          <5>2. CASE l # t
            BY <1>2, <3>1, <4>1, <5>1, <5>2, ThreadFacts DEF MechanismMade
          <5>3. CASE l = t
            <6>1. pc[t] = "ready"
              BY <1>1, <4>1, <5>3 DEF Call, CreateFails, LooperStep, Assert, NewPromise, InitiatePool,
                 CreateWorkers, InitiateMechanism, StartMechanism, SetReady, WaitMechanism, JoinPool,
                 Finish, Go, TypeOK
            <6>2. QED
              BY <3>2, <5>1, <6>1
          <5>4. QED
            BY <5>2, <5>3
        <4>3. QED
          BY <4>2
      <3>6. \A s \in Stopper : Awaited(s)'
        <4>1. SUFFICES ASSUME NEW s \in Stopper, pc[s] = "wait", future[s] = promise,
                              promise # 0, promise \notin done
                       PROVE  terminated' /\ ~ mechRunning'
          BY <1>2, <2>1 DEF Awaited
        <4>2. terminated /\ ~ mechRunning
          BY <3>1, <4>1 DEF Awaited
        <4>3. pc[t] \notin Starting \ {"assert", "promise"}
          BY <3>1, <4>1 DEF Fresh
        <4>4. terminated' = terminated /\ mechRunning' = mechRunning
          BY <1>1, <1>5, <4>3
             DEF Call, CreateFails, LooperStep, Assert, InitiatePool, CreateWorkers, Starting,
             InitiateMechanism, StartMechanism, SetReady, WaitMechanism, JoinPool, Finish, Go,
             poolVars, mechVars
        <4>5. QED
          BY <4>2, <4>4
      <3>7. QED
        BY <3>3, <3>4, <3>5, <3>6
    <2>4. QED
      BY <1>3, <2>2, <2>3 DEF EndInv
  <1>6. QED
    BY <1>4, <1>5

\* The steps of terminate().  Whoever is given the future of a run has told its pool
\* and its mechanism, as no loop() is starting then.
LEMMA StopperEnds ==
    ASSUME EndInv, NEW t \in Stopper, Terminate(t) \/ StopperStep(t), IInv'
    PROVE  EndInv'
  <1>1. /\ TypeOK /\ PointsAgree /\ PromisesCounted
        /\ t \in Thread
        /\ promise \in Nat
        /\ \A s \in Stopper : future[s] \in Nat /\ future[s] <= promise
        /\ Handler \subseteq Stopper
        /\ Handler \intersect Caller = {}
    BY ThreadFacts, ThreadAssumption DEF EndInv, IInv, TypeOK, Stopper
  <1>2. /\ \A u \in Thread : u # t => pc'[u] = pc[u]
        /\ \A l \in Looper : pc'[l] = pc[l]
        /\ promise' = promise /\ done' = done /\ mech' = mech
        /\ terminated => terminated'
        /\ mechRunning' => mechRunning
        /\ regular' => regular
        /\ pc'[t] = "wait" => Renew(t)
    BY <1>1, ThreadFacts DEF Terminate, StopperStep, TerminatePool, TerminateMechanism, ClearRunning, Renew,
       Waited, Go, TypeOK, endVars, poolVars, mechVars, histVars
  <1>3. \A s \in Stopper : future'[s] = future[s]
                            \/ (s = t /\ (Renew(t) \/ Waited(t)) /\ future'[s] \in {0, promise})
    BY <1>1 DEF Terminate, StopperStep, TerminatePool, TerminateMechanism, ClearRunning, Renew,
       Waited, TypeOK, endVars
  <1>4. \A s \in Stopper : future'[s] <= promise'
    BY <1>1, <1>2, <1>3
  <1>5. \A h \in Handler : pc'[h] # "wait"
    <2>1. SUFFICES ASSUME NEW h \in Handler, pc'[h] = "wait" PROVE FALSE
      OBVIOUS
    <2>2. h = t /\ Renew(t)
      BY <1>1, <1>2, <2>1, ThreadFacts DEF EndInv
    <2>3. QED
      BY <1>1, <2>1, <2>2 DEF Renew, Go, TypeOK
  <1>6. ASSUME regular'
        PROVE  Settled' /\ Fresh' /\ MechanismMade' /\ \A s \in Stopper : Awaited(s)'
    <2>1. /\ regular /\ Settled /\ Fresh /\ MechanismMade /\ \A s \in Stopper : Awaited(s)
          /\ RegularRun
      BY <1>2, <1>6 DEF EndInv, IInv
    <2>2. Settled' /\ MechanismMade'
      BY <1>2, <2>1 DEF Settled, MechanismMade
    <2>3. Fresh'
      <3>1. SUFFICES ASSUME NEW l \in Looper, pc[l] \in Starting \ {"assert", "promise"},
                            NEW s \in Stopper
                     PROVE  future'[s] # promise
        BY <1>2 DEF Fresh
      <3>2. future[s] # promise /\ ~ Renew(t)
        <4>1. ~ Stopping(t)
          BY <2>1, <3>1 DEF RegularRun, OneAtATime
        <4>2. QED
          BY <2>1, <3>1, <4>1 DEF Fresh, Stopping, Renew, Go
      <3>3. promise >= 1
        BY <1>1, <3>1 DEF PromisesCounted, Before, Starting
      <3>4. CASE future'[s] = future[s]
        BY <3>2, <3>4
      <3>5. CASE future'[s] # future[s]
        <4>1. Waited(t) /\ s = t
          BY <1>3, <3>2, <3>5
        <4>2. future'[s] = 0
          BY <1>1, <4>1 DEF Waited, TypeOK
        <4>3. QED
          BY <1>1, <3>3, <4>2
      <3>6. QED
        BY <3>4, <3>5
    <2>4. \A s \in Stopper : Awaited(s)'
      <3>1. SUFFICES ASSUME NEW s \in Stopper, pc'[s] = "wait", future'[s] = promise,
                            promise # 0, promise \notin done
                     PROVE  terminated' /\ ~ mechRunning'
        BY <1>2 DEF Awaited
      <3>2. CASE s # t
        <4>1. pc[s] = "wait" /\ future[s] = promise
          BY <1>2, <1>3, <3>1, <3>2, ThreadFacts
        <4>2. QED
          BY <1>2, <2>1, <3>1, <4>1 DEF Awaited
      <3>3. CASE s = t
        <4>1. pc[t] = "renew"
          BY <1>2, <3>1, <3>3 DEF Renew, Go
        <4>2. terminated /\ ~ mechRunning
          BY <2>1, <4>1 DEF RegularRun, StopperAgrees, Locked
        <4>3. QED
          BY <1>2, <4>2
      <3>4. QED
        BY <3>2, <3>3
    <2>5. QED
      BY <2>2, <2>3, <2>4
  <1>7. QED
    BY <1>4, <1>5, <1>6 DEF EndInv

LEMMA EndStep == EndInv /\ [Next]_vars => EndInv'
  <1>1. SUFFICES ASSUME EndInv, [Next]_vars PROVE EndInv'
    OBVIOUS
  <1>2. IInv'
    BY <1>1, NextInv DEF EndInv
  <1>3. ASSUME NEW t \in Looper, Call(t) \/ CreateFails(t) \/ LooperStep(t)
        PROVE  EndInv'
    BY <1>1, <1>2, <1>3, LooperEnds
  <1>4. ASSUME NEW t \in Stopper, Terminate(t) \/ StopperStep(t)
        PROVE  EndInv'
    BY <1>1, <1>2, <1>4, StopperEnds
  <1>5. CASE WorkersEnd \/ MechanismEnds \/ UNCHANGED vars
    <2>1. /\ pc' = pc /\ promise' = promise /\ done' = done /\ future' = future
          /\ regular' = regular /\ terminated' = terminated /\ mechRunning' = mechRunning
          /\ mech' = mech \/ mech' = "ended"
      BY <1>5 DEF WorkersEnd, MechanismEnds, vars, endVars, poolVars, mechVars, histVars
    <2>2. \A s \in Stopper : future'[s] <= promise'
      BY <1>1, <2>1 DEF EndInv
    <2>3. Settled => Settled'
      BY <2>1 DEF Settled
    <2>4. Fresh => Fresh'
      BY <2>1 DEF Fresh
    <2>5. MechanismMade => MechanismMade'
      BY <2>1 DEF MechanismMade
    <2>6. (\A s \in Stopper : Awaited(s)) => \A s \in Stopper : Awaited(s)'
      BY <2>1 DEF Awaited
    <2>7. QED
      BY <1>1, <1>2, <2>1, <2>2, <2>3, <2>4, <2>5, <2>6 DEF EndInv
  <1>6. QED
    BY <1>1, <1>3, <1>4, <1>5 DEF Next

LEMMA EndInvariance == Spec => []EndInv
  BY EndInit, EndStep, PTL DEF Spec

\* Whoever holds _lock goes on, so that waiting for it holds nobody up.
LEMMA LockGoesOn ==
    ASSUME EndInv, regular, lock # None
    PROVE  SomebodyGoesOn
  <1>1. lock \in Thread /\ LockAgrees /\ RegularRun
    BY DEF EndInv, IInv, TypeOK
  <1>2. CASE lock \in Stopper
    BY <1>1, <1>2 DEF LockAgrees, SomebodyGoesOn, StopperGoesOn
  <1>3. CASE lock \in Looper
    BY <1>1, <1>3 DEF LockAgrees, RegularRun, StartAgrees, SomebodyGoesOn, LooperGoesOn
  <1>4. QED
    BY <1>1, <1>2, <1>3 DEF Thread

\* A loop that was told to stop, or that is starting or ending, is not stuck.
LEMMA LoopGoesOn ==
    ASSUME EndInv, regular, NEW l \in Looper, Looping(l), terminated \/ pc[l] # "futures"
    PROVE  SomebodyGoesOn
  <1>1. SUFFICES ASSUME lock = None PROVE SomebodyGoesOn
    BY LockGoesOn
  <1>2. RegularRun /\ PointsAgree /\ MechanismMade /\ TypeOK
    BY DEF EndInv, IInv
  <1>3. CASE pc[l] \notin {"futures", "join"}
    BY <1>1, <1>2, <1>3 DEF PointsAgree, LooperPoint, Looping, SomebodyGoesOn, LooperGoesOn,
       RegularRun, StartAgrees
  <1>4. CASE pc[l] = "futures"
    <2>1. CASE mechRunning
      <3>1. PICK s \in Stopper : pc[s] = "mechanisms"
        BY <1>2, <1>4, <2>1 DEF RegularRun, RunAgrees
      <3>2. QED
        BY <3>1 DEF SomebodyGoesOn, StopperGoesOn, Locked
    <2>2. CASE ~ mechRunning
      <3>1. mech \in {"looping", "ended"}
        BY <1>2, <1>4 DEF MechanismMade, TypeOK
      <3>2. QED
        BY <1>4, <2>2, <3>1 DEF SomebodyGoesOn, LooperGoesOn
    <2>3. QED
      BY <2>1, <2>2
  <1>5. CASE pc[l] = "join"
    <2>1. terminated
      BY <1>2, <1>5 DEF RegularRun, RunAgrees
    <2>2. CASE pool # "running"
      BY <1>5, <2>2 DEF SomebodyGoesOn, LooperGoesOn
    <2>3. CASE pool = "running" /\ \A h \in Handler : pc[h] = "idle"
      BY <2>1, <2>3 DEF SomebodyGoesOn, PoolGoesOn
    <2>4. CASE \E h \in Handler : pc[h] # "idle"
      <3>1. PICK h \in Handler : pc[h] # "idle"
        BY <2>4
      <3>2. h \in Stopper /\ pc[h] \in {"enter"} \union Locked
        BY <1>2, <3>1 DEF EndInv, PointsAgree, StopperPoint, Stopper, Locked
      <3>3. QED
        BY <1>1, <3>2 DEF SomebodyGoesOn, StopperGoesOn
    <2>5. QED
      BY <2>2, <2>3, <2>4
  <1>6. QED
    BY <1>3, <1>4, <1>5

\* The safety part of TerminateEndsLoop: while a loop is starting, was told to stop or is
\* ending, or somebody is in terminate() or waits for the future it returned, some thread
\* of the program, the pool or the mechanism goes on by itself.  However loop() and any
\* number of terminate(), on workers too, interleave, they never all wait for one another.
THEOREM NoneIsStuck == Spec => [](regular /\ Under => SomebodyGoesOn)
  <1>1. ASSUME EndInv, regular, NEW s \in Stopper, pc[s] # "idle"
        PROVE  SomebodyGoesOn
    <2>1. SUFFICES ASSUME lock = None PROVE SomebodyGoesOn
      BY <1>1, LockGoesOn
    <2>2. PointsAgree /\ RegularRun /\ Settled /\ Awaited(s)
      BY <1>1 DEF EndInv, IInv
    <2>3. CASE pc[s] # "wait"
      BY <1>1, <2>1, <2>2, <2>3 DEF PointsAgree, StopperPoint, Locked, SomebodyGoesOn, StopperGoesOn
    <2>4. CASE pc[s] = "wait" /\ (future[s] \in done \union {0} \/ future[s] # promise)
      BY <2>4 DEF SomebodyGoesOn, StopperGoesOn
    <2>5. CASE pc[s] = "wait" /\ future[s] = promise /\ promise # 0 /\ promise \notin done
      <3>1. terminated
        BY <2>2, <2>5 DEF Awaited
      <3>2. PICK l \in Looper : pc[l] \notin {"idle", "promise"}
        BY <2>2, <2>5 DEF Settled
      <3>3. Looping(l)
        BY <2>2, <3>2 DEF RegularRun, OneAtATime, Looping
      <3>4. QED
        BY <1>1, <3>1, <3>3, LoopGoesOn
    <2>6. QED
      BY <2>3, <2>4, <2>5
  <1>2. EndInv => (regular /\ Under => SomebodyGoesOn)
    BY <1>1, LoopGoesOn DEF Under
  <1>3. QED
    BY <1>2, EndInvariance, PTL
=============================================================================
