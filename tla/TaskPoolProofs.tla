--------------------------- MODULE TaskPoolProofs ---------------------------
(***************************************************************************)
(* Theorems about TaskPool for every set of tasks and workers: its type    *)
(* invariant, the safety invariants the runs check, that it implements     *)
(* TaskService, and that somebody can always go on.                        *)
(***************************************************************************)
EXTENDS TaskPool, FiniteSetTheorems, TLAPS

-----------------------------------------------------------------------------
(* Facts about the queue as a sequence *)

\* What Append does to the set of a sequence's elements and to its injectivity:
\* push() of a task that is not queued.
LEMMA AppendFacts ==
    ASSUME NEW S, NEW s \in Seq(S), NEW e \in S
    PROVE  /\ Append(s, e) \in Seq(S)
           /\ Len(Append(s, e)) = Len(s) + 1
           /\ Append(s, e) # <<>>
           /\ ToSet(Append(s, e)) = ToSet(s) \union {e}
           /\ IsInjective(s) /\ e \notin ToSet(s) => IsInjective(Append(s, e))
  <1>1. /\ DOMAIN s = 1 .. Len(s)
        /\ DOMAIN Append(s, e) = 1 .. (Len(s) + 1)
        /\ \A i \in 1 .. Len(s) : Append(s, e)[i] = s[i]
        /\ Append(s, e)[Len(s) + 1] = e
        /\ Len(s) \in Nat
    OBVIOUS
  <1>2. ToSet(Append(s, e)) = ToSet(s) \union {e}
    BY <1>1 DEF ToSet
  <1>3. IsInjective(s) /\ e \notin ToSet(s) => IsInjective(Append(s, e))
    BY <1>1 DEF ToSet, IsInjective
  <1>4. QED
    BY <1>1, <1>2, <1>3

\* What taking the head does: pop() and wait_pop() on a queue with tasks.
LEMMA TailFacts ==
    ASSUME NEW S, NEW s \in Seq(S), s # <<>>
    PROVE  /\ Head(s) \in S
           /\ Tail(s) \in Seq(S)
           /\ Len(Tail(s)) = Len(s) - 1
           /\ ToSet(s) = ToSet(Tail(s)) \union {Head(s)}
           /\ IsInjective(s) => IsInjective(Tail(s)) /\ Head(s) \notin ToSet(Tail(s))
  <1>1. /\ Len(s) \in Nat \ {0}
        /\ DOMAIN s = 1 .. Len(s)
        /\ Head(s) = s[1]
        /\ Tail(s) \in Seq(S)
        /\ Len(Tail(s)) = Len(s) - 1
        /\ DOMAIN Tail(s) = 1 .. (Len(s) - 1)
        /\ \A i \in 1 .. (Len(s) - 1) : Tail(s)[i] = s[i + 1]
        /\ Head(s) \in S
    OBVIOUS
  <1>2. ToSet(s) = ToSet(Tail(s)) \union {Head(s)}
    <2>1. ASSUME NEW i \in DOMAIN s
          PROVE  s[i] \in ToSet(Tail(s)) \union {Head(s)}
      <3>1. CASE i = 1
        BY <1>1, <3>1
      <3>2. CASE i # 1
        <4>1. i - 1 \in DOMAIN Tail(s) /\ Tail(s)[i - 1] = s[i]
          BY <1>1, <3>2
        <4>2. QED
          BY <4>1 DEF ToSet
      <3>3. QED
        BY <3>1, <3>2
    <2>2. ASSUME NEW i \in DOMAIN Tail(s)
          PROVE  Tail(s)[i] \in ToSet(s)
      BY <1>1 DEF ToSet
    <2>3. Head(s) \in ToSet(s)
      BY <1>1 DEF ToSet
    <2>4. QED
      BY <2>1, <2>2, <2>3 DEF ToSet
  <1>3. IsInjective(s) => IsInjective(Tail(s)) /\ Head(s) \notin ToSet(Tail(s))
    <2>1. SUFFICES ASSUME IsInjective(s)
                   PROVE  IsInjective(Tail(s)) /\ Head(s) \notin ToSet(Tail(s))
      OBVIOUS
    <2>2. \A i, j \in 1 .. Len(s) : s[i] = s[j] => i = j
      BY <2>1, <1>1 DEF IsInjective
    <2>3. IsInjective(Tail(s))
      BY <2>2, <1>1 DEF IsInjective
    <2>4. \A i \in 1 .. (Len(s) - 1) : Tail(s)[i] # Head(s)
      BY <2>2, <1>1
    <2>5. QED
      BY <2>3, <2>4, <1>1 DEF ToSet
  <1>4. QED
    BY <1>1, <1>2, <1>3

-----------------------------------------------------------------------------
(* The inductive invariant *)

\* _available says whether the queue holds a task: this is what makes the
\* predicate of wait_pop() mean what its comment says.
FlagAgrees == available <=> tasks # <<>>

\* A worker holds a task exactly while it executes it.
HandAgrees == \A w \in Worker : hand[w] # None <=> pc[w] = "run"

\* The pool holds the threads that were created and not yet joined.
PoolAgrees == \A w \in Worker : pc[w] = "idle" <=> w \notin pool

\* No thread sleeps on a queue that is terminated.
NoneAsleep == terminate => Blocked = {}

IInv ==
    /\ TypeOK
    /\ FlagAgrees
    /\ HandAgrees
    /\ PoolAgrees
    /\ NoneAsleep
    /\ PlacedOnce
    /\ WorkConserving

LEMMA InitInv == Init => IInv
  <1>1. SUFFICES ASSUME Init PROVE IInv
    OBVIOUS
  <1>2. TypeOK
    <2>1. available \in BOOLEAN /\ terminate \in BOOLEAN
      BY <1>1 DEF Init
    <2>2. /\ pc \in [Worker -> WorkerPoint]
          /\ hand \in [Worker -> Task \union {None}]
      BY <1>1 DEF Init, WorkerPoint
    <2>3. QED
      BY <1>1, <2>1, <2>2 DEF Init, TypeOK
  <1>3. FlagAgrees /\ HandAgrees /\ PoolAgrees /\ NoneAsleep
    BY <1>1 DEF Init, FlagAgrees, HandAgrees, PoolAgrees, NoneAsleep, Blocked
  <1>4. ToSet(tasks) = {} /\ IsInjective(tasks) /\ Held = {}
    BY <1>1 DEF Init, ToSet, IsInjective, Held
  <1>5. PlacedOnce /\ WorkConserving
    BY <1>1, <1>4 DEF Init, PlacedOnce, WorkConserving, Blocked
  <1>6. QED
    BY <1>2, <1>3, <1>5 DEF IInv

\* The tasks in hand after a step that leaves hand alone, fills one hand and
\* empties one.
LEMMA HeldFacts ==
    ASSUME TypeOK, HandAgrees, PlacedOnce
    PROVE  /\ hand' = hand => Held' = Held
           /\ \A w \in Worker, t \in Task :
                 pc[w] # "run" /\ hand' = [hand EXCEPT ![w] = t]
                     => Held' = Held \union {t}
           /\ \A w \in Worker :
                 pc[w] = "run" /\ hand' = [hand EXCEPT ![w] = None]
                     => /\ hand[w] \in Held
                        /\ Held' = Held \ {hand[w]}
  <1>1. hand' = hand => Held' = Held
    BY DEF Held
  <1>2. ASSUME NEW w \in Worker, NEW t \in Task,
               pc[w] # "run", hand' = [hand EXCEPT ![w] = t]
        PROVE  Held' = Held \union {t}
    <2>1. hand[w] = None /\ t # None
      BY <1>2, NoneAssumption DEF HandAgrees
    <2>2. \A v \in Worker : hand'[v] = IF v = w THEN t ELSE hand[v]
      BY <1>2 DEF TypeOK
    <2>3. QED
      BY <2>1, <2>2 DEF Held
  <1>3. ASSUME NEW w \in Worker,
               pc[w] = "run", hand' = [hand EXCEPT ![w] = None]
        PROVE  hand[w] \in Held /\ Held' = Held \ {hand[w]}
    <2>1. hand[w] # None
      BY <1>3 DEF HandAgrees
    <2>2. \A v \in Worker : hand'[v] = IF v = w THEN None ELSE hand[v]
      BY <1>3 DEF TypeOK
    <2>3. \A v \in Worker : hand[v] = hand[w] => v = w
      BY <2>1 DEF PlacedOnce
    <2>4. QED
      BY <2>1, <2>2, <2>3 DEF Held
  <1>4. QED
    BY <1>1, <1>2, <1>3

LEMMA HeldType == TypeOK => Held \subseteq Task
  BY DEF TypeOK, Held

\* Counting the workers on their way: what one worker joining or leaving them
\* does to their number.
LEMMA ComingFacts ==
    /\ IsFiniteSet(Coming) /\ IsFiniteSet(Coming')
    /\ Cardinality(Coming) \in Nat /\ Cardinality(Coming') \in Nat
    /\ Coming \subseteq Coming' => Cardinality(Coming) <= Cardinality(Coming')
    /\ \A w \in Worker \ Coming :
          Coming' = Coming \union {w} => Cardinality(Coming') = Cardinality(Coming) + 1
    /\ \A w \in Coming :
          Coming' = Coming \ {w} => Cardinality(Coming') = Cardinality(Coming) - 1
  <1>1. IsFiniteSet(Coming) /\ IsFiniteSet(Coming')
    BY WorkerAssumption, FS_Subset DEF Coming
  <1>2. Cardinality(Coming) \in Nat /\ Cardinality(Coming') \in Nat
    BY <1>1, FS_CardinalityType
  <1>3. Coming \subseteq Coming' => Cardinality(Coming) <= Cardinality(Coming')
    BY <1>1, FS_Subset
  <1>4. ASSUME NEW w \in Worker \ Coming, Coming' = Coming \union {w}
        PROVE  Cardinality(Coming') = Cardinality(Coming) + 1
    BY <1>1, <1>4, FS_AddElement
  <1>5. ASSUME NEW w \in Coming, Coming' = Coming \ {w}
        PROVE  Cardinality(Coming') = Cardinality(Coming) - 1
    BY <1>1, <1>5, FS_RemoveElement
  <1>6. QED
    BY <1>1, <1>2, <1>3, <1>4, <1>5

-----------------------------------------------------------------------------
(* Every step preserves the invariant *)

\* Steps that move no task keep every task in its place.
LEMMA PlacedUnmoved ==
    ASSUME IInv, UNCHANGED <<tasks, hand, finished, popped>>
    PROVE  PlacedOnce'
  BY HeldFacts DEF IInv, PlacedOnce, Held

LEMMA PushInv ==
    ASSUME IInv, NEW t \in Task, Push(t)
    PROVE  IInv'
  <1>1. TypeOK'
    <2>1. tasks' \in Seq(Task) /\ pc' \in [Worker -> WorkerPoint]
      BY AppendFacts DEF IInv, TypeOK, Push, Woken, WorkerPoint
    <2>2. available' \in BOOLEAN
      BY DEF Push
    <2>3. QED
      BY <2>1, <2>2 DEF IInv, TypeOK, Push
  <1>2. FlagAgrees'
    BY AppendFacts DEF IInv, TypeOK, FlagAgrees, Push
  <1>3. PICK S \in NotifyOne : pc' = Woken(S)
    BY DEF Push
  <1>4. S \subseteq Blocked /\ (Blocked # {} => \E w \in Blocked : S = {w})
    BY <1>3 DEF NotifyOne
  <1>5. \A w \in Worker : pc'[w] = IF w \in S THEN "wait" ELSE pc[w]
    BY <1>3 DEF Woken
  <1>6. HandAgrees' /\ PoolAgrees'
    BY <1>4, <1>5 DEF IInv, HandAgrees, PoolAgrees, Blocked, Push
  <1>7. Blocked' \subseteq Blocked
    BY <1>5 DEF Blocked
  <1>8. NoneAsleep'
    BY <1>7 DEF IInv, NoneAsleep, Push
  <1>9. PlacedOnce'
    <2>1. Held' = Held /\ t \notin ToSet(tasks) \union Held \union finished \union popped
      BY HeldFacts DEF IInv, Push, Known
    <2>2. ToSet(tasks') = ToSet(tasks) \union {t} /\ IsInjective(tasks')
      BY <2>1, AppendFacts DEF IInv, TypeOK, PlacedOnce, Push
    <2>3. QED
      BY <2>1, <2>2 DEF IInv, PlacedOnce, Push
  <1>10. WorkConserving'
    <2>1. SUFFICES ASSUME Blocked' # {}
                   PROVE  Len(tasks') <= Cardinality(Coming')
      BY DEF WorkConserving
    <2>2. PICK w \in Blocked : S = {w}
      BY <1>4, <1>7, <2>1
    <2>3. w \in Worker \ Coming /\ Coming' = Coming \union {w}
      BY <1>5, <2>2 DEF Blocked, Coming
    <2>4. Cardinality(Coming') = Cardinality(Coming) + 1 /\ Cardinality(Coming) \in Nat
      BY <2>3, ComingFacts
    <2>5. Len(tasks') = Len(tasks) + 1 /\ Len(tasks) \in Nat
      BY AppendFacts DEF IInv, TypeOK, Push
    <2>6. Len(tasks) <= Cardinality(Coming)
      BY <1>7, <2>1 DEF IInv, WorkConserving
    <2>7. QED
      BY <2>4, <2>5, <2>6
  <1>11. QED
    BY <1>1, <1>2, <1>6, <1>8, <1>9, <1>10 DEF IInv

LEMMA PopInv ==
    ASSUME IInv, Pop
    PROVE  IInv'
  <1>1. /\ tasks \in Seq(Task) /\ tasks # <<>>
        /\ Head(tasks) \in Task
        /\ tasks' \in Seq(Task)
        /\ Len(tasks') = Len(tasks) - 1
        /\ ToSet(tasks) = ToSet(tasks') \union {Head(tasks)}
        /\ IsInjective(tasks') /\ Head(tasks) \notin ToSet(tasks')
    BY TailFacts DEF IInv, TypeOK, PlacedOnce, Pop
  <1>2. available' \in BOOLEAN /\ FlagAgrees'
    BY DEF Pop, FlagAgrees
  <1>3. TypeOK'
    BY <1>1, <1>2 DEF IInv, TypeOK, Pop
  <1>4. HandAgrees' /\ PoolAgrees' /\ NoneAsleep'
    BY DEF IInv, HandAgrees, PoolAgrees, NoneAsleep, Blocked, Pop
  <1>5. PlacedOnce'
    BY <1>1, HeldFacts DEF IInv, PlacedOnce, Pop
  <1>6. WorkConserving'
    <2>1. Blocked' = Blocked /\ Coming' = Coming
      BY DEF Pop, Blocked, Coming
    <2>2. Len(tasks') <= Len(tasks) /\ Len(tasks) \in Nat /\ Len(tasks') \in Nat
      BY <1>1
    <2>3. QED
      BY <2>1, <2>2, ComingFacts DEF IInv, WorkConserving
  <1>7. QED
    BY <1>2, <1>3, <1>4, <1>5, <1>6 DEF IInv

\* What terminate() and a failed initiate() do to the threads.
LEMMA WakeAllInv ==
    ASSUME IInv, terminate' = TRUE, pc' = Woken(Blocked),
           UNCHANGED <<tasks, available, hand, finished, popped, pool>>,
           owner' \in {"out", "creating", "joining"}
    PROVE  IInv'
  <1>1. \A w \in Worker : pc'[w] = IF pc[w] = "blocked" THEN "wait" ELSE pc[w]
    BY DEF Woken, Blocked
  <1>2. TypeOK'
    <2>1. pc' \in [Worker -> WorkerPoint]
      BY DEF IInv, TypeOK, Woken, WorkerPoint
    <2>2. terminate' \in BOOLEAN /\ available' \in BOOLEAN
      BY DEF IInv, TypeOK
    <2>3. QED
      BY <2>1, <2>2 DEF IInv, TypeOK
  <1>3. Blocked' = {}
    BY <1>1 DEF Blocked
  <1>4. FlagAgrees' /\ NoneAsleep' /\ WorkConserving'
    BY <1>3 DEF IInv, FlagAgrees, NoneAsleep, WorkConserving
  <1>5. HandAgrees' /\ PoolAgrees'
    BY <1>1 DEF IInv, HandAgrees, PoolAgrees
  <1>6. QED
    BY <1>2, <1>4, <1>5, PlacedUnmoved DEF IInv

\* One worker moves between program points without touching a task; it neither
\* falls asleep nor leaves the workers on their way while somebody sleeps.
LEMMA WalkInv ==
    ASSUME IInv, NEW w \in Worker, NEW to \in WorkerPoint,
           pc[w] \notin {"idle", "run"}, to \notin {"idle", "run", "blocked"},
           pc' = [pc EXCEPT ![w] = to],
           to = "exit" => terminate,
           UNCHANGED <<queueVars, hand, finished, popped, pool, owner>>
    PROVE  IInv'
  <1>1. \A v \in Worker : pc'[v] = IF v = w THEN to ELSE pc[v]
    BY DEF IInv, TypeOK
  <1>2. TypeOK'
    <2>1. pc' \in [Worker -> WorkerPoint]
      BY DEF IInv, TypeOK
    <2>2. available' \in BOOLEAN /\ terminate' \in BOOLEAN
      BY DEF IInv, TypeOK, queueVars
    <2>3. QED
      BY <2>1, <2>2 DEF IInv, TypeOK, queueVars
  <1>3. Blocked' \subseteq Blocked
    BY <1>1 DEF Blocked
  <1>4. FlagAgrees' /\ NoneAsleep'
    BY <1>3 DEF IInv, FlagAgrees, NoneAsleep, queueVars
  <1>5. HandAgrees' /\ PoolAgrees'
    BY <1>1 DEF IInv, HandAgrees, PoolAgrees
  <1>6. WorkConserving'
    <2>1. SUFFICES ASSUME Blocked' # {}
                   PROVE  Len(tasks) <= Cardinality(Coming')
      BY DEF WorkConserving, queueVars
    <2>2. ~ terminate
      BY <1>3, <2>1 DEF IInv, NoneAsleep
    <2>3. Coming \subseteq Coming'
      BY <1>1, <2>2 DEF Coming, WorkerPoint
    <2>4. Len(tasks) <= Cardinality(Coming) /\ Len(tasks) \in Nat
      BY <1>3, <2>1 DEF IInv, WorkConserving, TypeOK
    <2>5. QED
      BY <2>3, <2>4, ComingFacts
  <1>7. QED
    BY <1>2, <1>4, <1>5, <1>6, PlacedUnmoved DEF IInv, queueVars

LEMMA WaitBlockInv ==
    ASSUME IInv, NEW w \in Worker, WaitBlock(w)
    PROVE  IInv'
  <1>1. \A v \in Worker : pc'[v] = IF v = w THEN "blocked" ELSE pc[v]
    BY DEF IInv, TypeOK, WaitBlock
  <1>2. TypeOK'
    <2>1. pc' \in [Worker -> WorkerPoint]
      BY DEF IInv, TypeOK, WaitBlock, WorkerPoint
    <2>2. available' \in BOOLEAN /\ terminate' \in BOOLEAN
      BY DEF IInv, TypeOK, WaitBlock, queueVars
    <2>3. QED
      BY <2>1, <2>2 DEF IInv, TypeOK, WaitBlock, queueVars
  <1>3. FlagAgrees' /\ NoneAsleep' /\ HandAgrees' /\ PoolAgrees'
    BY <1>1 DEF IInv, FlagAgrees, NoneAsleep, HandAgrees, PoolAgrees, WaitBlock,
                queueVars
  <1>4. WorkConserving'
    <2>1. Len(tasks') = 0
      BY DEF IInv, FlagAgrees, TypeOK, WaitBlock, queueVars
    <2>2. QED
      BY <2>1, ComingFacts DEF WorkConserving
  <1>5. QED
    BY <1>2, <1>3, <1>4, PlacedUnmoved DEF IInv, WaitBlock, queueVars

LEMMA WaitTakeInv ==
    ASSUME IInv, NEW w \in Worker, WaitTake(w)
    PROVE  IInv'
  <1>1. /\ tasks \in Seq(Task) /\ tasks # <<>>
        /\ Head(tasks) \in Task
        /\ tasks' \in Seq(Task)
        /\ Len(tasks) \in Nat
        /\ Len(tasks') = Len(tasks) - 1
        /\ ToSet(tasks) = ToSet(tasks') \union {Head(tasks)}
        /\ IsInjective(tasks') /\ Head(tasks) \notin ToSet(tasks')
    BY TailFacts DEF IInv, TypeOK, PlacedOnce, WaitTake
  <1>2. \A v \in Worker :
          /\ pc'[v] = IF v = w THEN "run" ELSE pc[v]
          /\ hand'[v] = IF v = w THEN Head(tasks) ELSE hand[v]
    BY DEF IInv, TypeOK, WaitTake
  <1>3. available' \in BOOLEAN /\ FlagAgrees'
    BY DEF WaitTake, FlagAgrees
  <1>4. TypeOK'
    <2>1. /\ pc' \in [Worker -> WorkerPoint]
          /\ hand' \in [Worker -> Task \union {None}]
      BY <1>1 DEF IInv, TypeOK, WaitTake, WorkerPoint
    <2>2. QED
      BY <1>1, <1>3, <2>1 DEF IInv, TypeOK, WaitTake
  <1>5. HandAgrees' /\ PoolAgrees' /\ NoneAsleep'
    BY <1>1, <1>2, NoneAssumption
       DEF IInv, HandAgrees, PoolAgrees, NoneAsleep, Blocked, WaitTake
  <1>6. PlacedOnce'
    <2>1. Head(tasks) \notin Held \union finished \union popped
      BY <1>1 DEF IInv, PlacedOnce
    <2>2. Held' = Held \union {Head(tasks)}
      BY <1>1, HeldFacts DEF IInv, WaitTake
    <2>3. \A v \in Worker : v # w => hand[v] # Head(tasks)
      BY <1>1, <2>1, NoneAssumption DEF Held
    <2>4. \A u, v \in Worker : hand'[u] = hand'[v] /\ hand'[u] # None => u = v
      BY <1>2, <2>3 DEF IInv, PlacedOnce
    <2>5. QED
      BY <1>1, <2>1, <2>2, <2>4 DEF IInv, PlacedOnce, WaitTake
  <1>7. WorkConserving'
    <2>1. Blocked' = Blocked
      BY <1>2 DEF Blocked, WaitTake
    <2>2. w \in Coming /\ Coming' = Coming \ {w}
      BY <1>2 DEF Coming, WaitTake
    <2>3. Cardinality(Coming') = Cardinality(Coming) - 1 /\ Cardinality(Coming) \in Nat
      BY <2>2, ComingFacts
    <2>4. QED
      BY <1>1, <2>1, <2>3 DEF IInv, WorkConserving
  <1>8. QED
    BY <1>3, <1>4, <1>5, <1>6, <1>7 DEF IInv

LEMMA WaitNothingInv ==
    ASSUME IInv, NEW w \in Worker, WaitNothing(w)
    PROVE  IInv'
  <1>1. available' = available
    BY DEF IInv, TypeOK, FlagAgrees, WaitNothing
  <1>2. QED
    BY <1>1, WalkInv DEF WaitNothing, WorkerPoint, queueVars

LEMMA ExecuteInv ==
    ASSUME IInv, NEW w \in Worker, Execute(w)
    PROVE  IInv'
  <1>1. \A v \in Worker :
          /\ pc'[v] = IF v = w THEN "check" ELSE pc[v]
          /\ hand'[v] = IF v = w THEN None ELSE hand[v]
    BY DEF IInv, TypeOK, Execute
  <1>2. hand[w] \in Held /\ Held' = Held \ {hand[w]} /\ hand[w] \in Task
    BY HeldFacts, HeldType DEF IInv, Execute
  <1>3. TypeOK'
    <2>1. /\ pc' \in [Worker -> WorkerPoint]
          /\ hand' \in [Worker -> Task \union {None}]
          /\ finished' \subseteq Task
      BY <1>2 DEF IInv, TypeOK, Execute, WorkerPoint
    <2>2. available' \in BOOLEAN /\ terminate' \in BOOLEAN
      BY DEF IInv, TypeOK, Execute, queueVars
    <2>3. QED
      BY <2>1, <2>2 DEF IInv, TypeOK, Execute, queueVars
  <1>4. FlagAgrees' /\ HandAgrees' /\ PoolAgrees' /\ NoneAsleep'
    BY <1>1 DEF IInv, FlagAgrees, HandAgrees, PoolAgrees, NoneAsleep, Blocked,
                Execute, queueVars
  <1>5. PlacedOnce'
    <2>1. \A u, v \in Worker : hand'[u] = hand'[v] /\ hand'[u] # None => u = v
      BY <1>1 DEF IInv, PlacedOnce
    <2>2. QED
      BY <1>2, <2>1 DEF IInv, PlacedOnce, Execute, queueVars
  <1>6. WorkConserving'
    <2>1. Blocked' = Blocked /\ Coming \subseteq Coming'
      BY <1>1 DEF Blocked, Coming, Execute
    <2>2. Len(tasks) \in Nat
      BY DEF IInv, TypeOK
    <2>3. QED
      BY <2>1, <2>2, ComingFacts DEF IInv, WorkConserving, Execute, queueVars
  <1>7. QED
    BY <1>3, <1>4, <1>5, <1>6 DEF IInv

LEMMA InitiateInv ==
    ASSUME IInv, Initiate
    PROVE  IInv'
  <1>1. TypeOK'
    <2>1. available' \in BOOLEAN /\ terminate' \in BOOLEAN
      BY DEF IInv, TypeOK, Initiate
    <2>2. QED
      BY <2>1 DEF IInv, TypeOK, Initiate
  <1>2. FlagAgrees' /\ HandAgrees' /\ PoolAgrees' /\ NoneAsleep'
    BY DEF IInv, FlagAgrees, HandAgrees, PoolAgrees, NoneAsleep, Initiate
  <1>3. WorkConserving'
    BY DEF IInv, WorkConserving, Blocked, Coming, Initiate
  <1>4. QED
    BY <1>1, <1>2, <1>3, PlacedUnmoved DEF IInv, Initiate

LEMMA CreateWorkerInv ==
    ASSUME IInv, NEW w \in Worker, CreateWorker(w)
    PROVE  IInv'
  <1>1. pc[w] = "idle" /\ \A v \in Worker : pc'[v] = IF v = w THEN "start" ELSE pc[v]
    BY DEF IInv, TypeOK, PoolAgrees, CreateWorker
  <1>2. TypeOK'
    <2>1. pc' \in [Worker -> WorkerPoint] /\ pool' \subseteq Worker
      BY DEF IInv, TypeOK, CreateWorker, WorkerPoint
    <2>2. available' \in BOOLEAN /\ terminate' \in BOOLEAN
      BY DEF IInv, TypeOK, CreateWorker, queueVars
    <2>3. QED
      BY <2>1, <2>2 DEF IInv, TypeOK, CreateWorker, queueVars
  <1>3. FlagAgrees' /\ HandAgrees' /\ PoolAgrees' /\ NoneAsleep'
    BY <1>1 DEF IInv, FlagAgrees, HandAgrees, PoolAgrees, NoneAsleep, Blocked,
                CreateWorker, queueVars
  <1>4. WorkConserving'
    <2>1. Blocked' = Blocked /\ Coming \subseteq Coming' /\ Len(tasks) \in Nat
      BY <1>1 DEF IInv, TypeOK, Blocked, Coming
    <2>2. QED
      BY <2>1, ComingFacts DEF IInv, WorkConserving, CreateWorker, queueVars
  <1>5. QED
    BY <1>2, <1>3, <1>4, PlacedUnmoved DEF IInv, CreateWorker, queueVars

\* Steps of the owner that touch neither the queue nor a thread.
LEMMA OwnerInv ==
    ASSUME IInv, UNCHANGED <<queueVars, pc, hand, finished, popped, pool>>,
           owner' \in {"out", "creating", "joining"}
    PROVE  IInv'
  <1>1. TypeOK'
    <2>1. available' \in BOOLEAN /\ terminate' \in BOOLEAN
      BY DEF IInv, TypeOK, queueVars
    <2>2. QED
      BY <2>1 DEF IInv, TypeOK, queueVars
  <1>2. FlagAgrees' /\ HandAgrees' /\ PoolAgrees' /\ NoneAsleep' /\ WorkConserving'
    BY DEF IInv, FlagAgrees, HandAgrees, PoolAgrees, NoneAsleep, WorkConserving,
           Blocked, Coming, queueVars
  <1>3. QED
    BY <1>1, <1>2, PlacedUnmoved DEF IInv, queueVars

LEMMA JoinAllInv ==
    ASSUME IInv, JoinAll
    PROVE  IInv'
  <1>1. \A v \in Worker : pc'[v] = "idle" /\ pc[v] \in {"idle", "exit"}
    BY DEF IInv, TypeOK, PoolAgrees, JoinAll
  <1>2. TypeOK'
    <2>1. pc' \in [Worker -> WorkerPoint] /\ pool' \subseteq Worker
      BY DEF IInv, TypeOK, JoinAll, WorkerPoint
    <2>2. available' \in BOOLEAN /\ terminate' \in BOOLEAN
      BY DEF IInv, TypeOK, JoinAll, queueVars
    <2>3. QED
      BY <2>1, <2>2 DEF IInv, TypeOK, JoinAll, queueVars
  <1>3. /\ FlagAgrees' /\ HandAgrees' /\ PoolAgrees' /\ NoneAsleep'
        /\ WorkConserving'
    BY <1>1 DEF IInv, FlagAgrees, HandAgrees, PoolAgrees, NoneAsleep, Blocked,
                WorkConserving, JoinAll, queueVars
  <1>4. QED
    BY <1>2, <1>3, PlacedUnmoved DEF IInv, JoinAll, queueVars

LEMMA NextInv == IInv /\ [Next]_vars => IInv'
  <1>1. SUFFICES ASSUME IInv, [Next]_vars
                 PROVE  IInv'
    OBVIOUS
  <1>2. CASE \E t \in Task : Push(t)
    BY <1>1, <1>2, PushInv
  <1>3. CASE Pop
    BY <1>1, <1>3, PopInv
  <1>4. CASE Terminate
    <2>1. owner' \in {"out", "creating", "joining"}
      BY <1>1, <1>4 DEF IInv, TypeOK, Terminate
    <2>2. QED
      BY <1>1, <1>4, <2>1, WakeAllInv DEF Terminate
  <1>5. ASSUME NEW w \in Worker, Started(w)
        PROVE  IInv'
    BY <1>1, <1>5, WalkInv DEF Started, WorkerPoint
  <1>6. ASSUME NEW w \in Worker, CheckTerminated(w)
        PROVE  IInv'
    <2>1. CASE terminate
      BY <1>1, <1>6, <2>1, WalkInv DEF CheckTerminated, WorkerPoint
    <2>2. CASE ~ terminate
      BY <1>1, <1>6, <2>2, WalkInv DEF CheckTerminated, WorkerPoint
    <2>3. QED
      BY <2>1, <2>2
  <1>7. ASSUME NEW w \in Worker, SpuriousWake(w)
        PROVE  IInv'
    BY <1>1, <1>7, WalkInv DEF SpuriousWake, WorkerPoint
  <1>8. CASE \E w \in Worker : Run(w) \/ SpuriousWake(w) \/ CreateWorker(w)
    BY <1>1, <1>5, <1>6, <1>7, <1>8, WaitBlockInv, WaitTakeInv, WaitNothingInv,
       ExecuteInv, CreateWorkerInv DEF Run
  <1>9. CASE Initiate
    BY <1>1, <1>9, InitiateInv
  <1>10. CASE CreateFails
    BY <1>1, <1>10, WakeAllInv DEF CreateFails
  <1>11. CASE AllReady \/ BeginWait
    BY <1>1, <1>11, OwnerInv DEF AllReady, BeginWait
  <1>12. CASE JoinAll
    BY <1>1, <1>12, JoinAllInv
  <1>13. CASE UNCHANGED vars
    <2>1. owner' \in {"out", "creating", "joining"}
      BY <1>1, <1>13 DEF IInv, TypeOK, vars
    <2>2. QED
      BY <1>1, <1>13, <2>1, OwnerInv DEF vars, queueVars
  <1>14. QED
    BY <1>1, <1>2, <1>3, <1>4, <1>8, <1>9, <1>10, <1>11, <1>12, <1>13 DEF Next

\* The invariant of task.h holds in every reachable state.
THEOREM Invariant == Spec => []IInv
  BY InitInv, NextInv, PTL DEF Spec

-----------------------------------------------------------------------------
(* The properties of the runs *)

\* Every variable keeps its type, for any set of tasks and of workers.
THEOREM TypeCorrect == Spec => []TypeOK
  <1>1. IInv => TypeOK
    BY DEF IInv
  <1>2. QED
    BY <1>1, Invariant, PTL

\* push() loses no wake-up: while a worker sleeps in wait_pop(), each queued task
\* has an awake worker on its way to it.
THEOREM NoLostWakeup == Spec => []WorkConserving
  <1>1. IInv => WorkConserving
    BY DEF IInv
  <1>2. QED
    BY <1>1, Invariant, PTL

\* A task is queued, in one hand, executed or popped, and only one of these.
THEOREM TasksPlacedOnce == Spec => []PlacedOnce
  <1>1. IInv => PlacedOnce
    BY DEF IInv
  <1>2. QED
    BY <1>1, Invariant, PTL

\* wait() returns to a pool with no thread and no task in hand.
THEOREM JoinIsBarrier == Spec => []JoinedMeansQuiet
  <1>1. IInv => JoinedMeansQuiet
    BY DEF IInv, JoinedMeansQuiet, PoolAgrees, HandAgrees, NoneAsleep
  <1>2. QED
    BY <1>1, Invariant, PTL

-----------------------------------------------------------------------------
(* The pool implements the service *)

LEMMA ServiceInit == Init => Service!Init
  <1>1. SUFFICES ASSUME Init PROVE Service!Init
    OBVIOUS
  <1>2. Held = {}
    BY <1>1 DEF Init, Held
  <1>3. QED
    BY <1>1, <1>2 DEF Init, Service!Init

LEMMA ServiceStep == IInv /\ [Next]_vars => [Service!Next]_Service!vars
  <1>1. SUFFICES ASSUME IInv, [Next]_vars
                 PROVE  [Service!Next]_Service!vars
    OBVIOUS
  <1>2. TypeOK /\ HandAgrees /\ PlacedOnce
    BY <1>1 DEF IInv
  <1>3. ASSUME UNCHANGED <<tasks, hand, finished, popped>>
        PROVE  UNCHANGED Service!vars
    BY <1>2, <1>3, HeldFacts DEF Service!vars
  <1>4. ASSUME NEW t \in Task, Push(t)
        PROVE  Service!Submit
    <2>1. Held' = Held
      BY <1>2, <1>4, HeldFacts DEF Push
    <2>2. t \in Task \ Service!Known
      BY <1>4 DEF Push, Known, Service!Known, ToSet, Service!ToSet
    <2>3. QED
      BY <1>4, <2>1, <2>2 DEF Push, Service!Submit
  <1>5. ASSUME Pop
        PROVE  Service!Withdraw
    <2>1. Held' = Held
      BY <1>2, <1>5, HeldFacts DEF Pop
    <2>2. QED
      BY <1>5, <2>1 DEF Pop, Service!Withdraw
  <1>6. ASSUME NEW w \in Worker, WaitTake(w)
        PROVE  Service!Start
    <2>1. Head(tasks) \in Task
      BY <1>2, <1>6, TailFacts DEF TypeOK, WaitTake
    <2>2. Held' = Held \union {Head(tasks)}
      BY <1>2, <1>6, <2>1, HeldFacts DEF WaitTake
    <2>3. QED
      BY <1>6, <2>2 DEF WaitTake, Service!Start
  <1>7. ASSUME NEW w \in Worker, Execute(w)
        PROVE  Service!Complete
    <2>1. hand[w] \in Held /\ Held' = Held \ {hand[w]}
      BY <1>2, <1>7, HeldFacts DEF Execute
    <2>2. QED
      BY <1>7, <2>1 DEF Execute, Service!Complete, queueVars
  <1>8. ASSUME NEW w \in Worker,
               \/ Started(w) \/ CheckTerminated(w) \/ WaitBlock(w)
               \/ WaitNothing(w) \/ SpuriousWake(w) \/ CreateWorker(w)
        PROVE  UNCHANGED <<tasks, hand, finished, popped>>
    BY <1>8 DEF Started, CheckTerminated, WaitBlock, WaitNothing, SpuriousWake,
                CreateWorker, queueVars
  <1>9. ASSUME \/ Terminate \/ Initiate \/ CreateFails \/ AllReady \/ BeginWait
               \/ JoinAll \/ UNCHANGED vars
        PROVE  UNCHANGED <<tasks, hand, finished, popped>>
    BY <1>9 DEF Terminate, Initiate, CreateFails, AllReady, BeginWait, JoinAll,
                vars, queueVars
  <1>10. QED
    BY <1>1, <1>3, <1>4, <1>5, <1>6, <1>7, <1>8, <1>9 DEF Next, Run, Service!Next

\* task.h is a FIFO service that starts every task at most once: each step of its
\* threads is a step of TaskService or invisible to it.
THEOREM Refinement == Spec => ServiceSpec
  BY ServiceInit, ServiceStep, Invariant, PTL
     DEF Spec, ServiceSpec, Service!Spec
-----------------------------------------------------------------------------
(* What QueuedRuns and WaitReturns rest on: somebody can always go on       *)

\* A worker that goes on by itself, without anybody's notify.
GoesOn(w) ==
    \/ pc[w] \in {"start", "check", "run"}
    \/ pc[w] = "wait" /\ (available \/ terminate)

\* A queue that is open, holds tasks and has a worker alive is never left with all of
\* them asleep, however push(), which notifies one thread, and pop() interleave with
\* their waking.
THEOREM WorkGoesOn ==
    Spec => [](tasks # <<>> /\ Alive /\ ~ terminate => \E w \in Worker : GoesOn(w))
  <1>1. ASSUME IInv, tasks # <<>>, Alive PROVE \E w \in Worker : GoesOn(w)
    <2>1. available
      BY <1>1 DEF IInv, FlagAgrees
    <2>2. PICK v \in Worker : pc[v] \in WorkerPoint \ {"idle", "exit"}
      BY <1>1 DEF Alive, IInv, TypeOK
    <2>3. CASE pc[v] # "blocked"
      BY <2>1, <2>2, <2>3 DEF GoesOn, WorkerPoint
    <2>4. CASE pc[v] = "blocked"
      <3>1. Len(tasks) <= Cardinality(Coming)
        BY <1>1, <2>4 DEF IInv, WorkConserving, Blocked
      <3>2. Len(tasks) \in Nat \ {0}
        BY <1>1 DEF IInv, TypeOK
      <3>3. Cardinality({}) = 0
        BY FS_EmptySet
      <3>4. Coming # {}
        <4>1. SUFFICES ASSUME Coming = {} PROVE FALSE
          OBVIOUS
        <4>2. Cardinality(Coming) = 0
          BY <3>3, <4>1
        <4>3. QED
          BY <3>1, <3>2, <4>2
      <3>5. QED
        BY <2>1, <3>4 DEF Coming, GoesOn
    <2>5. QED
      BY <2>3, <2>4
  <1>2. IInv => (tasks # <<>> /\ Alive /\ ~ terminate => \E w \in Worker : GoesOn(w))
    BY <1>1
  <1>3. QED
    BY <1>2, Invariant, PTL

\* After terminate() no thread that wait() joins is asleep: each has ended or goes on to
\* its end by itself, also those of a pool that initiate() left half made.
THEOREM JoinGoesOn ==
    Spec => [](owner = "joining" /\ terminate =>
                  \A w \in pool : GoesOn(w) \/ pc[w] = "exit")
  <1>1. IInv => (owner = "joining" /\ terminate =>
                    \A w \in pool : GoesOn(w) \/ pc[w] = "exit")
    <2>1. SUFFICES ASSUME IInv, terminate, NEW w \in pool
                   PROVE  GoesOn(w) \/ pc[w] = "exit"
      OBVIOUS
    <2>2. w \in Worker /\ pc[w] \in WorkerPoint
      BY <2>1 DEF IInv, TypeOK
    <2>3. pc[w] # "idle" /\ pc[w] # "blocked"
      BY <2>1, <2>2 DEF IInv, PoolAgrees, NoneAsleep, Blocked
    <2>4. QED
      BY <2>1, <2>2, <2>3 DEF GoesOn, WorkerPoint
  <1>2. QED
    BY <1>1, Invariant, PTL
=============================================================================
