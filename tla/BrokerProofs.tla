---------------------------- MODULE BrokerProofs ----------------------------
(***************************************************************************)
(* Theorems about Broker for any threads, objects, topics and bounds:      *)
(* handlers are serialised and destroying an object from outside the       *)
(* handlers is a barrier, with move assignments; and without them a list   *)
(* holds exactly the member functions its callers attached.                *)
(***************************************************************************)
EXTENDS Broker, TLAPS

\* No list holds a method of an object that is not alive.
SubsAlive ==
    \A p \in Topic, m \in Method :
        m.object # Null /\ subs[p][m] > 0 => life[m.object] = "alive"

IInv == StateTypeOK /\ Serialised /\ SubsAlive /\ DestroyIsBarrier

LEMMA MethodFacts ==
    \A m \in Method :
        /\ m.object \in Object \union {Null}
        /\ m.object = Null <=> m \in [object : {Null}, func : Static]
        /\ m.object # Null <=> m \in [object : Object, func : Member]
  BY DistinctAssumption DEF Method

LEMMA InitInv == Init => IInv
  <1>1. SUFFICES ASSUME Init PROVE IInv
    OBVIOUS
  <1>2. StateTypeOK
    <2>1. NoMethods \in Methods
      BY DEF NoMethods, Methods
    <2>2. QED
      BY <1>1, <2>1 DEF Init, StateTypeOK, Life
  <1>3. Serialised
    BY <1>1 DEF Init, Serialised
  <1>4. SubsAlive
    BY <1>1 DEF Init, SubsAlive, NoMethods
  <1>5. DestroyIsBarrier
    BY <1>1 DEF Init, DestroyIsBarrier
  <1>6. QED
    BY <1>2, <1>3, <1>4, <1>5 DEF IInv

-----------------------------------------------------------------------------
(* Operations that leave the calls of notify() alone *)

\* A subscription operation keeps the invariant if what it leaves in the lists
\* is typed and alive; an object leaves the living only by Destroy.
LEMMA SubscriptionInv ==
    ASSUME IInv, UNCHANGED <<lockVars, stack>>,
           subs' \in [Topic -> Methods],
           attached' \subseteq [topic : Topic, method : Method],
           life' \in [Object -> Life],
           \A o \in Object : life'[o] = "outside" => life[o] = "outside",
           SubsAlive'
    PROVE  IInv'
  <1>1. StateTypeOK'
    BY DEF IInv, StateTypeOK, lockVars
  <1>2. Serialised'
    BY DEF IInv, Serialised, lockVars
  <1>3. DestroyIsBarrier'
    BY DEF IInv, DestroyIsBarrier, Mentions
  <1>4. QED
    BY <1>1, <1>2, <1>3 DEF IInv

LEMMA AttachInv ==
    ASSUME IInv, NEW t \in Thread, NEW p \in Topic, NEW m \in Method, Attach(t, p, m)
    PROVE  IInv'
  <1>1. subs' \in [Topic -> Methods]
    BY DEF IInv, StateTypeOK, Methods, Attach
  <1>2. attached' \subseteq [topic : Topic, method : Method]
    BY DEF IInv, StateTypeOK, Attach
  <1>3. SubsAlive'
    <2>1. SUFFICES ASSUME NEW q \in Topic, NEW n \in Method,
                          n.object # Null, subs'[q][n] > 0
                   PROVE  life[n.object] = "alive"
      BY DEF SubsAlive, Attach
    <2>2. subs'[q][n] = subs[q][n] \/ n = m
      BY DEF IInv, StateTypeOK, Methods, Attach
    <2>3. QED
      BY <2>1, <2>2 DEF IInv, SubsAlive, Attach, Usable
  <1>4. QED
    BY <1>1, <1>2, <1>3, SubscriptionInv DEF Attach, IInv, StateTypeOK

\* Erasing leaves a list of methods, and no method more often than before.
LEMMA EraseFacts ==
    ASSUME NEW c \in Methods, NEW n \in Method
    PROVE  /\ Erase(c, n) \in Methods
           /\ \A m \in Method : Erase(c, n)[m] > 0 => c[m] > 0
           /\ \A m \in Method : m # n => Erase(c, n)[m] = c[m]
           /\ Erase(c, n)[n] = IF c[n] > 0 THEN c[n] - 1 ELSE 0
  BY DEF Erase, Methods

LEMMA DetachInv ==
    ASSUME IInv, NEW t \in Thread, NEW p \in Topic, NEW m \in Method, Detach(t, p, m)
    PROVE  IInv'
  <1>1. PICK n \in Method : subs' = [subs EXCEPT ![p] = Erase(@, n)]
    BY DEF Detach
  <1>2. subs[p] \in Methods
    BY DEF IInv, StateTypeOK
  <1>3. subs' \in [Topic -> Methods]
    BY <1>1, <1>2, EraseFacts DEF IInv, StateTypeOK
  <1>4. SubsAlive'
    <2>1. \A q \in Topic, k \in Method : subs'[q][k] > 0 => subs[q][k] > 0
      BY <1>1, <1>2, EraseFacts DEF IInv, StateTypeOK
    <2>2. QED
      BY <2>1 DEF IInv, SubsAlive, Detach
  <1>5. attached' \subseteq [topic : Topic, method : Method]
    BY DEF IInv, StateTypeOK, Detach
  <1>6. QED
    BY <1>3, <1>4, <1>5, SubscriptionInv DEF Detach, IInv, StateTypeOK

\* What detach(obj) leaves.
LEMMA DetachAllFacts ==
    ASSUME StateTypeOK, NEW o \in Object, DetachAll(o)
    PROVE  /\ subs' \in [Topic -> Methods]
           /\ attached' \subseteq [topic : Topic, method : Method]
           /\ \A p \in Topic, m \in Method :
                subs'[p][m] > 0 => m.object # o /\ subs[p][m] > 0
  <1>1. subs' \in [Topic -> Methods]
    BY DEF StateTypeOK, DetachAll, Methods
  <1>2. attached' \subseteq [topic : Topic, method : Method]
    BY DEF StateTypeOK, DetachAll
  <1>3. \A p \in Topic, m \in Method :
          subs'[p][m] > 0 => m.object # o /\ subs[p][m] > 0
    BY DEF DetachAll
  <1>4. QED
    BY <1>1, <1>2, <1>3

LEMMA DetachObjectInv ==
    ASSUME IInv, NEW t \in Thread, NEW o \in Object, DetachObject(t, o)
    PROVE  IInv'
  <1>1. StateTypeOK /\ DetachAll(o)
    BY DEF IInv, DetachObject
  <1>2. SubsAlive'
    BY <1>1, DetachAllFacts DEF IInv, SubsAlive, DetachObject
  <1>3. QED
    BY <1>1, <1>2, DetachAllFacts, SubscriptionInv DEF DetachObject, IInv, StateTypeOK

LEMMA ConstructInv ==
    ASSUME IInv, NEW o \in Object, Construct(o)
    PROVE  IInv'
  <1>1. /\ life' \in [Object -> Life]
        /\ \A x \in Object : life'[x] = IF x = o THEN "alive" ELSE life[x]
    BY DEF IInv, StateTypeOK, Construct, Life
  <1>2. SubsAlive'
    BY <1>1, MethodFacts DEF IInv, SubsAlive, Construct
  <1>3. QED
    BY <1>1, <1>2, SubscriptionInv DEF Construct, IInv, StateTypeOK, lockVars

\* The step the barrier is about: a thread in no handler destroys an object only
\* when nobody is in notify(), for it needs the mutex.
LEMMA DestroyInv ==
    ASSUME IInv, NEW t \in Thread, NEW o \in Object, Destroy(t, o)
    PROVE  IInv'
  <1>1. StateTypeOK /\ DetachAll(o)
    BY DEF IInv, Destroy
  <1>2. /\ life' \in [Object -> Life]
        /\ \A x \in Object :
             life'[x] = IF x = o THEN (IF InHandler(t) THEN "inside" ELSE "outside")
                        ELSE life[x]
    BY <1>1 DEF StateTypeOK, Destroy, Life
  <1>3. StateTypeOK'
    BY <1>1, <1>2, DetachAllFacts DEF StateTypeOK, Destroy, lockVars
  <1>4. Serialised'
    BY DEF IInv, Serialised, Destroy, lockVars
  <1>5. SubsAlive'
    BY <1>1, <1>2, DetachAllFacts, MethodFacts DEF IInv, SubsAlive
  <1>6. DestroyIsBarrier'
    <2>1. SUFFICES ASSUME NEW x \in Object, life'[x] = "outside",
                          NEW u \in Thread, NEW d \in DOMAIN stack[u]
                   PROVE  ~ Mentions(stack[u][d], x)
      BY DEF DestroyIsBarrier, Destroy, Mentions
    <2>2. CASE life[x] = "outside"
      BY <2>1, <2>2 DEF IInv, DestroyIsBarrier
    <2>3. CASE life[x] # "outside"
      <3>1. ~ InHandler(t)
        BY <1>2, <2>1, <2>3
      <3>2. stack[t] = <<>>
        BY <3>1 DEF Destroy, Call, RunsUserCode, InHandler
      <3>3. \A v \in Thread : stack[v] = <<>>
        <4>1. owner = None
          <5>1. Len(stack[t]) = 0
            BY <3>2
          <5>2. QED
            BY <5>1 DEF IInv, Serialised, Destroy, Call, MayLock
        <4>2. QED
          BY <4>1, DistinctAssumption DEF IInv, Serialised
      <3>4. QED
        BY <2>1, <3>3
    <2>4. QED
      BY <2>2, <2>3
  <1>7. QED
    BY <1>3, <1>4, <1>5, <1>6 DEF IInv

\* What redirecting a list to another object leaves.
LEMMA MoveAllFacts ==
    ASSUME StateTypeOK, NEW src \in Object, NEW dst \in Object, src # dst, MoveAll(src, dst)
    PROVE  /\ subs' \in [Topic -> Methods]
           /\ attached' \subseteq [topic : Topic, method : Method]
           /\ \A p \in Topic, m \in Method :
                /\ m.object = src => subs'[p][m] = 0
                /\ m.object = dst =>
                      /\ [m EXCEPT !.object = src] \in Method
                      /\ subs'[p][m] = subs[p][m] + subs[p][[m EXCEPT !.object = src]]
                /\ m.object \notin {src, dst} => subs'[p][m] = subs[p][m]
  <1>1. ASSUME NEW m \in Method, m.object \in Object, NEW o \in Object
        PROVE  /\ [m EXCEPT !.object = o] \in Method
               /\ [m EXCEPT !.object = o].object = o
    BY <1>1, DistinctAssumption DEF Method
  <1>2. \A p \in Topic : subs[p] \in Methods
    BY DEF StateTypeOK
  <1>3. ASSUME NEW p \in Topic
        PROVE  Moved(subs[p], src, dst) \in Methods
    <2>1. ASSUME NEW m \in Method, m.object = dst
          PROVE  subs[p][m] + subs[p][[m EXCEPT !.object = src]] \in Nat
      BY <1>1, <1>2, <2>1 DEF Methods
    <2>2. QED
      BY <1>2, <2>1 DEF Moved, Methods
  <1>4. subs' \in [Topic -> Methods]
    BY <1>3 DEF MoveAll
  <1>5. attached' \subseteq [topic : Topic, method : Method]
    <2>1. ASSUME NEW a \in [topic : Topic, method : Method]
          PROVE  [a EXCEPT !.method = Redirect(@, src, dst)]
                    \in [topic : Topic, method : Method]
      <3>1. Redirect(a.method, src, dst) \in Method
        BY <1>1 DEF Redirect
      <3>2. QED
        BY <3>1
    <2>2. QED
      BY <2>1 DEF StateTypeOK, MoveAll
  <1>6. ASSUME NEW p \in Topic, NEW m \in Method
        PROVE  /\ m.object = src => subs'[p][m] = 0
               /\ m.object = dst =>
                     /\ [m EXCEPT !.object = src] \in Method
                     /\ subs'[p][m] = subs[p][m] + subs[p][[m EXCEPT !.object = src]]
               /\ m.object \notin {src, dst} => subs'[p][m] = subs[p][m]
    BY <1>1 DEF MoveAll, Moved
  <1>7. QED
    BY <1>4, <1>5, <1>6

\* A move keeps the lists alive when the destination is alive afterwards.
LEMMA MoveSubsAlive ==
    ASSUME IInv, NEW src \in Object, NEW dst \in Object, src # dst,
           MoveAll(src, dst), life'[dst] = "alive",
           \A o \in Object : life[o] = "alive" => life'[o] = "alive"
    PROVE  SubsAlive'
  <1>1. SUFFICES ASSUME NEW p \in Topic, NEW m \in Method,
                        m.object # Null, subs'[p][m] > 0
                 PROVE  life'[m.object] = "alive"
    BY DEF SubsAlive
  <1>2. m.object \in Object /\ m.object # src
    BY <1>1, MethodFacts, MoveAllFacts DEF IInv
  <1>3. CASE m.object = dst
    BY <1>3
  <1>4. CASE m.object # dst
    BY <1>1, <1>2, <1>4, MoveAllFacts DEF IInv, SubsAlive
  <1>5. QED
    BY <1>3, <1>4

LEMMA MoveConstructInv ==
    ASSUME IInv, NEW t \in Thread, NEW src \in Object, NEW dst \in Object,
           MoveConstruct(t, src, dst)
    PROVE  IInv'
  <1>1. src # dst /\ MoveAll(src, dst)
    BY DEF MoveConstruct
  <1>2. /\ life' \in [Object -> Life]
        /\ \A x \in Object : life'[x] = IF x = dst THEN "alive" ELSE life[x]
    BY DEF IInv, StateTypeOK, MoveConstruct, Life
  <1>3. SubsAlive'
    BY <1>1, <1>2, MoveSubsAlive
  <1>4. QED
    BY <1>1, <1>2, <1>3, MoveAllFacts, SubscriptionInv DEF MoveConstruct, IInv

LEMMA MoveAssignInv ==
    ASSUME IInv, NEW t \in Thread, NEW src \in Object, NEW dst \in Object,
           MoveAssign(t, src, dst)
    PROVE  IInv'
  <1>1. src # dst /\ MoveAll(src, dst)
    BY DEF MoveAssign
  <1>2. life' \in [Object -> Life] /\ life'[dst] = "alive"
    BY DEF IInv, StateTypeOK, MoveAssign
  <1>3. SubsAlive'
    BY <1>1, <1>2, MoveSubsAlive DEF MoveAssign
  <1>4. QED
    BY <1>1, <1>2, <1>3, MoveAllFacts, SubscriptionInv DEF MoveAssign, IInv

-----------------------------------------------------------------------------
(* Steps of notify() *)

LEMMA PublishInv ==
    ASSUME IInv, NEW t \in Thread, NEW p \in Topic, Publish(t, p)
    PROVE  IInv'
  <1> DEFINE f == [todo |-> subs[p], current |-> Idle]
  <1>1. f \in Frame
    BY DEF IInv, StateTypeOK, Frame
  <1>2. /\ stack[t] \in Seq(Frame)
        /\ Len(stack[t]) \in Nat
        /\ Append(stack[t], f) \in Seq(Frame)
        /\ Len(Append(stack[t], f)) = Len(stack[t]) + 1
        /\ \A d \in DOMAIN Append(stack[t], f) :
             d # Len(stack[t]) + 1 =>
                d \in DOMAIN stack[t] /\ Append(stack[t], f)[d] = stack[t][d]
        /\ Append(stack[t], f)[Len(stack[t]) + 1] = f
    BY <1>1 DEF IInv, StateTypeOK
  <1>3. \A u \in Thread :
          stack'[u] = IF u = t THEN Append(stack[t], f) ELSE stack[u]
    BY DEF IInv, StateTypeOK, Publish
  <1> HIDE DEF f
  <1>4. StateTypeOK'
    <2>1. stack' \in [Thread -> Seq(Frame)]
      BY <1>2 DEF IInv, StateTypeOK, Publish, f
    <2>2. QED
      BY <2>1 DEF IInv, StateTypeOK, Publish
  <1>5. Serialised'
    <2>1. \A u \in Thread \ {t} : stack[u] = <<>>
      BY DistinctAssumption DEF IInv, Serialised, Publish, Call, MayLock
    <2>2. count = Len(stack[t])
      <3>1. CASE owner = t
        BY <3>1, DistinctAssumption DEF IInv, Serialised
      <3>2. CASE owner = None
        <4>1. stack[t] = <<>>
          BY <3>2, DistinctAssumption DEF IInv, Serialised
        <4>2. Len(stack[t]) = 0
          BY <4>1
        <4>3. QED
          BY <3>2, <4>2 DEF IInv, Serialised
      <3>3. QED
        BY <3>1, <3>2 DEF Publish, Call, MayLock
    <2>3. count' = Len(stack'[t]) /\ count' > 0 /\ owner' = t /\ owner' # None
      <3>1. stack'[t] = Append(stack[t], f)
        BY <1>3
      <3>2. Len(stack'[t]) = Len(stack[t]) + 1 /\ Len(stack[t]) \in Nat
        BY <1>2, <3>1
      <3>3. count' = count + 1 /\ owner' = t /\ t # None
        BY DistinctAssumption DEF Publish
      <3>4. QED
        BY <2>2, <3>2, <3>3
    <2>4. QED
      BY <1>3, <2>1, <2>3 DEF Serialised
  <1>6. SubsAlive'
    BY DEF IInv, SubsAlive, Publish
  <1>7. DestroyIsBarrier'
    <2>1. SUFFICES ASSUME NEW o \in Object, life[o] = "outside",
                          NEW u \in Thread, NEW d \in DOMAIN stack'[u]
                   PROVE  ~ Mentions(stack'[u][d], o)
      BY DEF DestroyIsBarrier, Publish, Mentions
    <2>2. ~ Mentions(f, o)
      BY <2>1, DistinctAssumption DEF IInv, SubsAlive, Mentions, Idle, f
    <2>3. CASE u # t
      BY <1>3, <2>1, <2>3 DEF IInv, DestroyIsBarrier
    <2>4. CASE u = t /\ d = Len(stack[t]) + 1
      BY <1>2, <1>3, <2>2, <2>4
    <2>5. CASE u = t /\ d # Len(stack[t]) + 1
      <3>0. stack'[t] = Append(stack[t], f)
        BY <1>3
      <3>1. d \in DOMAIN stack[t] /\ stack'[t][d] = stack[t][d]
        BY <1>2, <2>1, <2>5, <3>0
      <3>2. QED
        BY <2>1, <2>5, <3>1 DEF IInv, DestroyIsBarrier
    <2>6. QED
      BY <2>3, <2>4, <2>5
  <1>8. QED
    BY <1>4, <1>5, <1>6, <1>7 DEF IInv

\* Replacing the innermost call by one that mentions no further object.
LEMMA TopInv ==
    ASSUME IInv, NEW t \in Thread, NEW f \in Frame, stack[t] # <<>>,
           stack' = [stack EXCEPT ![t][Len(stack[t])] = f],
           UNCHANGED <<subs, lockVars, life, attached>>,
           \A o \in Object : Mentions(f, o) => Mentions(Top(t), o)
    PROVE  IInv'
  <1>1. /\ stack[t] \in Seq(Frame)
        /\ Len(stack[t]) \in Nat \ {0}
        /\ Len(stack[t]) \in DOMAIN stack[t]
    BY DEF IInv, StateTypeOK
  <1>2. /\ stack'[t] \in Seq(Frame)
        /\ Len(stack'[t]) = Len(stack[t])
        /\ DOMAIN stack'[t] = DOMAIN stack[t]
        /\ \A d \in DOMAIN stack[t] :
             stack'[t][d] = IF d = Len(stack[t]) THEN f ELSE stack[t][d]
    BY <1>1 DEF IInv, StateTypeOK
  <1>3. \A u \in Thread : u # t => stack'[u] = stack[u]
    BY DEF IInv, StateTypeOK
  <1>4. stack' \in [Thread -> Seq(Frame)]
    <2>1. DOMAIN stack' = Thread /\ stack' = [u \in Thread |-> stack'[u]]
      BY DEF IInv, StateTypeOK
    <2>2. \A u \in Thread : stack'[u] \in Seq(Frame)
      BY <1>2, <1>3 DEF IInv, StateTypeOK
    <2>3. QED
      BY <2>1, <2>2
  <1>5. StateTypeOK' /\ SubsAlive'
    BY <1>4 DEF IInv, StateTypeOK, SubsAlive, lockVars
  <1>6. Serialised'
    <2>1. \A u \in Thread : stack'[u] # <<>> => stack[u] # <<>>
      BY <1>3
    <2>2. owner # None => owner \in Thread /\ Len(stack'[owner]) = Len(stack[owner])
      BY <1>2, <1>3 DEF IInv, StateTypeOK
    <2>3. QED
      BY <2>1, <2>2 DEF IInv, Serialised, lockVars
  <1>7. DestroyIsBarrier'
    <2>1. SUFFICES ASSUME NEW o \in Object, life[o] = "outside",
                          NEW u \in Thread, NEW d \in DOMAIN stack'[u]
                   PROVE  ~ Mentions(stack'[u][d], o)
      BY DEF DestroyIsBarrier, Mentions
    <2>2. CASE u # t
      BY <1>3, <2>1, <2>2 DEF IInv, DestroyIsBarrier
    <2>3. CASE u = t
      <3>1. ~ Mentions(stack[t][d], o) /\ ~ Mentions(Top(t), o)
        BY <1>1, <1>2, <2>1, <2>3 DEF IInv, DestroyIsBarrier, Top
      <3>2. QED
        BY <1>2, <2>1, <2>3, <3>1
    <2>4. QED
      BY <2>2, <2>3
  <1>8. QED
    BY <1>5, <1>6, <1>7 DEF IInv

LEMMA InvokeInv ==
    ASSUME IInv, NEW t \in Thread, NEW m \in Method, Invoke(t, m)
    PROVE  IInv'
  <1> DEFINE f == [todo |-> Erase(Top(t).todo, m), current |-> m]
  <1>1. Top(t) \in Frame
    BY DEF IInv, StateTypeOK, Invoke, Top
  <1>2. Top(t).todo \in Methods
    BY <1>1 DEF Frame
  <1>3. f \in Frame
    BY <1>2, EraseFacts DEF Frame
  <1>4. ASSUME NEW o \in Object, Mentions(f, o)
        PROVE  Mentions(Top(t), o)
    BY <1>2, <1>4, EraseFacts DEF Mentions, Invoke
  <1>5. QED
    BY <1>3, <1>4, TopInv DEF Invoke

LEMMA HandlerReturnsInv ==
    ASSUME IInv, NEW t \in Thread, HandlerReturns(t)
    PROVE  IInv'
  <1> DEFINE f == [Top(t) EXCEPT !.current = Idle]
  <1>1. Top(t) \in Frame
    BY DEF IInv, StateTypeOK, HandlerReturns, InHandler, Top
  <1>2. f \in Frame
    BY <1>1 DEF Frame
  <1>3. stack' = [stack EXCEPT ![t][Len(stack[t])] = f]
    BY DEF HandlerReturns, Top
  <1>4. ASSUME NEW o \in Object, Mentions(f, o)
        PROVE  Mentions(Top(t), o)
    BY <1>1, <1>4, DistinctAssumption DEF Mentions, Frame, Idle
  <1>5. QED
    BY <1>2, <1>3, <1>4, TopInv DEF HandlerReturns, InHandler

\* A sequence without its last element.
LEMMA FrontFacts ==
    ASSUME NEW S, NEW s \in Seq(S), s # <<>>
    PROVE  /\ Front(s) \in Seq(S)
           /\ Len(s) \in Nat \ {0}
           /\ Len(Front(s)) = Len(s) - 1
           /\ Len(s) = 1 => Front(s) = <<>>
           /\ \A d \in DOMAIN Front(s) : d \in DOMAIN s /\ Front(s)[d] = s[d]
  <1>1. Len(s) \in Nat \ {0} /\ DOMAIN s = 1 .. Len(s)
    OBVIOUS
  <1>2. /\ Front(s) \in Seq(S)
        /\ Len(Front(s)) = Len(s) - 1
        /\ \A d \in 1 .. (Len(s) - 1) : Front(s)[d] = s[d]
    BY <1>1 DEF Front
  <1>3. DOMAIN Front(s) = 1 .. (Len(s) - 1)
    BY <1>2
  <1>4. Len(s) = 1 => Front(s) = <<>>
    BY <1>2
  <1>5. \A d \in DOMAIN Front(s) : d \in DOMAIN s /\ Front(s)[d] = s[d]
    BY <1>1, <1>2, <1>3
  <1>6. QED
    BY <1>1, <1>2, <1>4, <1>5

LEMMA LeaveInv ==
    ASSUME IInv, NEW t \in Thread, stack[t] # <<>>, Leave(t)
    PROVE  IInv'
  <1>1. stack[t] \in Seq(Frame)
    BY DEF IInv, StateTypeOK
  <1>2. \A u \in Thread : stack'[u] = IF u = t THEN Front(stack[t]) ELSE stack[u]
    BY DEF IInv, StateTypeOK, Leave
  <1>3. owner = t /\ t # None /\ count = Len(stack[t])
    BY DistinctAssumption DEF IInv, Serialised
  <1>4. /\ Len(stack[t]) \in Nat \ {0}
        /\ Len(stack'[t]) = Len(stack[t]) - 1
        /\ Len(stack[t]) = 1 => stack'[t] = <<>>
    BY <1>1, <1>2, FrontFacts
  <1>5. StateTypeOK'
    <2>1. stack' \in [Thread -> Seq(Frame)]
      BY <1>1, FrontFacts DEF IInv, StateTypeOK, Leave
    <2>2. count' \in Nat
      BY <1>3, <1>4 DEF Leave
    <2>3. QED
      BY <2>1, <2>2 DEF IInv, StateTypeOK, Leave
  <1>6. Serialised'
    <2>1. \A u \in Thread \ {t} : stack'[u] = <<>>
      BY <1>2, <1>3 DEF IInv, Serialised
    <2>2. CASE count = 1
      BY <1>3, <1>4, <2>1, <2>2 DEF Serialised, Leave
    <2>3. CASE count # 1
      <3>1. owner' = owner /\ count' = count - 1
        BY <2>3 DEF Leave
      <3>2. owner' = t
        BY <1>3, <3>1
      <3>3. Len(stack'[t]) = count - 1 /\ count \in Nat \ {0}
        BY <1>3, <1>4
      <3>4. count' = Len(stack'[t]) /\ count' > 0
        BY <2>3, <3>1, <3>3
      <3>5. QED
        BY <1>3, <2>1, <3>2, <3>4 DEF Serialised
    <2>4. QED
      BY <2>2, <2>3
  <1>7. SubsAlive'
    BY DEF IInv, SubsAlive, Leave
  <1>8. DestroyIsBarrier'
    <2>1. SUFFICES ASSUME NEW o \in Object, life[o] = "outside",
                          NEW u \in Thread, NEW d \in DOMAIN stack'[u]
                   PROVE  ~ Mentions(stack'[u][d], o)
      BY DEF DestroyIsBarrier, Mentions, Leave
    <2>2. d \in DOMAIN stack[u] /\ stack'[u][d] = stack[u][d]
      BY <1>1, <1>2, <2>1, FrontFacts
    <2>3. QED
      BY <2>1, <2>2 DEF IInv, DestroyIsBarrier
  <1>9. QED
    BY <1>5, <1>6, <1>7, <1>8 DEF IInv

LEMMA StutterInv ==
    ASSUME IInv, UNCHANGED vars
    PROVE  IInv'
  <1>1. SubsAlive'
    BY DEF IInv, SubsAlive, vars
  <1>2. QED
    BY <1>1, SubscriptionInv DEF IInv, StateTypeOK, vars, lockVars

LEMMA NextInv == IInv /\ [Basic \/ Assigning]_vars => IInv'
  <1>1. SUFFICES ASSUME IInv, [Basic \/ Assigning]_vars
                 PROVE  IInv'
    OBVIOUS
  <1>2. ASSUME NEW t \in Thread, NEW p \in Topic, NEW m \in Method,
               Attach(t, p, m) \/ Detach(t, p, m)
        PROVE  IInv'
    BY <1>1, <1>2, AttachInv, DetachInv
  <1>3. ASSUME NEW t \in Thread, NEW o \in Object, DetachObject(t, o) \/ Destroy(t, o)
        PROVE  IInv'
    BY <1>1, <1>3, DetachObjectInv, DestroyInv
  <1>4. ASSUME NEW t \in Thread, NEW src \in Object, NEW dst \in Object,
               MoveConstruct(t, src, dst) \/ MoveAssign(t, src, dst)
        PROVE  IInv'
    BY <1>1, <1>4, MoveConstructInv, MoveAssignInv
  <1>5. ASSUME NEW t \in Thread, NEW p \in Topic, Publish(t, p)
        PROVE  IInv'
    BY <1>1, <1>5, PublishInv
  <1>6. ASSUME NEW t \in Thread, NEW m \in Method, Invoke(t, m)
        PROVE  IInv'
    BY <1>1, <1>6, InvokeInv
  <1>7. ASSUME NEW t \in Thread,
               HandlerReturns(t) \/ NotifyReturns(t) \/ HandlerThrows(t)
        PROVE  IInv'
    BY <1>1, <1>7, HandlerReturnsInv, LeaveInv
       DEF NotifyReturns, HandlerThrows, InHandler
  <1>8. ASSUME NEW o \in Object, Construct(o)
        PROVE  IInv'
    BY <1>1, <1>8, ConstructInv
  <1>9. QED
    BY <1>1, <1>2, <1>3, <1>4, <1>5, <1>6, <1>7, <1>8, StutterInv
       DEF Basic, Assigning, ThreadNext

LEMMA StepForgets == [Next]_allVars => [Basic \/ Assigning]_vars
  BY DEF Next, allVars

THEOREM Invariant == Spec => []IInv
  BY InitInv, NextInv, StepForgets, PTL DEF Spec

\* Every variable keeps its type.
THEOREM TypeCorrect == Spec => []TypeOK
  <1>1. Init => TypeOK
    BY InitInv DEF IInv, Init, TypeOK
  <1>2. IInv' /\ TypeOK /\ [Next]_allVars => TypeOK'
    <2>1. ASSUME IInv', TypeOK, [Next]_allVars PROVE TypeOK'
      <3>1. assigned' \in BOOLEAN
        BY <2>1 DEF TypeOK, Next, allVars
      <3>2. StateTypeOK'
        BY <2>1 DEF IInv
      <3>3. QED
        BY <3>1, <3>2 DEF TypeOK
    <2>2. QED
      BY <2>1
  <1>3. QED
    BY <1>1, <1>2, Invariant, PTL DEF Spec

\* Only one thread of the program is in notify() at any time, and leaving it,
\* normally or by an exception, gives the mutex back exactly when the outermost
\* call ends.
THEOREM HandlersSerialised == Spec => []Serialised
  <1>1. IInv => Serialised
    BY DEF IInv
  <1>2. QED
    BY <1>1, Invariant, PTL

\* An object destroyed by a thread that is in no handler is never called again.
THEOREM DetachIsBarrier == Spec => []DestroyIsBarrier
  <1>1. IInv => DestroyIsBarrier
    BY DEF IInv
  <1>2. QED
    BY <1>1, Invariant, PTL

-----------------------------------------------------------------------------
(* Without move assignments the lists are what their callers asked for *)

\* Two methods on objects that attach() takes for the same are the same: the
\* hash of a member function tells it from every other.
LEMMA SameMember ==
    \A m, n \in Method : m.object # Null /\ Same(n, m) => n = m
  <1>1. SUFFICES ASSUME NEW m \in Method, NEW n \in Method, m.object # Null, Same(n, m)
                 PROVE  n = m
    OBVIOUS
  <1>2. /\ m \in [object : Object, func : Member]
        /\ n \in [object : Object, func : Member]
    BY <1>1, MethodFacts DEF Same
  <1>3. m.object = n.object /\ m.func = n.func
    BY <1>1, <1>2, DistinctAssumption DEF Same, HashOf
  <1>4. QED
    BY <1>2, <1>3

\* What ListsMatch says of one list and one member function.
LEMMA OneAgrees ==
    ASSUME ListsMatch, StateTypeOK, NEW p \in Topic, NEW m \in Method, m.object # Null
    PROVE  /\ subs[p][m] = IF [topic |-> p, method |-> m] \in attached THEN 1 ELSE 0
           /\ subs[p][m] > 0 => life[m.object] = "alive"
  BY DEF ListsMatch

LEMMA MembersStep == IInv /\ ListsMatch /\ [Basic]_vars => ListsMatch'
  <1>1. SUFFICES ASSUME IInv, ListsMatch, [Basic]_vars,
                        NEW p \in Topic, NEW m \in Method, m.object # Null
                 PROVE  /\ subs'[p][m] =
                              IF [topic |-> p, method |-> m] \in attached' THEN 1 ELSE 0
                        /\ subs'[p][m] > 0 => life'[m.object] = "alive"
    BY DEF ListsMatch
  <1> DEFINE a == [topic |-> p, method |-> m]
  <1>2. StateTypeOK /\ StateTypeOK' /\ SubsAlive'
    BY <1>1, NextInv DEF IInv
  <1>3. subs'[p][m] > 0 => life'[m.object] = "alive"
    BY <1>1, <1>2 DEF SubsAlive
  <1>4. SUFFICES subs'[p][m] = IF a \in attached' THEN 1 ELSE 0
    BY <1>3
  <1>5. subs[p][m] = IF a \in attached THEN 1 ELSE 0
    BY <1>1, <1>2, OneAgrees
  <1>6. m.object \in Object
    BY <1>1, MethodFacts
  <1>7. ASSUME NEW t \in Thread, NEW q \in Topic, NEW k \in Method, Attach(t, q, k)
        PROVE  subs'[p][m] = IF a \in attached' THEN 1 ELSE 0
    <2>1. attached' = attached \union {[topic |-> q, method |-> k]}
      BY <1>7 DEF Attach
    <2>2. CASE q = p /\ k = m
      <3>1. a \in attached'
        BY <2>1, <2>2
      <3>2. CASE \E n \in Method : Same(n, k) /\ subs[q][n] > 0
        <4>1. subs[p][m] > 0 /\ subs' = subs
          BY <1>1, <1>7, <2>2, <3>2, SameMember DEF Attach
        <4>2. QED
          BY <1>5, <3>1, <4>1
      <3>3. CASE ~ \E n \in Method : Same(n, k) /\ subs[q][n] > 0
        BY <1>2, <1>7, <2>2, <3>1, <3>3 DEF Attach, StateTypeOK, Methods
      <3>4. QED
        BY <3>2, <3>3
    <2>3. CASE ~ (q = p /\ k = m)
      <3>1. a \in attached' <=> a \in attached
        BY <2>1, <2>3
      <3>2. subs'[p][m] = subs[p][m]
        BY <1>2, <1>7, <2>3 DEF Attach, StateTypeOK, Methods
      <3>3. QED
        BY <1>5, <3>1, <3>2
    <2>4. QED
      BY <2>2, <2>3
  <1>8. ASSUME NEW t \in Thread, NEW q \in Topic, NEW k \in Method, Detach(t, q, k)
        PROVE  subs'[p][m] = IF a \in attached' THEN 1 ELSE 0
    <2>1. attached' = attached \ {[topic |-> q, method |-> k]}
      BY <1>8 DEF Detach
    <2>2. PICK n \in Method : Same(n, k) /\ subs' = [subs EXCEPT ![q] = Erase(@, n)]
      BY <1>8 DEF Detach
    <2>3. subs[q] \in Methods
      BY <1>2 DEF StateTypeOK
    <2>4. subs'[p] = IF q = p THEN Erase(subs[p], n) ELSE subs[p]
      BY <1>2, <2>2 DEF StateTypeOK
    <2>5. CASE q = p /\ k = m
      <3>1. n = m /\ a \notin attached'
        BY <1>1, <2>1, <2>2, <2>5, SameMember
      <3>2. QED
        BY <1>5, <2>3, <2>4, <2>5, <3>1, EraseFacts
    <2>6. CASE ~ (q = p /\ k = m)
      <3>1. a \in attached' <=> a \in attached
        BY <2>1, <2>6
      <3>2. q = p => n # m
        <4>1. SUFFICES ASSUME q = p, n = m PROVE FALSE
          OBVIOUS
        <4>2. k.object = m.object
          BY <2>2, <4>1 DEF Same
        <4>3. Same(m, k) /\ k.object # Null
          BY <1>1, <2>2, <4>1, <4>2
        <4>4. QED
          BY <2>6, <4>1, <4>3, SameMember
      <3>3. subs'[p][m] = subs[p][m]
        BY <2>3, <2>4, <3>2, EraseFacts
      <3>4. QED
        BY <1>5, <3>1, <3>3
    <2>7. QED
      BY <2>5, <2>6
  <1>9. ASSUME NEW o \in Object, DetachAll(o)
        PROVE  subs'[p][m] = IF a \in attached' THEN 1 ELSE 0
    BY <1>5, <1>9 DEF DetachAll
  <1>10. ASSUME NEW t \in Thread, NEW src \in Object, NEW dst \in Object,
                MoveConstruct(t, src, dst)
         PROVE  subs'[p][m] = IF a \in attached' THEN 1 ELSE 0
    <2>1. src # dst /\ MoveAll(src, dst) /\ life[dst] = "unborn"
      BY <1>10 DEF MoveConstruct
    <2>2. attached' = {[b EXCEPT !.method = Redirect(@, src, dst)] : b \in attached}
      BY <2>1 DEF MoveAll
    <2>3. attached \subseteq [topic : Topic, method : Method]
      BY <1>2 DEF StateTypeOK
    <2>4. CASE m.object = src
      <3>1. \A b \in attached : Redirect(b.method, src, dst) # m
        BY <2>1, <2>3, <2>4 DEF Redirect, Method
      <3>2. a \notin attached'
        BY <2>2, <2>3, <3>1
      <3>3. QED
        BY <1>2, <2>1, <2>4, <3>2, MoveAllFacts
    <2>5. CASE m.object = dst
      <3> DEFINE n == [m EXCEPT !.object = src]
                 b == [topic |-> p, method |-> n]
      <3>1. n \in Method /\ n.object = src /\ src # Null
        BY <1>2, <2>1, <2>5, DistinctAssumption, MoveAllFacts DEF Method
      <3>2. subs'[p][m] = subs[p][m] + subs[p][n]
        BY <1>2, <2>1, <2>5, MoveAllFacts
      <3>3. subs[p][m] = 0
        BY <1>1, <1>2, <1>5, <2>1, <2>5, OneAgrees
      <3>4. subs[p][n] = IF b \in attached THEN 1 ELSE 0
        BY <1>1, <1>2, <3>1, OneAgrees
      <3>5. b \in attached <=> a \in attached'
        <4>1. Redirect(n, src, dst) = m
          BY <2>5, <3>1 DEF Redirect, Method
        <4>2. b \in attached => a \in attached'
          <5>1. b.method = n
            OBVIOUS
          <5>2. [b EXCEPT !.method = Redirect(@, src, dst)] = a
            BY <4>1, <5>1
          <5>3. QED
            BY <2>2, <5>2
        <4>3. ASSUME NEW c \in attached, Redirect(c.method, src, dst) = m
              PROVE  c.method = n
          <5>1. c.method \in Method
            BY <2>3
          <5>2. CASE c.method.object = src
            BY <2>5, <4>3, <5>1, <5>2, <3>1 DEF Redirect, Method
          <5>3. CASE c.method.object # src
            <6>1. c.method = m
              BY <4>3, <5>3 DEF Redirect
            <6>2. [topic |-> c.topic, method |-> m] \in attached /\ c.topic \in Topic
              BY <2>3, <6>1
            <6>3. subs[c.topic][m] = 1
              BY <1>1, <1>2, <6>2, OneAgrees
            <6>4. QED
              BY <1>1, <1>2, <2>1, <2>5, <6>2, <6>3, OneAgrees
          <5>4. QED
            BY <5>2, <5>3
        <4>4. a \in attached' => b \in attached
          <5>1. SUFFICES ASSUME NEW c \in attached,
                                a = [c EXCEPT !.method = Redirect(@, src, dst)]
                         PROVE  b \in attached
            BY <2>2
          <5>2. c.topic = p /\ Redirect(c.method, src, dst) = m
            BY <2>3, <5>1
          <5>3. c.method = n
            BY <4>3, <5>2
          <5>4. QED
            BY <2>3, <5>2, <5>3
        <4>5. QED
          BY <4>2, <4>4
      <3>6. QED
        BY <3>2, <3>3, <3>4, <3>5
    <2>6. CASE m.object \notin {src, dst}
      <3>1. subs'[p][m] = subs[p][m]
        BY <1>2, <2>1, <2>6, MoveAllFacts
      <3>2. a \in attached => a \in attached'
        BY <2>2, <2>6 DEF Redirect
      <3>3. ASSUME NEW c \in attached, a = [c EXCEPT !.method = Redirect(@, src, dst)]
            PROVE  a \in attached
        <4>1. c \in [topic : Topic, method : Method]
          BY <2>3
        <4>2. c.topic = p /\ Redirect(c.method, src, dst) = m
          BY <3>3, <4>1
        <4>3. c.method = m
          BY <2>6, <4>1, <4>2 DEF Redirect, Method
        <4>4. QED
          BY <4>1, <4>2, <4>3
      <3>4. a \in attached <=> a \in attached'
        BY <2>2, <3>2, <3>3
      <3>5. QED
        BY <1>5, <3>1, <3>4
    <2>7. QED
      BY <2>4, <2>5, <2>6
  <1>11. ASSUME UNCHANGED <<subs, attached>>
         PROVE  subs'[p][m] = IF a \in attached' THEN 1 ELSE 0
    BY <1>5, <1>11
  <1>12. QED
    BY <1>1, <1>7, <1>8, <1>9, <1>10, <1>11
       DEF Basic, ThreadNext, DetachObject, Destroy, Construct, Publish, Invoke,
           HandlerReturns, NotifyReturns, HandlerThrows, Leave, vars

\* Until an object is move-assigned, a list holds exactly the member functions
\* that were attached and not detached, once each, and never one of an object
\* that is gone.
THEOREM ListsFaithful == Spec => []MembersAgree
  <1>1. Init => MembersAgree
    BY DEF Init, MembersAgree, ListsMatch, NoMethods
  <1>2. ASSUME IInv, MembersAgree, [Next]_allVars, ~ assigned' PROVE ListsMatch'
    <2>1. [Basic]_vars /\ ~ assigned
      BY <1>2 DEF Next, allVars
    <2>2. QED
      BY <1>2, <2>1, MembersStep DEF MembersAgree
  <1>3. IInv /\ MembersAgree /\ [Next]_allVars => MembersAgree'
    BY <1>2 DEF MembersAgree
  <1>4. QED
    BY <1>1, <1>3, Invariant, PTL DEF Spec
=============================================================================
