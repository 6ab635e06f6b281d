------------------------------- MODULE Broker -------------------------------
(***************************************************************************)
(* core/src/message.cpp and core/include/mud/core/{message,object}.h: the  *)
(* notification broker.  One recursive mutex guards the subscriptions and  *)
(* is held for the whole of notify(), which calls the subscribers on a     *)
(* copy of the topic's list; a handler may call every operation of the     *)
(* broker again, may destroy objects, and may throw.  A list is modelled   *)
(* by how often it holds each method: nothing promises an order of calls,  *)
(* so notify() may call the methods of its copy in any order.              *)
(***************************************************************************)
EXTENDS Integers, Sequences, SequencesExt, FiniteSets

CONSTANTS
    Thread,     \* threads that use the broker
    Object,     \* addresses of mud::core::object instances
    Topic,      \* topic identifiers
    Member,     \* member functions that handle messages
    Static,     \* static and lambda functions that handle messages
    Null,       \* method::_object of a static function
    None,       \* no thread, no method
    MaxDepth,   \* bound: notify() calls nested in one thread
    MaxDup      \* bound: how often move assignments pile up one subscription

ASSUME DistinctAssumption ==
    /\ Null \notin Object
    /\ None \notin Thread \union Object \union {Null}
    /\ Member \intersect Static = {}
ASSUME BoundAssumption == MaxDepth \in Nat /\ MaxDup \in Nat

VARIABLES
    subs,       \* broker::_subscriptions
    owner,      \* the thread that holds broker::_mutex, or None
    count,      \* how often it holds it
    stack,      \* the notify() calls a thread is in, outermost first
    life,       \* what became of each object
    attached,   \* history: what the calls made so far asked to be notified
    assigned    \* history: an object has been move-assigned

vars == <<subs, owner, count, stack, life, attached>>
allVars == <<vars, assigned>>
lockVars == <<owner, count>>

Method ==
    [object : Object, func : Member] \union [object : {Null}, func : Static]

\* A std::vector of methods, up to the order of its elements.
Methods == [Method -> Nat]
NoMethods == [m \in Method |-> 0]

\* A notify() call: what is left of its copy, and the method it is in.
Idle == [object |-> None]
Frame == [todo : Methods, current : Method \union {Idle}]

\* "outside": destroyed by a thread that was in no handler; "inside": by a handler.
Life == {"unborn", "alive", "outside", "inside"}

\* _hashcode of a static function is that of std::function, whatever it wraps.
HashOf(m) == IF m.func \in Static THEN "static" ELSE m.func
Same(m, n) == m.object = n.object /\ HashOf(m) = HashOf(n)

Init ==
    /\ subs = [p \in Topic |-> NoMethods]
    /\ owner = None
    /\ count = 0
    /\ stack = [t \in Thread |-> <<>>]
    /\ life = [o \in Object |-> "unborn"]
    /\ attached = {}
    /\ assigned = FALSE

\* std::recursive_mutex: free, or held by the caller itself.
MayLock(t) == owner \in {None, t}
Top(t) == stack[t][Len(stack[t])]

\* A thread runs user code when it is in no notify(), or in a handler.
InHandler(t) == stack[t] # <<>> /\ Top(t).current # Idle
RunsUserCode(t) == stack[t] # <<>> => Top(t).current # Idle

Call(t) == RunsUserCode(t) /\ MayLock(t)
Usable(m) == m.object # Null => life[m.object] = "alive"

-----------------------------------------------------------------------------
(* Faulty variants of definitions below, used to test the properties *)

\* Does not look for the method first.
AttachAlways(t, p, m) ==
    /\ Call(t)
    /\ Usable(m)
    /\ subs[p][m] < MaxDup
    /\ subs' = [subs EXCEPT ![p][m] = @ + 1]
    /\ attached' = attached \union {[topic |-> p, method |-> m]}
    /\ UNCHANGED <<lockVars, stack, life>>

\* Erases an element that is not there.
EraseBlindly(c, m) == [c EXCEPT ![m] = @ - 1]

\* Detaches without the mutex.
DestroyUnlocked(t, o) ==
    /\ RunsUserCode(t)
    /\ life[o] = "alive"
    /\ subs' = [p \in Topic |->
                   [m \in Method |-> IF m.object = o THEN 0 ELSE subs[p][m]]]
    /\ attached' = {a \in attached : a.method.object # o}
    /\ life' = [life EXCEPT ![o] = IF InHandler(t) THEN "inside" ELSE "outside"]
    /\ UNCHANGED <<lockVars, stack>>

\* Releases the mutex however often it is held.
LeaveReleasing(t) ==
    /\ stack' = [stack EXCEPT ![t] = Front(@)]
    /\ count' = count - 1
    /\ owner' = None
    /\ UNCHANGED <<subs, life, attached>>

-----------------------------------------------------------------------------
(* Operations called by user code.  Each holds the mutex from its first to *)
(* its last statement, so it is one step of a thread that may lock.        *)

Attach(t, p, m) ==
    /\ Call(t)
    /\ Usable(m)
    /\ subs' = IF \E n \in Method : Same(n, m) /\ subs[p][n] > 0
               THEN subs
               ELSE [subs EXCEPT ![p][m] = 1]
    /\ attached' = attached \union {[topic |-> p, method |-> m]}
    /\ UNCHANGED <<lockVars, stack, life>>

\* The list without one element equal to m, if it has any.
Erase(c, m) == [c EXCEPT ![m] = IF @ > 0 THEN @ - 1 ELSE 0]

Detach(t, p, m) ==
    /\ Call(t)
    /\ Usable(m)
    /\ \E n \in Method :
          /\ Same(n, m)
          /\ subs[p][n] > 0 \/ \A k \in Method : Same(k, m) => subs[p][k] = 0
          /\ subs' = [subs EXCEPT ![p] = Erase(@, n)]
    /\ attached' = attached \ {[topic |-> p, method |-> m]}
    /\ UNCHANGED <<lockVars, stack, life>>

\* detach(obj), also called by the destructor of every object.
DetachAll(o) ==
    /\ subs' = [p \in Topic |->
                   [m \in Method |-> IF m.object = o THEN 0 ELSE subs[p][m]]]
    /\ attached' = {a \in attached : a.method.object # o}

DetachObject(t, o) ==
    /\ Call(t)
    /\ life[o] = "alive"
    /\ DetachAll(o)
    /\ UNCHANGED <<lockVars, stack, life>>

Construct(o) ==
    /\ life[o] = "unborn"
    /\ life' = [life EXCEPT ![o] = "alive"]
    /\ UNCHANGED <<subs, lockVars, stack, attached>>

\* A destructor that calls detach() first, as object.h recommends.
Destroy(t, o) ==
    /\ Call(t)
    /\ life[o] = "alive"
    /\ DetachAll(o)
    /\ life' = [life EXCEPT ![o] = IF InHandler(t) THEN "inside" ELSE "outside"]
    /\ UNCHANGED <<lockVars, stack>>

Redirect(m, src, dst) == IF m.object = src THEN [m EXCEPT !.object = dst] ELSE m
Moved(c, src, dst) ==
    [m \in Method |-> CASE m.object = src -> 0
                        [] m.object = dst -> c[m] + c[[m EXCEPT !.object = src]]
                        [] OTHER -> c[m]]

MoveAll(src, dst) ==
    /\ subs' = [p \in Topic |-> Moved(subs[p], src, dst)]
    /\ attached' = {[a EXCEPT !.method = Redirect(@, src, dst)] : a \in attached}

\* object(object&&): the destination is new, hence not subscribed to anything.
MoveConstruct(t, src, dst) ==
    /\ Call(t)
    /\ life[src] = "alive" /\ life[dst] = "unborn"
    /\ MoveAll(src, dst)
    /\ life' = [life EXCEPT ![dst] = "alive"]
    /\ UNCHANGED <<lockVars, stack>>

\* operator=(object&&): the destination may have subscriptions of its own.
MoveAssign(t, src, dst) ==
    /\ Call(t)
    /\ life[src] = "alive" /\ life[dst] = "alive"
    /\ src # dst
    /\ \A p \in Topic, m \in Method : Moved(subs[p], src, dst)[m] <= MaxDup
    /\ MoveAll(src, dst)
    /\ UNCHANGED <<lockVars, stack, life>>

-----------------------------------------------------------------------------
(* notify() *)

Publish(t, p) ==
    /\ Call(t)
    /\ Len(stack[t]) < MaxDepth
    /\ owner' = t
    /\ count' = count + 1
    /\ stack' = [stack EXCEPT ![t] = Append(@, [todo |-> subs[p], current |-> Idle])]
    /\ UNCHANGED <<subs, life, attached>>

Invoke(t, m) ==
    /\ stack[t] # <<>>
    /\ Top(t).current = Idle
    /\ Top(t).todo[m] > 0
    /\ stack' = [stack EXCEPT ![t][Len(stack[t])] =
                    [todo |-> Erase(Top(t).todo, m), current |-> m]]
    /\ UNCHANGED <<subs, lockVars, life, attached>>

HandlerReturns(t) ==
    /\ InHandler(t)
    /\ stack' = [stack EXCEPT ![t][Len(stack[t])].current = Idle]
    /\ UNCHANGED <<subs, lockVars, life, attached>>

\* Leaving notify() releases the mutex once.
Leave(t) ==
    /\ stack' = [stack EXCEPT ![t] = Front(@)]
    /\ count' = count - 1
    /\ owner' = IF count = 1 THEN None ELSE owner
    /\ UNCHANGED <<subs, life, attached>>

NotifyReturns(t) ==
    /\ stack[t] # <<>>
    /\ Top(t).current = Idle
    /\ Top(t).todo = NoMethods
    /\ Leave(t)

\* The exception leaves notify(); the handler that published may catch it.
HandlerThrows(t) ==
    /\ InHandler(t)
    /\ Leave(t)

-----------------------------------------------------------------------------

ThreadNext(t) ==
    \/ \E p \in Topic, m \in Method : Attach(t, p, m) \/ Detach(t, p, m)
    \/ \E o \in Object : DetachObject(t, o) \/ Destroy(t, o)
    \/ \E src, dst \in Object : MoveConstruct(t, src, dst)
    \/ \E p \in Topic : Publish(t, p)
    \/ \E m \in Method : Invoke(t, m)
    \/ HandlerReturns(t) \/ NotifyReturns(t) \/ HandlerThrows(t)

Basic ==
    \/ \E t \in Thread : ThreadNext(t)
    \/ \E o \in Object : Construct(o)

Assigning == \E t \in Thread, src, dst \in Object : MoveAssign(t, src, dst)

Next ==
    \/ Basic /\ UNCHANGED assigned
    \/ Assigning /\ assigned' = TRUE

Spec == Init /\ [][Next]_allVars

-----------------------------------------------------------------------------
(* Properties *)

StateTypeOK ==
    /\ subs \in [Topic -> Methods]
    /\ owner \in Thread \union {None}
    /\ count \in Nat
    /\ stack \in [Thread -> Seq(Frame)]
    /\ life \in [Object -> Life]
    /\ attached \subseteq [topic : Topic, method : Method]

TypeOK == StateTypeOK /\ assigned \in BOOLEAN

\* All handlers of the program are serialised: only the thread that owns the
\* mutex is in notify(), and it owns it once per nested call, also after
\* exceptions have unwound some of the calls.
Serialised ==
    /\ \A t \in Thread : stack[t] # <<>> => owner = t
    /\ owner # None => count = Len(stack[owner]) /\ count > 0
    /\ owner = None => count = 0

\* The methods a notify() in progress is in or will still call.
Mentions(f, o) ==
    f.current.object = o \/ \E m \in Method : m.object = o /\ f.todo[m] > 0

\* Destroying an object from outside every handler is a barrier: detach() waits
\* for the mutex, and afterwards no handler of the object runs or will run.
DestroyIsBarrier ==
    \A o \in Object : life[o] = "outside" =>
        \A t \in Thread : \A d \in DOMAIN stack[t] : ~ Mentions(stack[t][d], o)

\* Until an object is move-assigned, the list of a topic is what its callers
\* asked for: the member functions attached and not detached since, each once,
\* and never one of an object that is gone.
ListsMatch ==
    \A p \in Topic, m \in Method :
        m.object # Null =>
            /\ subs[p][m] = IF [topic |-> p, method |-> m] \in attached THEN 1 ELSE 0
            /\ subs[p][m] > 0 => life[m.object] = "alive"
MembersAgree == ~ assigned => ListsMatch
=============================================================================
