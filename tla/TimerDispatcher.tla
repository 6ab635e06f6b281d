-------------------------- MODULE TimerDispatcher --------------------------
(***************************************************************************)
(* core/src/timer.cpp, timer_impl.h and timer_dispatcher.cpp with the part *)
(* of the select loop that serves them.  A timer's type and expiration are *)
(* written by the thread that starts or stops it before it takes the       *)
(* dispatcher's mutex to change the list; the loop's thread reads the list *)
(* for its timeout and, when that has passed, signals the expired timers   *)
(* under the mutex.  A change of the list makes the "changed" event        *)
(* readable; a worker captures it and wakes the loop again.  Log levels,   *)
(* the epoch of a periodic timer (it is the time of its start here) and    *)
(* the identity of the expired message are left out.                       *)
(***************************************************************************)
EXTENDS Integers, Sequences, SequencesExt, FiniteSets

CONSTANTS
    User,       \* threads that start and stop timers
    Timer,      \* timer::impl objects
    None,
    Interval,   \* intervals of periodic and once-off timers
    MaxTime,    \* bound: the clock
    MaxCalls    \* bound: starts and stops

\* The clock goes on long enough for every interval to pass.
ASSUME TimerAssumption ==
    /\ MaxTime \in Nat /\ MaxCalls \in Nat
    /\ Interval \subseteq 1 .. MaxTime
    /\ None \notin Timer

VARIABLES
    now,        \* system_clock::now()
    kind,       \* timer::impl::_type
    interval,   \* timer::impl::_interval
    due,        \* timer::impl::_expiration
    list,       \* timer_dispatcher::_timers
    pc,         \* what a user thread does next
    call,       \* the timer::start(), at() or stop() it is in
    loop,       \* what the loop's thread does next
    epoch,      \* the time point dispatch() was given
    index,      \* its position in the list
    next,       \* the expiration on_expired() is about to store
    deadline,   \* when select() times out
    watched,    \* select() waits for the changed event
    changed,    \* bytes in the pipe of the changed event
    place,      \* where the changed event is: on the mechanism's list, in its task
    nops,       \* bytes in the mechanism's own pipe
    status,     \* history: what the last call for a timer made of it
    shots,      \* history: signals since a timer was last started, up to 2
    calls       \* history: starts and stops so far

timerVars == <<kind, interval, due>>
userVars == <<pc, call, status, calls>>
dispatchVars == <<epoch, index, next>>
wakeVars == <<deadline, watched, changed, place, nops>>
vars == <<now, timerVars, list, userVars, loop, dispatchVars, wakeVars, shots>>

Never == MaxTime + MaxTime + 1     \* time_point::max()
Time == 0 .. Never

Kind == {"UNKNOWN", "PERIODIC", "ONCE_OFF"}
Call == [timer : Timer, kind : Kind, interval : Interval \union {0}, due : Time]
UserPoint == {"idle", "type", "due", "list"}
LoopPoint == {"multiplex", "size", "begin", "select", "lock", "check", "store", "spend",
              "publish", "handler", "sort", "demultiplex", "crashed", "relock"}

Init ==
    /\ now = 0
    /\ kind = [t \in Timer |-> "UNKNOWN"]
    /\ interval = [t \in Timer |-> 0]
    /\ due = [t \in Timer |-> Never]
    /\ list = <<>>
    /\ pc = [u \in User |-> "idle"]
    /\ call = [u \in User |-> None]
    /\ loop = "multiplex"
    /\ epoch = 0
    /\ index = 1
    /\ next = 0
    /\ deadline = Never
    /\ watched = FALSE
    /\ changed = 0
    /\ place = "listed"
    /\ nops = 0
    /\ status = [t \in Timer |-> "UNKNOWN"]
    /\ shots = [t \in Timer |-> 0]
    /\ calls = 0

\* dispatch() holds the mutex for its whole length; insert(), remove() and
\* wait_duration() for one step.
Dispatching == loop \in {"check", "store", "spend", "publish", "handler", "sort", "relock"}
Current == list[index]

\* sort(): drops the inactive timers, then orders the others by expiration, those
\* that expire together in any order, as std::sort() may.
Ordered(s) == IsSorted(s, LAMBDA a, b : due[a] <= due[b])
Sorted(s) ==
    LET kept == {i \in DOMAIN s : kind[s[i]] # "UNKNOWN"}
        size == Cardinality(kept)
    IN  {r \in {[i \in 1 .. size |-> s[p[i]]] : p \in Bijection(1 .. size, kept)} : Ordered(r)}

\* What insert() and remove() make of the list.
Changed(c) ==
    Sorted(IF c.kind = "UNKNOWN" THEN RemoveFirst(list, c.timer) ELSE Append(list, c.timer))

\* The return of a call.
Return(u) ==
    /\ pc' = [pc EXCEPT ![u] = "idle"]
    /\ call' = [call EXCEPT ![u] = None]
    /\ status' = [status EXCEPT ![call[u].timer] = call[u].kind]
    /\ UNCHANGED <<now, timerVars, calls, loop, dispatchVars, deadline, watched, place, nops,
                   shots>>

-----------------------------------------------------------------------------
(* Faulty variants of definitions below, used to test the properties *)

\* insert() and remove() that give up when the mutex is taken.
ChangeImpatient(u) ==
    /\ pc[u] = "list"
    /\ list' \in IF Dispatching THEN {list} ELSE Changed(call[u])
    /\ changed' = changed + 1
    /\ Return(u)

\* insert() and remove() without trigger().
ChangeSilently(u) ==
    /\ pc[u] = "list"
    /\ ~ Dispatching
    /\ list' \in Changed(call[u])
    /\ changed' = changed
    /\ Return(u)

\* The task of the changed event ends without adding the event again.
ReAddNothing ==
    /\ place = "captured"
    /\ place' = "lost"
    /\ UNCHANGED <<now, timerVars, list, userVars, loop, dispatchVars, deadline, watched,
                   changed, nops, shots>>

\* Counts a byte of the own pipe as read in every round.
DemultiplexBlindly ==
    /\ loop = "demultiplex"
    /\ loop' = "multiplex"
    /\ watched' = FALSE
    /\ nops' = nops - 1
    /\ place' = IF watched /\ changed > 0 THEN "task" ELSE place
    /\ UNCHANGED <<now, timerVars, list, userVars, dispatchVars, deadline, changed,
                   shots>>

\* Counts the next expiration from the time of the dispatch.
AdvancedFromEpoch(base, i) == IF base >= epoch THEN base ELSE epoch + i

-----------------------------------------------------------------------------
(* timer::start(), at() and stop() *)

\* One thread at a time uses a timer.
Begin(u, c) ==
    /\ pc[u] = "idle"
    /\ calls < MaxCalls
    /\ status[c.timer] # "busy"
    /\ pc' = [pc EXCEPT ![u] = "type"]
    /\ call' = [call EXCEPT ![u] = c]
    /\ status' = [status EXCEPT ![c.timer] = "busy"]
    /\ shots' = [shots EXCEPT ![c.timer] = 0]
    /\ calls' = calls + 1
    /\ UNCHANGED <<now, timerVars, list, loop, dispatchVars, wakeVars>>

StartPeriodic(u, t, i) ==
    Begin(u, [timer |-> t, kind |-> "PERIODIC", interval |-> i, due |-> now + i])

\* at() with an interval or a time point, which may have passed when the timer
\* is inserted.
StartOnceOff(u, t, i) ==
    Begin(u, [timer |-> t, kind |-> "ONCE_OFF", interval |-> 0, due |-> now + i])

Stop(u, t) ==
    Begin(u, [timer |-> t, kind |-> "UNKNOWN", interval |-> interval[t], due |-> Never])

WriteType(u) ==
    LET t == call[u].timer
    IN  /\ pc[u] = "type"
        /\ kind' = [kind EXCEPT ![t] = call[u].kind]
        /\ interval' = [interval EXCEPT ![t] = call[u].interval]
        /\ pc' = [pc EXCEPT ![u] = "due"]
        /\ UNCHANGED <<now, due, list, call, status, calls, loop, dispatchVars, wakeVars, shots>>

\* start() takes the timer's spin lock, stop() does not.
WriteDue(u) ==
    LET t == call[u].timer
    IN  /\ pc[u] = "due"
        /\ call[u].kind # "UNKNOWN" => ~ (loop = "store" /\ Current = t)
        /\ due' = [due EXCEPT ![t] = call[u].due]
        /\ pc' = [pc EXCEPT ![u] = "list"]
        /\ UNCHANGED <<now, kind, interval, list, call, status, calls, loop, dispatchVars,
                       wakeVars, shots>>

\* insert() and remove(): one step under the mutex, with sort() and trigger().
ChangeList(u) ==
    /\ pc[u] = "list"
    /\ ~ Dispatching
    /\ list' \in Changed(call[u])
    /\ changed' = changed + 1
    /\ Return(u)

-----------------------------------------------------------------------------
(* The loop's thread: select_mechanism::loop() as far as timers go.  Its    *)
(* locals are reset when they go out of scope.                             *)

Tick ==
    /\ now < MaxTime
    /\ now' = now + 1
    /\ UNCHANGED <<timerVars, list, userVars, loop, dispatchVars, wakeVars, shots>>

Multiplex ==
    /\ loop = "multiplex"
    /\ loop' = "size"
    /\ watched' = (place = "listed")
    /\ UNCHANGED <<now, timerVars, list, userVars, dispatchVars, deadline, changed, place,
                   nops, shots>>

\* wait_duration(): the size is read before the mutex is taken.
WaitSize ==
    /\ loop = "size"
    /\ \/ list = <<>> /\ loop' = "select" /\ deadline' = Never
       \/ list # <<>> /\ loop' = "begin" /\ UNCHANGED deadline
    /\ UNCHANGED <<now, timerVars, list, userVars, dispatchVars, watched, changed, place,
                   nops, shots>>

\* Dereferencing begin() of a list emptied since finds the pointer to a removed
\* timer, or memory that is no pointer any more.
WaitBegin ==
    /\ loop = "begin"
    /\ \/ list # <<>> /\ loop' = "select" /\ deadline' = due[list[1]]
       \/ list = <<>> /\ loop' = "select" /\ \E t \in Timer : deadline' = due[t]
       \/ list = <<>> /\ loop' = "crashed" /\ UNCHANGED deadline
    /\ UNCHANGED <<now, timerVars, list, userVars, dispatchVars, watched, changed, place,
                   nops, shots>>

Signalled == nops > 0 \/ (watched /\ changed > 0)

\* Woken by the mechanism's own pipe or the changed event.
SelectReady ==
    /\ loop = "select"
    /\ Signalled
    /\ loop' = "demultiplex"
    /\ deadline' = Never
    /\ UNCHANGED <<now, timerVars, list, userVars, dispatchVars, watched, changed, place, nops,
                   shots>>

\* Woken by some other event of the loop.
SelectOther ==
    /\ loop = "select"
    /\ loop' = "demultiplex"
    /\ deadline' = Never
    /\ UNCHANGED <<now, timerVars, list, userVars, dispatchVars, watched, changed, place, nops,
                   shots>>

\* on_expired(): dispatch(now), with the broker's mutex held.
SelectTimeout ==
    /\ loop = "select"
    /\ ~ Signalled
    /\ deadline <= now
    /\ loop' = "lock"
    /\ epoch' = now
    /\ deadline' = Never
    /\ UNCHANGED <<now, timerVars, list, userVars, index, next, watched, changed, place, nops,
                   shots>>

\* One byte of the own pipe is read; the changed event becomes a task.
Demultiplex ==
    /\ loop = "demultiplex"
    /\ loop' = "multiplex"
    /\ watched' = FALSE
    /\ nops' = IF nops > 0 THEN nops - 1 ELSE 0
    /\ place' = IF watched /\ changed > 0 THEN "task" ELSE place
    /\ UNCHANGED <<now, timerVars, list, userVars, dispatchVars, deadline, changed,
                   shots>>

\* The dispatcher's handler of the changed event, on a worker: one byte is read,
\* under the broker's mutex.
Capture ==
    /\ place = "task"
    /\ ~ Dispatching /\ loop # "lock"
    /\ changed' = changed - 1
    /\ place' = "captured"
    /\ UNCHANGED <<now, timerVars, list, userVars, loop, dispatchVars, deadline, watched,
                   nops, shots>>

\* The mechanism adds the event again and wakes the loop.
ReAdd ==
    /\ place = "captured"
    /\ place' = "listed"
    /\ nops' = nops + 1
    /\ UNCHANGED <<now, timerVars, list, userVars, loop, dispatchVars, deadline, watched,
                   changed, shots>>

-----------------------------------------------------------------------------
(* timer_dispatcher::dispatch() and timer::impl::on_expired() *)

DispatchLock ==
    /\ loop = "lock"
    /\ loop' = "check"
    /\ index' = 1
    /\ UNCHANGED <<now, timerVars, list, userVars, epoch, next, wakeVars, shots>>

DispatchEnds ==
    /\ loop = "check"
    /\ index <= Len(list) => due[Current] > epoch
    /\ loop' = "sort"
    /\ UNCHANGED <<now, timerVars, list, userVars, dispatchVars, wakeVars, shots>>

\* The first of base, base + i, base + 2i, ... that is not before the epoch.
Advanced(base, i) == IF base >= epoch THEN base ELSE base + i * ((epoch - base + i - 1) \div i)

\* on_expired() reads the type, and for a periodic timer the expiration.
ReadTimer ==
    /\ loop = "check"
    /\ index <= Len(list)
    /\ due[Current] <= epoch
    /\ \/ /\ kind[Current] = "PERIODIC"
          /\ loop' = "store"
          /\ next' = Advanced(due[Current], interval[Current])
       \/ /\ kind[Current] = "ONCE_OFF"
          /\ loop' = "spend"
          /\ UNCHANGED next
       \/ /\ kind[Current] = "UNKNOWN"
          /\ loop' = "publish"
          /\ UNCHANGED next
    /\ UNCHANGED <<now, timerVars, list, userVars, epoch, index, wakeVars, shots>>

StoreDue ==
    /\ loop = "store"
    /\ due' = [due EXCEPT ![Current] = next]
    /\ next' = 0
    /\ loop' = "publish"
    /\ UNCHANGED <<now, kind, interval, list, userVars, epoch, index, wakeVars, shots>>

Spend ==
    /\ loop = "spend"
    /\ kind' = [kind EXCEPT ![Current] = "UNKNOWN"]
    /\ loop' = "publish"
    /\ UNCHANGED <<now, interval, due, list, userVars, dispatchVars, wakeVars, shots>>

Publish ==
    /\ loop = "publish"
    /\ shots' = [shots EXCEPT ![Current] = IF @ < 2 THEN @ + 1 ELSE @]
    /\ loop' = "handler"
    /\ UNCHANGED <<now, timerVars, list, userVars, dispatchVars, wakeVars>>

HandlerReturns ==
    /\ loop = "handler"
    /\ index' = index + 1
    /\ loop' = "check"
    /\ UNCHANGED <<now, timerVars, list, userVars, epoch, next, wakeVars, shots>>

\* The handler stops a timer: remove() locks the mutex that its thread holds.
HandlerStops(t) ==
    /\ loop = "handler"
    /\ status[t] # "busy"
    /\ kind' = [kind EXCEPT ![t] = "UNKNOWN"]
    /\ due' = [due EXCEPT ![t] = Never]
    /\ status' = [status EXCEPT ![t] = "busy"]
    /\ loop' = "relock"
    /\ UNCHANGED <<now, interval, list, pc, call, calls, dispatchVars, wakeVars, shots>>

SortList ==
    /\ loop = "sort"
    /\ list' \in Sorted(list)
    /\ epoch' = 0 /\ index' = 1
    /\ loop' = "demultiplex"
    /\ UNCHANGED <<now, timerVars, userVars, next, wakeVars, shots>>

-----------------------------------------------------------------------------

UserStep(u) == WriteType(u) \/ WriteDue(u) \/ ChangeList(u)

LoopStep ==
    \/ Multiplex \/ WaitSize \/ WaitBegin \/ SelectReady \/ Demultiplex
    \/ DispatchLock \/ DispatchEnds \/ ReadTimer \/ StoreDue \/ Spend \/ Publish
    \/ HandlerReturns \/ SortList

StartSome(u, t) ==
    \/ \E i \in Interval : StartPeriodic(u, t, i)
    \/ \E i \in Interval : StartOnceOff(u, t, i)

\* A timer is stopped before it is started again.
Next ==
    \/ \E u \in User, t \in Timer : status[t] = "UNKNOWN" /\ StartSome(u, t)
    \/ \E u \in User, t \in Timer : Stop(u, t)
    \/ \E u \in User : UserStep(u)
    \/ Capture \/ ReAdd
    \/ LoopStep \/ SelectOther \/ SelectTimeout
    \/ \E t \in Timer : HandlerStops(t)
    \/ Tick

\* Threads run and time passes; a loop that could time out again and again does
\* not always find some other event ready first.
Fairness ==
    /\ WF_vars(LoopStep)
    /\ SF_vars(SelectTimeout)
    /\ WF_vars(Capture)
    /\ WF_vars(ReAdd)
    /\ WF_vars(Tick)
    /\ \A u \in User : WF_vars(UserStep(u))

Spec == Init /\ [][Next]_vars
FairSpec == Spec /\ Fairness

\* Timers that are started while they are active.
Restart == \E u \in User, t \in Timer : StartSome(u, t)
RestartSpec == Init /\ [][Next \/ Restart]_vars

-----------------------------------------------------------------------------
(* Properties *)

TypeOK ==
    /\ now \in 0 .. MaxTime
    /\ kind \in [Timer -> Kind]
    /\ interval \in [Timer -> Interval \union {0}]
    /\ due \in [Timer -> Time]
    /\ list \in Seq(Timer)
    /\ pc \in [User -> UserPoint]
    /\ call \in [User -> Call \union {None}]
    /\ loop \in LoopPoint
    /\ epoch \in 0 .. MaxTime /\ index \in Nat \ {0} /\ next \in Time
    /\ deadline \in Time
    /\ watched \in BOOLEAN
    /\ changed \in 0 .. MaxCalls
    /\ place \in {"listed", "task", "captured"}
    /\ nops \in Nat
    /\ status \in [Timer -> Kind \union {"busy"}]
    /\ shots \in [Timer -> 0 .. 2]
    /\ calls \in 0 .. MaxCalls

\* timer_dispatcher.h:48: only active timers are part of the dispatcher, once.
\* A timer that was stopped is on no list, so that it is not signalled any more
\* (timer.h:206); a periodic timer, and a once-off timer that has not been
\* signalled, is on the list, whatever dispatch() is doing.
Entries(t) == Cardinality({i \in DOMAIN list : list[i] = t})
OnlyActiveListed ==
    \A t \in Timer :
        /\ status[t] = "UNKNOWN" => Entries(t) = 0
        /\ status[t] = "PERIODIC" => Entries(t) = 1
        /\ status[t] = "ONCE_OFF" /\ shots[t] = 0 => Entries(t) = 1
        /\ status[t] = "ONCE_OFF" /\ shots[t] > 0 /\ ~ Dispatching => Entries(t) = 0

\* timer.h:49: a once-off timer is signalled once.
OneShotOnce == \A t \in Timer : status[t] = "ONCE_OFF" => shots[t] <= 1

\* The loop does not sleep past the first expiration: when no call is under way
\* and a listed timer is due before select() times out, select() is about to be
\* woken by the byte of the change or of the changed event that is put back.
NeverOversleeps ==
    /\ loop = "select"
    /\ \A u \in User : pc[u] = "idle"
    /\ \E i \in DOMAIN list : due[list[i]] < deadline
    => Signalled \/ place # "listed"

\* An active timer whose time comes is signalled, unless it is stopped or the
\* loop's thread has died or locked itself out.
StartedIsSignalled ==
    \A t \in Timer :
        status[t] \in {"PERIODIC", "ONCE_OFF"} /\ due[t] <= MaxTime
            ~> \/ shots[t] > 0
               \/ status[t] \notin {"PERIODIC", "ONCE_OFF"}
               \/ loop \in {"crashed", "relock"}

-----------------------------------------------------------------------------
(* The promise to the user of a timer *)

\* The call that uses a timer, if there is one.
InCall(t) == \E u \in User : pc[u] # "idle" /\ call[u].timer = t
Caller(t) == CHOOSE u \in User : pc[u] # "idle" /\ call[u].timer = t

\* What the last call makes of a timer; a handler's call is a stop.
Asked(t) ==
    IF InCall(t) THEN call[Caller(t)].kind
    ELSE IF status[t] = "busy" THEN "UNKNOWN" ELSE status[t]
Starting(t) == InCall(t) /\ Asked(t) # "UNKNOWN"

\* A stopped timer has no time once the list or the call is done with it.
Withdrawn(t) ==
    /\ Asked(t) = "UNKNOWN"
    /\ t \in ToSet(list) /\ InCall(t) => pc[Caller(t)] = "list"

Goal(t) == IF Starting(t) THEN call[Caller(t)].due
           ELSE IF Withdrawn(t) THEN Never ELSE due[t]
Every(t) == IF Starting(t) THEN call[Caller(t)].interval ELSE interval[t]
Settled(t) == status[t] # "busy"
Signals(t) == IF Asked(t) = "UNKNOWN" THEN 0 ELSE shots[t]

\* dispatch() has found a timer to have expired and has not yet published it.
Signalling == loop \in {"store", "spend", "publish"}
Expiring == IF Signalling THEN Current ELSE None
Since == IF Signalling THEN epoch ELSE 0

Service == INSTANCE TimerService WITH
    type <- [t \in Timer |-> Asked(t)],
    settled <- [t \in Timer |-> Settled(t)],
    every <- [t \in Timer |-> Every(t)],
    goal <- [t \in Timer |-> Goal(t)],
    expiring <- Expiring,
    since <- Since,
    signals <- [t \in Timer |-> Signals(t)]

\* timer.h:47, timer.cpp:101: however the unlocked writes of start() and stop()
\* overlap dispatch() in the loop's thread, its users see TimerService.
ServiceSpec == Service!Spec
=============================================================================
