---------------------------- MODULE TimerService ----------------------------
(***************************************************************************)
(* What timers promise to the code that starts and stops them: no timer is *)
(* signalled before its time, before its start has returned or after its   *)
(* stop has; a once-off timer is signalled once; a periodic one stays on   *)
(* the grid of its start and skips the points it has missed.  The list,    *)
(* the mutex, the event loop and its sleep are invisible at this level.    *)
(***************************************************************************)
EXTENDS Integers

CONSTANTS
    Timer,
    None,
    Interval,
    MaxTime     \* bound: the clock

VARIABLES
    now,        \* the clock
    type,       \* what the last call made, or is making, of a timer
    settled,    \* that call has returned
    every,      \* the interval of a periodic timer
    goal,       \* the time of the next signal
    expiring,   \* the timer that is about to be signalled, or None
    since,      \* when it was found to have expired
    signals     \* signals of a timer since it was started, up to 2

vars == <<now, type, settled, every, goal, expiring, since, signals>>

Never == MaxTime + MaxTime + 1

Init ==
    /\ now = 0
    /\ type = [t \in Timer |-> "UNKNOWN"]
    /\ settled = [t \in Timer |-> TRUE]
    /\ every = [t \in Timer |-> 0]
    /\ goal = [t \in Timer |-> Never]
    /\ expiring = None
    /\ since = 0
    /\ signals = [t \in Timer |-> 0]

Tick ==
    /\ now < MaxTime
    /\ now' = now + 1
    /\ UNCHANGED <<type, settled, every, goal, expiring, since, signals>>

\* A timer is stopped before it is started again.
Start(t, k, i) ==
    /\ settled[t]
    /\ type[t] = "UNKNOWN"
    /\ type' = [type EXCEPT ![t] = k]
    /\ settled' = [settled EXCEPT ![t] = FALSE]
    /\ every' = [every EXCEPT ![t] = IF k = "PERIODIC" THEN i ELSE 0]
    /\ goal' = [goal EXCEPT ![t] = now + i]
    /\ UNCHANGED <<now, expiring, since, signals>>

Stop(t) ==
    /\ settled[t]
    /\ type' = [type EXCEPT ![t] = "UNKNOWN"]
    /\ settled' = [settled EXCEPT ![t] = FALSE]
    /\ \E g \in {goal[t], Never} : goal' = [goal EXCEPT ![t] = g]
    /\ signals' = [signals EXCEPT ![t] = 0]
    /\ UNCHANGED <<now, every, expiring, since>>

\* Timers that are being stopped lose their time at some point.
Stopping == {t \in Timer : ~ settled[t] /\ type[t] = "UNKNOWN"}
WithdrawAll(S) == goal' = [t \in Timer |-> IF t \in S THEN Never ELSE goal[t]]

Withdraw ==
    /\ \E S \in SUBSET Stopping : WithdrawAll(S)
    /\ UNCHANGED <<now, type, settled, every, expiring, since, signals>>

\* A call returns when its timer is not about to be signalled; a stopped timer
\* has no time then.
Return(t) ==
    /\ ~ settled[t]
    /\ expiring # t
    /\ settled' = [settled EXCEPT ![t] = TRUE]
    /\ \E S \in SUBSET Stopping : WithdrawAll(S)
    /\ type[t] = "UNKNOWN" => goal'[t] = Never
    /\ UNCHANGED <<now, type, every, expiring, since, signals>>

\* A timer that was started, or is being stopped, has reached its time.
Expire(t) ==
    /\ expiring = None
    /\ type[t] # "UNKNOWN" => settled[t]
    /\ type[t] = "ONCE_OFF" => signals[t] = 0
    /\ expiring' = t
    /\ since' \in goal[t] .. now
    /\ UNCHANGED <<now, type, settled, every, goal, signals>>

\* To the first point of the grid that is not before the time of the expiration.
Advance(t) ==
    /\ expiring = t
    /\ every[t] \in Interval
    /\ \E n \in 0 .. MaxTime : goal' = [goal EXCEPT ![t] = @ + n * every[t]]
    /\ goal'[t] \in since .. since + every[t] - 1
    /\ UNCHANGED <<now, type, settled, every, expiring, since, signals>>

Signal(t) ==
    /\ expiring = t
    /\ type[t] = "PERIODIC" => goal[t] >= since
    /\ expiring' = None
    /\ since' = 0
    /\ signals' = [signals EXCEPT ![t] =
                      IF type[t] = "UNKNOWN" \/ @ = 2 THEN @ ELSE @ + 1]
    /\ UNCHANGED <<now, type, settled, every, goal>>

Next ==
    \/ Tick
    \/ Withdraw
    \/ \E t \in Timer, k \in {"PERIODIC", "ONCE_OFF"}, i \in Interval : Start(t, k, i)
    \/ \E t \in Timer : Stop(t) \/ Return(t) \/ Expire(t) \/ Advance(t) \/ Signal(t)

Spec == Init /\ [][Next]_vars
=============================================================================
