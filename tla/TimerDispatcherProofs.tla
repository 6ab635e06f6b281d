----------------------- MODULE TimerDispatcherProofs -----------------------
(***************************************************************************)
(* Theorems about TimerDispatcher for every set of threads, timers and     *)
(* intervals and any number of calls: its type invariant, that its list    *)
(* holds the active timers once, that a once-off timer is signalled once,  *)
(* that the loop does not oversleep, and that the whole implements         *)
(* TimerService.                                                           *)
(***************************************************************************)
EXTENDS TimerDispatcher, FiniteSetTheorems, SequenceTheorems, TLAPS

-----------------------------------------------------------------------------
(* The invariant *)

Calling == {u \in User : pc[u] # "idle"}

\* A thread inside a call is the only one that uses its timer.
CallsAgree ==
    /\ \A u \in Calling :
          /\ call[u] \in Call
          /\ status[call[u].timer] = "busy"
          /\ call[u].kind = "PERIODIC" => call[u].interval \in Interval
    /\ \A u, v \in Calling : call[u].timer = call[v].timer => u = v

\* A timer that is being started is on no list, so the loop does not touch it.
StartsUnlisted ==
    \A u \in Calling :
        call[u].kind # "UNKNOWN" => /\ call[u].timer \notin ToSet(list)
                                    /\ shots[call[u].timer] = 0

\* What a call has written stays as it was written.
TypesWritten ==
    /\ \A u \in User : pc[u] \in {"due", "list"} => kind[call[u].timer] = call[u].kind
    /\ \A t \in Timer : kind[t] = "PERIODIC" => interval[t] \in Interval

\* A timer whose last call has returned: whether it is listed, and its type.
StatusAgrees ==
    \A t \in Timer :
        /\ status[t] = "UNKNOWN" => t \notin ToSet(list)
        /\ status[t] = "PERIODIC" => t \in ToSet(list) /\ kind[t] = "PERIODIC"
        /\ status[t] = "ONCE_OFF" /\ shots[t] = 0 =>
              /\ t \in ToSet(list)
              /\ kind[t] = "ONCE_OFF" \/ (loop = "publish" /\ Current = t)
        /\ status[t] = "ONCE_OFF" /\ shots[t] # 0 =>
              /\ shots[t] = 1 /\ kind[t] = "UNKNOWN"
              /\ ~ Dispatching => t \notin ToSet(list)

\* Once-off timers from position i on have not been signalled.
Unspent(i) ==
    \A j \in DOMAIN list : j >= i /\ status[list[j]] = "ONCE_OFF" => shots[list[j]] = 0

\* How far dispatch() has come, and what on_expired() has read of its timer.
DispatchAgrees ==
    /\ loop \in {"store", "spend", "publish", "handler"} => index \in DOMAIN list
    /\ loop \in {"check", "store", "spend", "publish"} => Unspent(index)
    /\ loop = "handler" => Unspent(index + 1)
    /\ loop = "store" => status[Current] # "ONCE_OFF"
    /\ loop = "spend" => kind[Current] # "PERIODIC"
    /\ loop = "publish" /\ status[Current] = "ONCE_OFF" => kind[Current] = "UNKNOWN"

\* Each byte of the changed event is that of a call that has returned.
ChangesCounted ==
    /\ IsFiniteSet(Calling)
    /\ changed + Cardinality(Calling) <= calls
    /\ place = "task" => changed > 0

\* When select() does not wait for the changed event, it is with a worker, or its
\* return has left a byte.
WakeAgrees == loop \in {"size", "begin", "select"} /\ place = "listed" => watched \/ nops > 0

\* Only a call under way, or dispatch(), leaves the list out of order.
OrderKept == ~ Dispatching /\ Calling = {} => Ordered(list)

IInv ==
    /\ TypeOK
    /\ IsInjective(list)
    /\ CallsAgree
    /\ StartsUnlisted
    /\ TypesWritten
    /\ StatusAgrees
    /\ DispatchAgrees
    /\ ChangesCounted
    /\ WakeAgrees
    /\ OrderKept
    /\ NeverOversleeps
-----------------------------------------------------------------------------
(* Facts about lists *)

\* What insert() appends.
LEMMA AppendFacts ==
    ASSUME NEW S, NEW s \in Seq(S), NEW e \in S
    PROVE  /\ Append(s, e) \in Seq(S)
           /\ ToSet(Append(s, e)) = ToSet(s) \union {e}
           /\ IsInjective(s) /\ e \notin ToSet(s) => IsInjective(Append(s, e))
  <1>1. /\ DOMAIN s = 1 .. Len(s)
        /\ Append(s, e) \in Seq(S)
        /\ DOMAIN Append(s, e) = 1 .. (Len(s) + 1)
        /\ \A i \in 1 .. Len(s) : Append(s, e)[i] = s[i]
        /\ Append(s, e)[Len(s) + 1] = e
        /\ Len(s) \in Nat
    OBVIOUS
  <1>2. ToSet(Append(s, e)) = ToSet(s) \union {e}
    BY <1>1 DEF ToSet
  <1>3. IsInjective(s) /\ e \notin ToSet(s) => IsInjective(Append(s, e))
    BY <1>1 DEF ToSet, IsInjective
  <1>4. QED
    BY <1>1, <1>2, <1>3

\* What remove() erases: of a list without duplicates the first occurrence is the only one.
LEMMA RemoveFirstFacts ==
    ASSUME NEW S, NEW s \in Seq(S), IsInjective(s), NEW e
    PROVE  /\ RemoveFirst(s, e) \in Seq(S)
           /\ ToSet(RemoveFirst(s, e)) = ToSet(s) \ {e}
           /\ IsInjective(RemoveFirst(s, e))
  <1>1. DOMAIN s = 1 .. Len(s) /\ Len(s) \in Nat
    OBVIOUS
  <1>2. CASE \A i \in 1 .. Len(s) : s[i] # e
    <2>1. RemoveFirst(s, e) = s
      BY <1>2 DEF RemoveFirst
    <2>2. e \notin ToSet(s)
      BY <1>1, <1>2 DEF ToSet
    <2>3. QED
      BY <2>1, <2>2
  <1>3. ASSUME NEW k \in 1 .. Len(s), s[k] = e
        PROVE  /\ RemoveFirst(s, e) \in Seq(S)
               /\ ToSet(RemoveFirst(s, e)) = ToSet(s) \ {e}
               /\ IsInjective(RemoveFirst(s, e))
    <2> DEFINE r == RemoveAt(s, k)
    <2>1. {i \in 1 .. Len(s) : s[i] = e} = {k}
      BY <1>1, <1>3 DEF IsInjective
    <2>2. SelectInSeq(s, LAMBDA v : v = e) = k
      BY <2>1 DEF SelectInSeq, Min
    <2>3. RemoveFirst(s, e) = r
      BY <1>3, <2>2 DEF RemoveFirst
    <2>4. /\ r \in Seq(S)
          /\ DOMAIN r = 1 .. (Len(s) - 1)
          /\ \A i \in 1 .. (Len(s) - 1) : r[i] = IF i < k THEN s[i] ELSE s[i + 1]
      <3> DEFINE a == SubSeq(s, 1, k - 1)
                 b == SubSeq(s, k + 1, Len(s))
      <3>1. \A i \in DOMAIN s : s[i] \in S
        OBVIOUS
      <3>2. /\ a \in Seq(S) /\ Len(a) = k - 1
            /\ \A i \in 1 .. (k - 1) : a[i] = s[i]
        <4>1. k - 1 \in Int /\ \A i \in 1 .. (k - 1) : s[i] \in S
          BY <1>1, <3>1
        <4>2. /\ a \in Seq(S) /\ Len(a) = IF 1 <= k - 1 THEN (k - 1) - 1 + 1 ELSE 0
              /\ \A i \in 1 .. (k - 1) - 1 + 1 : a[i] = s[1 + i - 1]
          BY <4>1, SubSeqProperties
        <4> HIDE DEF a
        <4>3. Len(a) = k - 1
          BY <1>1, <4>2
        <4>4. ASSUME NEW i \in 1 .. (k - 1) PROVE a[i] = s[i]
          <5>1. i \in 1 .. (k - 1) - 1 + 1 /\ 1 + i - 1 = i
            BY <1>1
          <5>2. QED
            BY <4>2, <5>1
        <4>5. QED
          BY <4>2, <4>3, <4>4
      <3>3. /\ b \in Seq(S) /\ Len(b) = Len(s) - k
            /\ \A i \in 1 .. (Len(s) - k) : b[i] = s[k + i]
        <4>1. k + 1 \in Int /\ Len(s) \in Int /\ \A i \in (k + 1) .. Len(s) : s[i] \in S
          BY <1>1, <3>1
        <4>2. /\ b \in Seq(S) /\ Len(b) = IF k + 1 <= Len(s) THEN Len(s) - (k + 1) + 1 ELSE 0
              /\ \A i \in 1 .. Len(s) - (k + 1) + 1 : b[i] = s[(k + 1) + i - 1]
          BY <4>1, SubSeqProperties
        <4> HIDE DEF b
        <4>3. Len(b) = Len(s) - k
          <5>1. k \in Int /\ k <= Len(s) /\ Len(s) \in Int
            BY <1>1
          <5>2. CASE k + 1 <= Len(s)
            BY <4>2, <5>1, <5>2
          <5>3. CASE ~ (k + 1 <= Len(s))
            BY <4>2, <5>1, <5>3
          <5>4. QED
            BY <5>2, <5>3
        <4>4. ASSUME NEW i \in 1 .. (Len(s) - k) PROVE b[i] = s[k + i]
          <5>1. i \in 1 .. Len(s) - (k + 1) + 1 /\ (k + 1) + i - 1 = k + i
            BY <1>1
          <5>2. QED
            BY <4>2, <5>1
        <4>5. QED
          BY <4>2, <4>3, <4>4
      <3>4. r = a \o b
        BY DEF RemoveAt
      <3> HIDE DEF a, b, r
      <3>5. /\ r \in Seq(S) /\ Len(r) = Len(s) - 1
            /\ \A i \in 1 .. (Len(s) - 1) :
                  r[i] = IF i <= k - 1 THEN a[i] ELSE b[i - (k - 1)]
        <4>1. /\ r \in Seq(S) /\ Len(r) = Len(a) + Len(b)
              /\ \A i \in 1 .. Len(a) + Len(b) :
                    r[i] = IF i <= Len(a) THEN a[i] ELSE b[i - Len(a)]
          BY <3>2, <3>3, <3>4, ConcatProperties
        <4>2. Len(a) = k - 1 /\ Len(a) + Len(b) = Len(s) - 1
          BY <1>1, <3>2, <3>3
        <4>3. QED
          BY <4>1, <4>2
      <3>6. ASSUME NEW i \in 1 .. (Len(s) - 1)
            PROVE  r[i] = IF i < k THEN s[i] ELSE s[i + 1]
        <4>1. CASE i < k
          BY <1>1, <3>2, <3>5, <4>1
        <4>2. CASE i >= k
          <5>1. i - (k - 1) \in 1 .. (Len(s) - k)
            BY <1>1, <4>2
          <5>2. b[i - (k - 1)] = s[k + (i - (k - 1))]
            BY <3>3, <5>1
          <5>3. k + (i - (k - 1)) = i + 1
            BY <1>1
          <5>4. QED
            BY <1>1, <3>5, <4>2, <5>2, <5>3
        <4>3. QED
          BY <1>1, <4>1, <4>2
      <3>7. QED
        BY <1>1, <3>5, <3>6
    <2>5. ToSet(r) = ToSet(s) \ {e}
      <3>1. ASSUME NEW i \in DOMAIN r PROVE r[i] \in ToSet(s) \ {e}
        BY <1>1, <1>3, <2>4 DEF ToSet, IsInjective
      <3>2. ASSUME NEW i \in DOMAIN s, s[i] # e PROVE s[i] \in ToSet(r)
        <4>1. CASE i < k
          BY <1>1, <2>4, <4>1 DEF ToSet
        <4>2. CASE i > k
          <5>1. i - 1 \in DOMAIN r /\ r[i - 1] = s[i]
            BY <1>1, <2>4, <4>2
          <5>2. QED
            BY <5>1 DEF ToSet
        <4>3. QED
          BY <1>1, <1>3, <3>2, <4>1, <4>2
      <3>3. QED
        BY <3>1, <3>2 DEF ToSet
    <2>6. IsInjective(r)
      <3> HIDE DEF r
      <3>1. \A i, j \in 1 .. Len(s) : s[i] = s[j] => i = j
        BY <1>1 DEF IsInjective
      <3>2. QED
        BY <1>1, <2>4, <3>1 DEF IsInjective
    <2>7. QED
      BY <2>3, <2>4, <2>5, <2>6
  <1>4. QED
    BY <1>2, <1>3

\* What sort() leaves: the active timers, still once, in the order of their expiration.
LEMMA SortedFacts ==
    ASSUME NEW s \in Seq(Timer), NEW r \in Sorted(s)
    PROVE  /\ r \in Seq(Timer)
           /\ ToSet(r) = {t \in ToSet(s) : kind[t] # "UNKNOWN"}
           /\ IsInjective(s) => IsInjective(r)
           /\ Ordered(r)
  <1> DEFINE kept == {i \in DOMAIN s : kind[s[i]] # "UNKNOWN"}
             size == Cardinality(kept)
  <1>1. DOMAIN s = 1 .. Len(s) /\ Len(s) \in Nat /\ \A i \in DOMAIN s : s[i] \in Timer
    OBVIOUS
  <1>2. size \in Nat
    <2>1. IsFiniteSet(1 .. Len(s))
      BY <1>1, FS_Interval
    <2>2. kept \subseteq 1 .. Len(s)
      BY <1>1
    <2>3. IsFiniteSet(kept)
      BY <2>1, <2>2, FS_Subset
    <2>4. QED
      BY <2>3, FS_CardinalityType
  <1>3. PICK p \in Bijection(1 .. size, kept) : r = [i \in 1 .. size |-> s[p[i]]]
    BY DEF Sorted
  <1>4. /\ p \in [1 .. size -> kept]
        /\ \A i, j \in 1 .. size : p[i] = p[j] => i = j
        /\ \A k \in kept : \E i \in 1 .. size : p[i] = k
    BY <1>3 DEF Bijection, Injection, Surjection, IsInjective
  <1> HIDE DEF kept, size
  <1>5. r \in [1 .. size -> Timer]
    BY <1>1, <1>3, <1>4 DEF kept
  <1>6. r \in Seq(Timer)
    BY <1>2, <1>5
  <1>7. ToSet(r) = {t \in ToSet(s) : kind[t] # "UNKNOWN"}
    <2>1. ASSUME NEW i \in 1 .. size PROVE r[i] \in ToSet(s) /\ kind[r[i]] # "UNKNOWN"
      BY <1>3, <1>4 DEF ToSet, kept
    <2>2. ASSUME NEW k \in DOMAIN s, kind[s[k]] # "UNKNOWN" PROVE s[k] \in ToSet(r)
      <3>1. PICK i \in 1 .. size : p[i] = k
        BY <1>4, <2>2 DEF kept
      <3>2. r[i] = s[k] /\ i \in DOMAIN r
        BY <1>3, <3>1
      <3>3. QED
        BY <3>2 DEF ToSet
    <2>3. DOMAIN r = 1 .. size
      BY <1>5
    <2>4. QED
      BY <2>1, <2>2, <2>3 DEF ToSet
  <1>8. IsInjective(s) => IsInjective(r)
    BY <1>3, <1>4 DEF IsInjective, kept
  <1>9. Ordered(r)
    BY DEF Sorted
  <1>10. QED
    BY <1>6, <1>7, <1>8, <1>9

-----------------------------------------------------------------------------
(* The invariant at the start, and step by step *)

\* The bounds are numbers and leave room for every expiration.
LEMMA ConstantFacts ==
    /\ MaxTime \in Nat /\ MaxCalls \in Nat /\ Never \in Nat
    /\ 0 .. MaxTime \subseteq Time /\ Never \in Time
    /\ \A i \in Interval : i \in Nat \ {0} /\ i <= MaxTime
    /\ \A n \in 0 .. MaxTime, i \in Interval : n + i \in Time
  BY TimerAssumption DEF Never, Time

\* A thread inside a call has one that start(), at() or stop() made.
LEMMA CallFacts ==
    ASSUME IInv, NEW u \in User, pc[u] # "idle"
    PROVE  /\ u \in Calling
           /\ call[u] \in Call
           /\ call[u].timer \in Timer /\ call[u].kind \in Kind
           /\ call[u].interval \in Interval \union {0} /\ call[u].due \in Time
           /\ status[call[u].timer] = "busy"
  <1>1. u \in Calling
    BY DEF Calling
  <1>2. call[u] \in Call /\ status[call[u].timer] = "busy"
    BY <1>1 DEF IInv, CallsAgree
  <1>3. QED
    BY <1>1, <1>2 DEF Call

\* The timer that dispatch() is at is on the list.
LEMMA CurrentFacts ==
    ASSUME IInv, index \in DOMAIN list
    PROVE  Current \in Timer /\ Current \in ToSet(list)
  BY DEF IInv, TypeOK, Current, ToSet

\* The next expiration of a periodic timer is less than an interval after the epoch.
LEMMA AdvancedFacts ==
    ASSUME TypeOK, NEW base \in Time, base <= epoch, NEW i \in Interval
    PROVE  Advanced(base, i) \in Time
  <1>1. /\ base \in Nat /\ epoch \in Nat /\ i \in Nat /\ i > 0
        /\ epoch <= MaxTime /\ i <= MaxTime /\ MaxTime \in Nat
    BY ConstantFacts DEF TypeOK, Time
  <1>2. CASE base >= epoch
    BY <1>1, <1>2 DEF Advanced
  <1>3. CASE base < epoch
    <2> DEFINE n == epoch - base + i - 1
               q == n \div i
    <2>1. n \in Nat
      BY <1>1, <1>3
    <2>2. q \in Nat /\ i * q <= n
      BY <1>1, <2>1
    <2>3. i * q \in Nat
      BY <1>1, <2>2
    <2>4. Advanced(base, i) = base + i * q
      BY <1>1, <1>3 DEF Advanced
    <2> HIDE DEF q
    <2>5. base + i * q \in Nat /\ base + i * q <= epoch + i - 1
      BY <1>1, <2>2, <2>3
    <2>6. QED
      BY <1>1, <2>4, <2>5 DEF Time, Never
  <1>4. QED
    BY <1>1, <1>2, <1>3

\* No timer is started, nothing is listed, and nobody sleeps.
LEMMA InitInv == Init => IInv
  <1> SUFFICES ASSUME Init PROVE IInv
    OBVIOUS
  <1>1. ToSet(list) = {} /\ Calling = {}
    BY DEF Init, ToSet, Calling
  <1>2. TypeOK
    <2>1. 0 \in 0 .. MaxTime /\ 0 \in 0 .. MaxCalls /\ 0 \in Time /\ Never \in Time
      BY ConstantFacts
    <2>2. \A t \in Timer : kind[t] \in Kind /\ interval[t] \in Interval \union {0} /\ due[t] \in Time
      BY <2>1 DEF Init, Kind
    <2>3. <<>> \in Seq(Timer) /\ 0 \in 0 .. 2 /\ 1 \in Nat \ {0}
      OBVIOUS
    <2>4. /\ now \in 0 .. MaxTime /\ calls \in 0 .. MaxCalls /\ changed \in 0 .. MaxCalls
          /\ nops \in Nat /\ shots \in [Timer -> 0 .. 2]
          /\ epoch \in 0 .. MaxTime /\ index \in Nat \ {0} /\ next \in Time /\ deadline \in Time
      BY <2>1, <2>3 DEF Init
    <2>5. QED
      BY <2>1, <2>2, <2>3, <2>4 DEF Init, TypeOK, Kind, UserPoint, LoopPoint
  <1>3. IsInjective(list)
    BY DEF Init, IsInjective
  <1>4. CallsAgree /\ StartsUnlisted /\ TypesWritten /\ StatusAgrees
    BY <1>1 DEF Init, CallsAgree, StartsUnlisted, TypesWritten, StatusAgrees
  <1>5. DispatchAgrees /\ WakeAgrees /\ OrderKept /\ NeverOversleeps
    BY DEF Init, DispatchAgrees, WakeAgrees, OrderKept, Ordered, IsSorted, NeverOversleeps
  <1>6. ChangesCounted
    BY <1>1, FS_EmptySet DEF Init, ChangesCounted
  <1>7. QED
    BY <1>2, <1>3, <1>4, <1>5, <1>6 DEF IInv

\* timer::impl::start() and stop() write the type of a timer nobody else uses.
LEMMA WriteTypeInv ==
    ASSUME IInv, NEW u \in User, WriteType(u)
    PROVE  IInv'
  <1> DEFINE t == call[u].timer
  <1>a. /\ t \in Timer /\ status[t] = "busy" /\ u \in Calling
        /\ call[u] \in Call /\ call[u].kind \in Kind
    BY CallFacts DEF WriteType
  <1>b. \A v \in Calling : v # u => call[v].timer # t
    BY <1>a DEF IInv, CallsAgree
  <1>1. TypeOK'
    <2>1. call[u].timer \in Timer /\ call[u].kind \in Kind /\ call[u].interval \in Interval \union {0}
      BY CallFacts DEF WriteType
    <2>2. QED
      BY <2>1 DEF IInv, TypeOK, WriteType, dispatchVars, wakeVars, UserPoint
  <1>2. /\ IsInjective(list)'
        /\ WakeAgrees'
    BY DEF IInv, WriteType, dispatchVars, wakeVars, WakeAgrees
  <1>3. CallsAgree'
    BY DEF IInv, WriteType, dispatchVars, wakeVars, TypeOK, CallsAgree, Calling
  <1>4. StartsUnlisted'
    BY DEF IInv, WriteType, dispatchVars, wakeVars, TypeOK, StartsUnlisted, Calling
  <1>5. TypesWritten'
    <2>1. ASSUME NEW v \in User, pc'[v] \in {"due", "list"}
          PROVE  kind'[call'[v].timer] = call'[v].kind
      <3>1. CASE v = u
        BY <1>a, <3>1 DEF IInv, TypeOK, WriteType
      <3>2. CASE v # u
        <4>1. pc[v] \in {"due", "list"} /\ v \in Calling
          BY <2>1, <3>2 DEF IInv, TypeOK, WriteType, Calling
        <4>2. call[v].timer # t
          BY <1>b, <3>2, <4>1
        <4>3. QED
          BY <4>1, <4>2 DEF IInv, TypeOK, TypesWritten, WriteType
      <3>3. QED
        BY <3>1, <3>2
    <2>2. ASSUME NEW x \in Timer, kind'[x] = "PERIODIC"
          PROVE  interval'[x] \in Interval
      <3>1. CASE x = t
        BY <1>a, <2>2, <3>1 DEF IInv, TypeOK, CallsAgree, WriteType
      <3>2. CASE x # t
        BY <2>2, <3>2 DEF IInv, TypeOK, TypesWritten, WriteType
      <3>3. QED
        BY <3>1, <3>2
    <2>3. QED
      BY <2>1, <2>2 DEF TypesWritten
  <1>6. StatusAgrees'
    <2>1. \A x \in Timer : x # t => kind'[x] = kind[x]
      BY DEF IInv, TypeOK, WriteType
    <2>2. ASSUME NEW x \in Timer, x # t
          PROVE  StatusAgrees!(x)'
      BY <2>1, <2>2 DEF IInv, StatusAgrees, WriteType, dispatchVars, Dispatching, Current
    <2>3. QED
      BY <1>a, <2>2 DEF StatusAgrees, WriteType
  <1>7. DispatchAgrees'
    <2>1. \A x \in Timer : x # t => kind'[x] = kind[x]
      BY DEF IInv, TypeOK, WriteType
    <2>2. Unspent(index)' = Unspent(index) /\ Unspent(index + 1)' = Unspent(index + 1)
      BY DEF Unspent, WriteType, dispatchVars
    <2>3. ASSUME loop = "spend" PROVE kind'[Current] # "PERIODIC"
      <3>1. Current \in Timer /\ Current \in ToSet(list) /\ kind[Current] # "PERIODIC"
        BY <2>3, CurrentFacts DEF IInv, DispatchAgrees
      <3>2. CASE Current = t
        BY <1>a, <3>1, <3>2 DEF IInv, TypeOK, StartsUnlisted, WriteType
      <3>3. CASE Current # t
        BY <2>1, <3>1, <3>3
      <3>4. QED
        BY <3>2, <3>3
    <2>4. ASSUME loop = "publish", status[Current] = "ONCE_OFF" PROVE kind'[Current] = "UNKNOWN"
      <3>1. Current \in Timer /\ kind[Current] = "UNKNOWN" /\ Current # t
        BY <1>a, <2>4, CurrentFacts DEF IInv, DispatchAgrees
      <3>2. QED
        BY <2>1, <3>1
    <2>5. Current' = Current
      BY DEF Current, WriteType, dispatchVars
    <2>6. QED
      BY <2>2, <2>3, <2>4, <2>5 DEF IInv, DispatchAgrees, WriteType, dispatchVars
  <1>8. ChangesCounted'
    BY DEF IInv, WriteType, dispatchVars, wakeVars, TypeOK, ChangesCounted, Calling
  <1>9. OrderKept'
    BY DEF IInv, WriteType, dispatchVars, wakeVars, TypeOK, OrderKept, Dispatching, Calling,
       Ordered, IsSorted
  <1>10. NeverOversleeps'
    BY DEF IInv, WriteType, dispatchVars, wakeVars, TypeOK, NeverOversleeps, Signalled
  <1>11. QED
    BY <1>1, <1>2, <1>3, <1>4, <1>5, <1>6, <1>7, <1>8, <1>9, <1>10 DEF IInv

\* They write its expiration before the list is changed, so only a caller leaves it unsorted.
LEMMA WriteDueInv ==
    ASSUME IInv, NEW u \in User, WriteDue(u)
    PROVE  IInv'
  <1>1. TypeOK'
    <2>1. call[u].timer \in Timer /\ call[u].due \in Time
      BY CallFacts DEF WriteDue
    <2>2. QED
      BY <2>1 DEF IInv, TypeOK, WriteDue, dispatchVars, wakeVars, UserPoint
  <1>2. /\ IsInjective(list)'
        /\ StatusAgrees'
        /\ DispatchAgrees'
        /\ WakeAgrees'
    BY DEF IInv, WriteDue, dispatchVars, wakeVars, StatusAgrees, Dispatching, Current,
       DispatchAgrees, Unspent, WakeAgrees
  <1>3. CallsAgree'
    BY DEF IInv, WriteDue, dispatchVars, wakeVars, TypeOK, CallsAgree, Calling
  <1>4. StartsUnlisted'
    BY DEF IInv, WriteDue, dispatchVars, wakeVars, TypeOK, StartsUnlisted, Calling
  <1>5. TypesWritten'
    BY DEF IInv, WriteDue, dispatchVars, wakeVars, TypeOK, TypesWritten
  <1>6. ChangesCounted'
    BY DEF IInv, WriteDue, dispatchVars, wakeVars, TypeOK, ChangesCounted, Calling
  <1>7. OrderKept'
    BY DEF IInv, WriteDue, dispatchVars, wakeVars, TypeOK, OrderKept, Dispatching, Calling,
       Ordered, IsSorted
  <1>8. NeverOversleeps'
    BY DEF IInv, WriteDue, dispatchVars, wakeVars, TypeOK, NeverOversleeps, Signalled
  <1>9. QED
    BY <1>1, <1>2, <1>3, <1>4, <1>5, <1>6, <1>7, <1>8 DEF IInv

\* insert() and remove() leave the timer on the list if it was started, and sort what is
\* active; the byte of trigger() pays for the order that select() does not know of.
LEMMA ChangeListInv ==
    ASSUME IInv, NEW u \in User, ChangeList(u)
    PROVE  IInv'
  <1> DEFINE t == call[u].timer
             k == call[u].kind
  <1>a. /\ t \in Timer /\ k \in Kind /\ status[t] = "busy" /\ u \in Calling
        /\ kind[t] = k /\ pc[u] = "list" /\ ~ Dispatching
        /\ list \in Seq(Timer) /\ IsInjective(list)
    BY CallFacts DEF IInv, TypeOK, TypesWritten, ChangeList
  <1>b. /\ list' \in Seq(Timer)
        /\ IsInjective(list')
        /\ Ordered(list')
        /\ t \in ToSet(list') <=> k # "UNKNOWN"
        /\ \A x \in Timer : x # t =>
              (x \in ToSet(list') <=> x \in ToSet(list) /\ kind[x] # "UNKNOWN")
    <2>1. CASE k = "UNKNOWN"
      <3> DEFINE s == RemoveFirst(list, t)
      <3>1. s \in Seq(Timer) /\ ToSet(s) = ToSet(list) \ {t} /\ IsInjective(s)
        BY <1>a, RemoveFirstFacts
      <3>2. list' \in Sorted(s)
        BY <2>1 DEF ChangeList, Changed
      <3> HIDE DEF s
      <3>3. /\ list' \in Seq(Timer) /\ IsInjective(list') /\ Ordered(list')
            /\ ToSet(list') = {x \in ToSet(s) : kind[x] # "UNKNOWN"}
        BY <3>1, <3>2, SortedFacts
      <3>4. QED
        BY <1>a, <2>1, <3>1, <3>3
    <2>2. CASE k # "UNKNOWN"
      <3> DEFINE s == Append(list, t)
      <3>1. t \notin ToSet(list)
        BY <1>a, <2>2 DEF IInv, StartsUnlisted
      <3>2. s \in Seq(Timer) /\ ToSet(s) = ToSet(list) \union {t} /\ IsInjective(s)
        BY <1>a, <3>1, AppendFacts
      <3>3. list' \in Sorted(s)
        BY <2>2 DEF ChangeList, Changed
      <3> HIDE DEF s
      <3>4. /\ list' \in Seq(Timer) /\ IsInjective(list') /\ Ordered(list')
            /\ ToSet(list') = {x \in ToSet(s) : kind[x] # "UNKNOWN"}
        BY <3>2, <3>3, SortedFacts
      <3>5. QED
        BY <1>a, <2>2, <3>2, <3>4
    <2>3. QED
      BY <2>1, <2>2
  <1>c. /\ status'[t] = k
        /\ \A x \in Timer : x # t => status'[x] = status[x]
        /\ Calling' = Calling \ {u}
        /\ \A v \in User : v # u => pc'[v] = pc[v] /\ call'[v] = call[v]
        /\ pc'[u] = "idle"
    BY <1>a DEF IInv, TypeOK, ChangeList, Return, Calling
  <1>d. \A v \in Calling' :
           /\ v \in User /\ v # u /\ v \in Calling /\ call'[v] = call[v]
           /\ call[v].timer \in Timer /\ call[v].timer # t
    <2>1. ASSUME NEW v \in Calling, v # u
          PROVE  v \in User /\ call[v].timer \in Timer /\ call[v].timer # t
      BY <1>a, <2>1, CallFacts DEF IInv, CallsAgree, Calling
    <2>2. QED
      BY <1>c, <2>1 DEF Calling
  <1>e. /\ IsFiniteSet(Calling') /\ IsFiniteSet(Calling)
        /\ Cardinality(Calling') \in Nat /\ Cardinality(Calling) = Cardinality(Calling') + 1
    <2>1. IsFiniteSet(Calling)
      BY DEF IInv, ChangesCounted
    <2>2. IsFiniteSet(Calling') /\ Cardinality(Calling') = Cardinality(Calling) - 1
      BY <1>a, <1>c, <2>1, FS_RemoveElement
    <2>3. Cardinality(Calling) \in Nat /\ Cardinality(Calling') \in Nat
      BY <2>1, <2>2, FS_CardinalityType
    <2>4. QED
      BY <2>1, <2>2, <2>3
  <1>f. changed' = changed + 1 /\ changed' + Cardinality(Calling') <= calls /\ changed \in Nat
    BY <1>e, ConstantFacts DEF IInv, TypeOK, ChangesCounted, ChangeList
  <1>1. TypeOK'
    <2>1. changed' \in 0 .. MaxCalls
      BY <1>e, <1>f, ConstantFacts DEF IInv, TypeOK
    <2>2. status' \in [Timer -> Kind \union {"busy"}]
      BY <1>a DEF IInv, TypeOK, ChangeList, Return
    <2>3. pc' \in [User -> UserPoint] /\ call' \in [User -> Call \union {None}]
      BY DEF IInv, TypeOK, ChangeList, Return, UserPoint
    <2>4. QED
      BY <1>b, <2>1, <2>2, <2>3 DEF IInv, TypeOK, ChangeList, Return, dispatchVars, timerVars
  <1>2. WakeAgrees'
    BY DEF IInv, ChangeList, Return, dispatchVars, timerVars, WakeAgrees
  <1>3. IsInjective(list)'
    BY <1>b
  <1>4. CallsAgree'
    BY <1>c, <1>d DEF IInv, CallsAgree
  <1>5. StartsUnlisted'
    BY <1>b, <1>d DEF IInv, StartsUnlisted, ChangeList, Return
  <1>6. TypesWritten'
    BY DEF IInv, ChangeList, Return, dispatchVars, timerVars, TypeOK, TypesWritten
  <1>7. StatusAgrees'
    <2>1. ~ Dispatching' /\ loop' = loop /\ loop # "publish" /\ kind' = kind /\ shots' = shots
      BY <1>a DEF ChangeList, Return, timerVars, Dispatching
    <2>2. k # "UNKNOWN" => shots[t] = 0
      BY <1>a DEF IInv, StartsUnlisted
    <2>3. ASSUME NEW x \in Timer PROVE StatusAgrees!(x)'
      <3>1. CASE x = t
        BY <1>a, <1>b, <1>c, <2>1, <2>2, <3>1 DEF Kind
      <3>2. CASE x # t
        <4>1. StatusAgrees!(x)
          BY DEF IInv, StatusAgrees
        <4>2. QED
          BY <1>a, <1>b, <1>c, <2>1, <3>2, <4>1
      <3>3. QED
        BY <3>1, <3>2
    <2>4. QED
      BY <2>3 DEF StatusAgrees
  <1>8. DispatchAgrees'
    BY <1>a DEF DispatchAgrees, Dispatching, ChangeList, Return
  <1>9. ChangesCounted'
    BY <1>e, <1>f DEF ChangesCounted, IInv, ChangeList, Return
  <1>10. OrderKept'
    BY <1>b DEF OrderKept, Ordered, IsSorted, ChangeList, Return, timerVars
  <1>11. NeverOversleeps'
    BY <1>f DEF IInv, WakeAgrees, NeverOversleeps, Signalled, ChangeList, Return
  <1>12. QED
    BY <1>1, <1>2, <1>3, <1>4, <1>5, <1>6, <1>7, <1>8, <1>9, <1>10, <1>11 DEF IInv

\* Time passing touches nothing the loop has read.
LEMMA TickInv ==
    ASSUME IInv, Tick
    PROVE  IInv'
  <1>1. TypeOK'
    BY ConstantFacts DEF IInv, TypeOK, Tick, timerVars, userVars, dispatchVars, wakeVars,
       LoopPoint
  <1>2. /\ IsInjective(list)'
        /\ CallsAgree'
        /\ StartsUnlisted'
        /\ TypesWritten'
        /\ StatusAgrees'
        /\ DispatchAgrees'
        /\ ChangesCounted'
        /\ WakeAgrees'
        /\ OrderKept'
        /\ NeverOversleeps'
    BY DEF IInv, Tick, timerVars, userVars, dispatchVars, wakeVars, CallsAgree, Calling,
       StartsUnlisted, TypesWritten, StatusAgrees, Dispatching, Current, DispatchAgrees,
       Unspent, ChangesCounted, WakeAgrees, OrderKept, Ordered, IsSorted, NeverOversleeps,
       Signalled
  <1>3. QED
    BY <1>1, <1>2 DEF IInv

\* The loop waits for the changed event if that is on the list, and otherwise a worker has it.
LEMMA MultiplexInv ==
    ASSUME IInv, Multiplex
    PROVE  IInv'
  <1>1. TypeOK'
    BY ConstantFacts DEF IInv, TypeOK, Multiplex, timerVars, userVars, dispatchVars, LoopPoint
  <1>2. /\ IsInjective(list)'
        /\ CallsAgree'
        /\ StartsUnlisted'
        /\ TypesWritten'
        /\ ChangesCounted'
    BY DEF IInv, Multiplex, timerVars, userVars, dispatchVars, CallsAgree, Calling,
       StartsUnlisted, TypesWritten, ChangesCounted
  <1>3. StatusAgrees'
    BY DEF IInv, Multiplex, timerVars, userVars, dispatchVars, TypeOK, StatusAgrees,
       Dispatching, Current
  <1>4. DispatchAgrees'
    BY DEF IInv, Multiplex, timerVars, userVars, dispatchVars, TypeOK, DispatchAgrees, Unspent,
       Current
  <1>5. WakeAgrees'
    BY DEF IInv, Multiplex, timerVars, userVars, dispatchVars, TypeOK, WakeAgrees
  <1>6. OrderKept'
    BY DEF IInv, Multiplex, timerVars, userVars, dispatchVars, TypeOK, OrderKept, Dispatching,
       Calling, Ordered, IsSorted
  <1>7. NeverOversleeps'
    BY DEF IInv, Multiplex, timerVars, userVars, dispatchVars, TypeOK, NeverOversleeps,
       Signalled
  <1>8. QED
    BY <1>1, <1>2, <1>3, <1>4, <1>5, <1>6, <1>7 DEF IInv

\* wait_duration() of an empty list waits for ever, and there is nothing to miss.
LEMMA WaitSizeInv ==
    ASSUME IInv, WaitSize
    PROVE  IInv'
  <1>1. TypeOK'
    BY ConstantFacts DEF IInv, TypeOK, WaitSize, timerVars, userVars, dispatchVars, LoopPoint
  <1>2. /\ IsInjective(list)'
        /\ CallsAgree'
        /\ StartsUnlisted'
        /\ TypesWritten'
        /\ ChangesCounted'
    BY DEF IInv, WaitSize, timerVars, userVars, dispatchVars, CallsAgree, Calling,
       StartsUnlisted, TypesWritten, ChangesCounted
  <1>3. StatusAgrees'
    BY DEF IInv, WaitSize, timerVars, userVars, dispatchVars, TypeOK, StatusAgrees,
       Dispatching, Current
  <1>4. DispatchAgrees'
    BY DEF IInv, WaitSize, timerVars, userVars, dispatchVars, TypeOK, DispatchAgrees, Unspent,
       Current
  <1>5. WakeAgrees'
    BY DEF IInv, WaitSize, timerVars, userVars, dispatchVars, TypeOK, WakeAgrees
  <1>6. OrderKept'
    BY DEF IInv, WaitSize, timerVars, userVars, dispatchVars, TypeOK, OrderKept, Dispatching,
       Calling, Ordered, IsSorted
  <1>7. NeverOversleeps'
    BY DEF IInv, WaitSize, timerVars, userVars, dispatchVars, TypeOK, NeverOversleeps,
       Signalled
  <1>8. QED
    BY <1>1, <1>2, <1>3, <1>4, <1>5, <1>6, <1>7 DEF IInv

\* wait_duration() reads the first expiration, the least one of a sorted list.
LEMMA WaitBeginInv ==
    ASSUME IInv, WaitBegin
    PROVE  IInv'
  <1>1. TypeOK'
    BY ConstantFacts DEF IInv, TypeOK, WaitBegin, timerVars, userVars, dispatchVars, LoopPoint
  <1>2. /\ IsInjective(list)'
        /\ CallsAgree'
        /\ StartsUnlisted'
        /\ TypesWritten'
        /\ ChangesCounted'
    BY DEF IInv, WaitBegin, timerVars, userVars, dispatchVars, CallsAgree, Calling,
       StartsUnlisted, TypesWritten, ChangesCounted
  <1>3. StatusAgrees'
    BY DEF IInv, WaitBegin, timerVars, userVars, dispatchVars, TypeOK, StatusAgrees,
       Dispatching, Current
  <1>4. DispatchAgrees'
    BY DEF IInv, WaitBegin, timerVars, userVars, dispatchVars, TypeOK, DispatchAgrees, Unspent,
       Current
  <1>5. WakeAgrees'
    BY DEF IInv, WaitBegin, timerVars, userVars, dispatchVars, TypeOK, WakeAgrees
  <1>6. OrderKept'
    BY DEF IInv, WaitBegin, timerVars, userVars, dispatchVars, TypeOK, OrderKept, Dispatching,
       Calling, Ordered, IsSorted
  <1>7. NeverOversleeps'
    <2>1. SUFFICES ASSUME loop' = "select", \A u \in User : pc[u] = "idle",
                          NEW i \in DOMAIN list, due[list[i]] < deadline'
                   PROVE  FALSE
      BY DEF NeverOversleeps, WaitBegin, timerVars, userVars
    <2>2. list # <<>> /\ deadline' = due[list[1]]
      BY <2>1 DEF WaitBegin
    <2>3. Ordered(list)
      BY <2>1 DEF IInv, OrderKept, Dispatching, Calling, WaitBegin
    <2>4. i \in 1 .. Len(list) /\ 1 \in 1 .. Len(list) /\ list[i] \in Timer /\ list[1] \in Timer
      BY <2>1, <2>2 DEF IInv, TypeOK
    <2>5. due[list[1]] <= due[list[i]]
      <3>1. CASE i = 1
        BY <2>4, <3>1 DEF IInv, TypeOK, Time
      <3>2. CASE i # 1
        BY <2>3, <2>4, <3>2 DEF Ordered, IsSorted
      <3>3. QED
        BY <3>1, <3>2
    <2>6. due[list[1]] \in Int /\ due[list[i]] \in Int
      BY <2>4, ConstantFacts DEF IInv, TypeOK, Time
    <2>7. QED
      BY <2>1, <2>2, <2>5, <2>6
  <1>8. QED
    BY <1>1, <1>2, <1>3, <1>4, <1>5, <1>6, <1>7 DEF IInv

\* When select() returns for the changed event or the pipe it waits for nothing.
LEMMA SelectReadyInv ==
    ASSUME IInv, SelectReady
    PROVE  IInv'
  <1>1. TypeOK'
    BY ConstantFacts DEF IInv, TypeOK, SelectReady, timerVars, userVars, dispatchVars,
       LoopPoint
  <1>2. /\ IsInjective(list)'
        /\ CallsAgree'
        /\ StartsUnlisted'
        /\ TypesWritten'
        /\ ChangesCounted'
    BY DEF IInv, SelectReady, timerVars, userVars, dispatchVars, CallsAgree, Calling,
       StartsUnlisted, TypesWritten, ChangesCounted
  <1>3. StatusAgrees'
    BY DEF IInv, SelectReady, timerVars, userVars, dispatchVars, TypeOK, StatusAgrees,
       Dispatching, Current
  <1>4. DispatchAgrees'
    BY DEF IInv, SelectReady, timerVars, userVars, dispatchVars, TypeOK, DispatchAgrees,
       Unspent, Current
  <1>5. WakeAgrees'
    BY DEF IInv, SelectReady, timerVars, userVars, dispatchVars, TypeOK, WakeAgrees
  <1>6. OrderKept'
    BY DEF IInv, SelectReady, timerVars, userVars, dispatchVars, TypeOK, OrderKept,
       Dispatching, Calling, Ordered, IsSorted
  <1>7. NeverOversleeps'
    BY DEF IInv, SelectReady, timerVars, userVars, dispatchVars, TypeOK, NeverOversleeps,
       Signalled
  <1>8. QED
    BY <1>1, <1>2, <1>3, <1>4, <1>5, <1>6, <1>7 DEF IInv

\* When select() returns for another event it waits for nothing.
LEMMA SelectOtherInv ==
    ASSUME IInv, SelectOther
    PROVE  IInv'
  <1>1. TypeOK'
    BY ConstantFacts DEF IInv, TypeOK, SelectOther, timerVars, userVars, dispatchVars,
       LoopPoint
  <1>2. /\ IsInjective(list)'
        /\ CallsAgree'
        /\ StartsUnlisted'
        /\ TypesWritten'
        /\ ChangesCounted'
    BY DEF IInv, SelectOther, timerVars, userVars, dispatchVars, CallsAgree, Calling,
       StartsUnlisted, TypesWritten, ChangesCounted
  <1>3. StatusAgrees'
    BY DEF IInv, SelectOther, timerVars, userVars, dispatchVars, TypeOK, StatusAgrees,
       Dispatching, Current
  <1>4. DispatchAgrees'
    BY DEF IInv, SelectOther, timerVars, userVars, dispatchVars, TypeOK, DispatchAgrees,
       Unspent, Current
  <1>5. WakeAgrees'
    BY DEF IInv, SelectOther, timerVars, userVars, dispatchVars, TypeOK, WakeAgrees
  <1>6. OrderKept'
    BY DEF IInv, SelectOther, timerVars, userVars, dispatchVars, TypeOK, OrderKept,
       Dispatching, Calling, Ordered, IsSorted
  <1>7. NeverOversleeps'
    BY DEF IInv, SelectOther, timerVars, userVars, dispatchVars, TypeOK, NeverOversleeps,
       Signalled
  <1>8. QED
    BY <1>1, <1>2, <1>3, <1>4, <1>5, <1>6, <1>7 DEF IInv

\* When select() times out it gives dispatch() the time, and takes no lock yet.
LEMMA SelectTimeoutInv ==
    ASSUME IInv, SelectTimeout
    PROVE  IInv'
  <1>1. TypeOK'
    BY ConstantFacts DEF IInv, TypeOK, SelectTimeout, timerVars, userVars, LoopPoint
  <1>2. /\ IsInjective(list)'
        /\ CallsAgree'
        /\ StartsUnlisted'
        /\ TypesWritten'
        /\ ChangesCounted'
    BY DEF IInv, SelectTimeout, timerVars, userVars, CallsAgree, Calling, StartsUnlisted,
       TypesWritten, ChangesCounted
  <1>3. StatusAgrees'
    BY DEF IInv, SelectTimeout, timerVars, userVars, TypeOK, StatusAgrees, Dispatching, Current
  <1>4. DispatchAgrees'
    BY DEF IInv, SelectTimeout, timerVars, userVars, TypeOK, DispatchAgrees, Unspent, Current
  <1>5. WakeAgrees'
    BY DEF IInv, SelectTimeout, timerVars, userVars, TypeOK, WakeAgrees
  <1>6. OrderKept'
    BY DEF IInv, SelectTimeout, timerVars, userVars, TypeOK, OrderKept, Dispatching, Calling,
       Ordered, IsSorted
  <1>7. NeverOversleeps'
    BY DEF IInv, SelectTimeout, timerVars, userVars, TypeOK, NeverOversleeps, Signalled
  <1>8. QED
    BY <1>1, <1>2, <1>3, <1>4, <1>5, <1>6, <1>7 DEF IInv

\* The loop reads a byte of its pipe and hands a readable changed event to a worker.
LEMMA DemultiplexInv ==
    ASSUME IInv, Demultiplex
    PROVE  IInv'
  <1>1. TypeOK'
    <2>1. nops' \in Nat
      BY DEF IInv, TypeOK, Demultiplex
    <2>2. QED
      BY <2>1 DEF IInv, TypeOK, Demultiplex, timerVars, userVars, dispatchVars, LoopPoint
  <1>2. /\ IsInjective(list)'
        /\ CallsAgree'
        /\ StartsUnlisted'
        /\ TypesWritten'
    BY DEF IInv, Demultiplex, timerVars, userVars, dispatchVars, CallsAgree, Calling,
       StartsUnlisted, TypesWritten
  <1>3. StatusAgrees'
    BY DEF IInv, Demultiplex, timerVars, userVars, dispatchVars, TypeOK, StatusAgrees,
       Dispatching, Current
  <1>4. DispatchAgrees'
    BY DEF IInv, Demultiplex, timerVars, userVars, dispatchVars, TypeOK, DispatchAgrees,
       Unspent, Current
  <1>5. ChangesCounted'
    BY DEF IInv, Demultiplex, timerVars, userVars, dispatchVars, TypeOK, ChangesCounted,
       Calling
  <1>6. WakeAgrees'
    BY DEF IInv, Demultiplex, timerVars, userVars, dispatchVars, TypeOK, WakeAgrees
  <1>7. OrderKept'
    BY DEF IInv, Demultiplex, timerVars, userVars, dispatchVars, TypeOK, OrderKept,
       Dispatching, Calling, Ordered, IsSorted
  <1>8. NeverOversleeps'
    BY DEF IInv, Demultiplex, timerVars, userVars, dispatchVars, TypeOK, NeverOversleeps,
       Signalled
  <1>9. QED
    BY <1>1, <1>2, <1>3, <1>4, <1>5, <1>6, <1>7, <1>8 DEF IInv

\* The worker's byte of the changed event is there to be read.
LEMMA CaptureInv ==
    ASSUME IInv, Capture
    PROVE  IInv'
  <1>1. TypeOK'
    <2>1. changed \in 0 .. MaxCalls /\ changed > 0
      BY DEF IInv, TypeOK, ChangesCounted, Capture
    <2>2. changed' \in 0 .. MaxCalls
      BY <2>1, ConstantFacts DEF Capture
    <2>3. QED
      BY <2>2 DEF IInv, TypeOK, Capture, timerVars, userVars, dispatchVars
  <1>2. /\ IsInjective(list)'
        /\ CallsAgree'
        /\ StartsUnlisted'
        /\ TypesWritten'
        /\ StatusAgrees'
        /\ DispatchAgrees'
        /\ OrderKept'
    BY DEF IInv, Capture, timerVars, userVars, dispatchVars, CallsAgree, Calling,
       StartsUnlisted, TypesWritten, StatusAgrees, Dispatching, Current, DispatchAgrees,
       Unspent, OrderKept, Ordered, IsSorted
  <1>3. ChangesCounted'
    <2>1. Calling' = Calling
      BY DEF Capture, userVars, Calling
    <2>2. Cardinality(Calling) \in Nat
      BY FS_CardinalityType DEF IInv, ChangesCounted
    <2>3. QED
      BY <2>1, <2>2 DEF IInv, TypeOK, ChangesCounted, Capture, userVars
  <1>4. WakeAgrees'
    BY DEF IInv, Capture, timerVars, userVars, dispatchVars, TypeOK, WakeAgrees
  <1>5. NeverOversleeps'
    BY DEF IInv, Capture, timerVars, userVars, dispatchVars, TypeOK, NeverOversleeps, Signalled
  <1>6. QED
    BY <1>1, <1>2, <1>3, <1>4, <1>5 DEF IInv

\* Putting the changed event back writes to the pipe, for changes made meanwhile.
LEMMA ReAddInv ==
    ASSUME IInv, ReAdd
    PROVE  IInv'
  <1>1. TypeOK'
    BY ConstantFacts DEF IInv, TypeOK, ReAdd, timerVars, userVars, dispatchVars, LoopPoint
  <1>2. /\ IsInjective(list)'
        /\ CallsAgree'
        /\ StartsUnlisted'
        /\ TypesWritten'
        /\ StatusAgrees'
        /\ DispatchAgrees'
        /\ OrderKept'
    BY DEF IInv, ReAdd, timerVars, userVars, dispatchVars, CallsAgree, Calling, StartsUnlisted,
       TypesWritten, StatusAgrees, Dispatching, Current, DispatchAgrees, Unspent, OrderKept,
       Ordered, IsSorted
  <1>3. ChangesCounted'
    BY DEF IInv, ReAdd, timerVars, userVars, dispatchVars, TypeOK, ChangesCounted, Calling
  <1>4. WakeAgrees'
    BY DEF IInv, ReAdd, timerVars, userVars, dispatchVars, TypeOK, WakeAgrees
  <1>5. NeverOversleeps'
    BY DEF IInv, ReAdd, timerVars, userVars, dispatchVars, TypeOK, NeverOversleeps, Signalled
  <1>6. QED
    BY <1>1, <1>2, <1>3, <1>4, <1>5 DEF IInv

\* When dispatch() has the mutex no listed once-off timer has been signalled.
LEMMA DispatchLockInv ==
    ASSUME IInv, DispatchLock
    PROVE  IInv'
  <1>1. TypeOK'
    BY ConstantFacts DEF IInv, TypeOK, DispatchLock, timerVars, userVars, wakeVars, LoopPoint
  <1>2. /\ IsInjective(list)'
        /\ CallsAgree'
        /\ StartsUnlisted'
        /\ TypesWritten'
        /\ ChangesCounted'
    BY DEF IInv, DispatchLock, timerVars, userVars, wakeVars, CallsAgree, Calling,
       StartsUnlisted, TypesWritten, ChangesCounted
  <1>3. StatusAgrees'
    BY DEF IInv, DispatchLock, timerVars, userVars, wakeVars, TypeOK, StatusAgrees,
       Dispatching, Current
  <1>4. DispatchAgrees'
    <2>1. Unspent(1)'
      BY DEF IInv, TypeOK, StatusAgrees, Dispatching, Unspent, ToSet, DispatchLock, userVars
    <2>2. QED
      BY <2>1 DEF DispatchAgrees, DispatchLock
  <1>5. WakeAgrees'
    BY DEF IInv, DispatchLock, timerVars, userVars, wakeVars, TypeOK, WakeAgrees
  <1>6. OrderKept'
    BY DEF IInv, DispatchLock, timerVars, userVars, wakeVars, TypeOK, OrderKept, Dispatching,
       Calling, Ordered, IsSorted
  <1>7. NeverOversleeps'
    BY DEF IInv, DispatchLock, timerVars, userVars, wakeVars, TypeOK, NeverOversleeps,
       Signalled
  <1>8. QED
    BY <1>1, <1>2, <1>3, <1>4, <1>5, <1>6, <1>7 DEF IInv

\* dispatch() leaves its loop with the mutex held.
LEMMA DispatchEndsInv ==
    ASSUME IInv, DispatchEnds
    PROVE  IInv'
  <1>1. TypeOK'
    BY ConstantFacts DEF IInv, TypeOK, DispatchEnds, timerVars, userVars, dispatchVars,
       wakeVars, LoopPoint
  <1>2. /\ IsInjective(list)'
        /\ CallsAgree'
        /\ StartsUnlisted'
        /\ TypesWritten'
        /\ ChangesCounted'
    BY DEF IInv, DispatchEnds, timerVars, userVars, dispatchVars, wakeVars, CallsAgree,
       Calling, StartsUnlisted, TypesWritten, ChangesCounted
  <1>3. StatusAgrees'
    BY DEF IInv, DispatchEnds, timerVars, userVars, dispatchVars, wakeVars, TypeOK,
       StatusAgrees, Dispatching, Current
  <1>4. DispatchAgrees'
    BY DEF IInv, DispatchEnds, timerVars, userVars, dispatchVars, wakeVars, TypeOK,
       DispatchAgrees, Unspent, Current
  <1>5. WakeAgrees'
    BY DEF IInv, DispatchEnds, timerVars, userVars, dispatchVars, wakeVars, TypeOK, WakeAgrees
  <1>6. OrderKept'
    BY DEF IInv, DispatchEnds, timerVars, userVars, dispatchVars, wakeVars, TypeOK, OrderKept,
       Dispatching, Calling, Ordered, IsSorted
  <1>7. NeverOversleeps'
    BY DEF IInv, DispatchEnds, timerVars, userVars, dispatchVars, wakeVars, TypeOK,
       NeverOversleeps, Signalled
  <1>8. QED
    BY <1>1, <1>2, <1>3, <1>4, <1>5, <1>6, <1>7 DEF IInv

\* on_expired() reads a type and, of a periodic timer, an interval it can advance by.
LEMMA ReadTimerInv ==
    ASSUME IInv, ReadTimer
    PROVE  IInv'
  <1>a. index \in DOMAIN list /\ Current \in Timer /\ Current \in ToSet(list)
    BY CurrentFacts DEF IInv, TypeOK, ReadTimer
  <1>1. TypeOK'
    <2>1. next' \in Time
      <3>1. CASE kind[Current] = "PERIODIC" /\ next' = Advanced(due[Current], interval[Current])
        <4>1. due[Current] \in Time /\ due[Current] <= epoch /\ interval[Current] \in Interval
          BY <1>a, <3>1 DEF IInv, TypeOK, TypesWritten, ReadTimer
        <4>2. QED
          BY <3>1, <4>1, AdvancedFacts DEF IInv
      <3>2. CASE UNCHANGED next
        BY <3>2 DEF IInv, TypeOK
      <3>3. QED
        BY <3>1, <3>2 DEF ReadTimer
    <2>2. loop' \in LoopPoint
      BY DEF ReadTimer, LoopPoint
    <2>3. QED
      BY <2>1, <2>2 DEF IInv, TypeOK, ReadTimer, timerVars, userVars, wakeVars
  <1>2. /\ IsInjective(list)'
        /\ CallsAgree'
        /\ StartsUnlisted'
        /\ TypesWritten'
        /\ ChangesCounted'
    BY DEF IInv, ReadTimer, timerVars, userVars, wakeVars, CallsAgree, Calling, StartsUnlisted,
       TypesWritten, ChangesCounted
  <1>3. StatusAgrees'
    BY DEF IInv, ReadTimer, timerVars, userVars, wakeVars, TypeOK, StatusAgrees, Dispatching,
       Current
  <1>4. DispatchAgrees'
    <2>1. Unspent(index)' /\ Current' = Current
      BY DEF IInv, DispatchAgrees, Unspent, Current, ReadTimer, timerVars, userVars, wakeVars
    <2>2. status[Current] = "ONCE_OFF" => kind[Current] # "PERIODIC"
      BY <1>a DEF IInv, TypeOK, StatusAgrees, ReadTimer
    <2>3. QED
      BY <1>a, <2>1, <2>2 DEF DispatchAgrees, ReadTimer, timerVars, userVars
  <1>5. WakeAgrees'
    BY DEF IInv, ReadTimer, timerVars, userVars, wakeVars, TypeOK, WakeAgrees
  <1>6. OrderKept'
    BY DEF IInv, ReadTimer, timerVars, userVars, wakeVars, TypeOK, OrderKept, Dispatching,
       Calling, Ordered, IsSorted
  <1>7. NeverOversleeps'
    BY DEF IInv, ReadTimer, timerVars, userVars, wakeVars, TypeOK, NeverOversleeps, Signalled
  <1>8. QED
    BY <1>1, <1>2, <1>3, <1>4, <1>5, <1>6, <1>7 DEF IInv

\* on_expired() stores the next expiration, which may leave the list unsorted for now.
LEMMA StoreDueInv ==
    ASSUME IInv, StoreDue
    PROVE  IInv'
  <1>1. TypeOK'
    <2>1. Current \in Timer
      BY CurrentFacts DEF IInv, DispatchAgrees, StoreDue
    <2>2. 0 \in Time
      BY ConstantFacts
    <2>3. QED
      BY <2>1, <2>2 DEF IInv, TypeOK, StoreDue, userVars, wakeVars, LoopPoint
  <1>2. /\ IsInjective(list)'
        /\ CallsAgree'
        /\ StartsUnlisted'
        /\ TypesWritten'
        /\ ChangesCounted'
    BY DEF IInv, StoreDue, userVars, wakeVars, CallsAgree, Calling, StartsUnlisted,
       TypesWritten, ChangesCounted
  <1>3. StatusAgrees'
    BY DEF IInv, StoreDue, userVars, wakeVars, TypeOK, StatusAgrees, Dispatching, Current
  <1>4. DispatchAgrees'
    BY DEF IInv, StoreDue, userVars, wakeVars, TypeOK, DispatchAgrees, Unspent, Current
  <1>5. WakeAgrees'
    BY DEF IInv, StoreDue, userVars, wakeVars, TypeOK, WakeAgrees
  <1>6. OrderKept'
    BY DEF IInv, StoreDue, userVars, wakeVars, TypeOK, OrderKept, Dispatching, Calling,
       Ordered, IsSorted
  <1>7. NeverOversleeps'
    BY DEF IInv, StoreDue, userVars, wakeVars, TypeOK, NeverOversleeps, Signalled
  <1>8. QED
    BY <1>1, <1>2, <1>3, <1>4, <1>5, <1>6, <1>7 DEF IInv

\* on_expired() makes a once-off timer inactive, and no timer that is being started.
LEMMA SpendInv ==
    ASSUME IInv, Spend
    PROVE  IInv'
  <1> DEFINE c == Current
  <1>a. /\ index \in DOMAIN list /\ c \in Timer /\ c \in ToSet(list)
        /\ kind[c] # "PERIODIC"
    BY CurrentFacts DEF IInv, DispatchAgrees, Spend
  <1>b. kind'[c] = "UNKNOWN" /\ \A x \in Timer : x # c => kind'[x] = kind[x]
    BY <1>a DEF IInv, TypeOK, Spend
  <1>1. TypeOK'
    <2>1. Current \in Timer
      BY CurrentFacts DEF IInv, DispatchAgrees, Spend
    <2>2. QED
      BY <2>1 DEF IInv, TypeOK, Spend, userVars, dispatchVars, wakeVars, LoopPoint, Kind
  <1>2. /\ IsInjective(list)'
        /\ CallsAgree'
        /\ StartsUnlisted'
        /\ ChangesCounted'
    BY DEF IInv, Spend, userVars, dispatchVars, wakeVars, CallsAgree, Calling, StartsUnlisted,
       ChangesCounted
  <1>3. TypesWritten'
    <2>1. ASSUME NEW v \in User, pc[v] \in {"due", "list"}
          PROVE  kind'[call[v].timer] = call[v].kind
      <3>1. v \in Calling /\ call[v].timer \in Timer
        BY <2>1, CallFacts
      <3>2. kind[call[v].timer] = call[v].kind
        BY <2>1 DEF IInv, TypesWritten
      <3>3. call[v].timer = c => call[v].kind = "UNKNOWN"
        BY <1>a, <3>1 DEF IInv, StartsUnlisted
      <3>4. QED
        BY <1>b, <3>1, <3>2, <3>3
    <2>2. ASSUME NEW x \in Timer, kind'[x] = "PERIODIC" PROVE interval[x] \in Interval
      BY <1>b, <2>2 DEF IInv, TypesWritten
    <2>3. QED
      BY <2>1, <2>2 DEF TypesWritten, Spend, userVars
  <1>4. StatusAgrees'
    <2>1. ASSUME NEW x \in Timer PROVE StatusAgrees!(x)'
      <3>1. StatusAgrees!(x)
        BY DEF IInv, StatusAgrees
      <3>2. CASE x = c
        BY <1>a, <1>b, <3>1, <3>2 DEF Spend, userVars, dispatchVars, Dispatching, Current
      <3>3. CASE x # c
        BY <1>b, <3>1, <3>3 DEF Spend, userVars, dispatchVars, Dispatching, Current
      <3>4. QED
        BY <3>2, <3>3
    <2>2. QED
      BY <2>1 DEF StatusAgrees
  <1>5. DispatchAgrees'
    BY DEF IInv, Spend, userVars, dispatchVars, wakeVars, TypeOK, DispatchAgrees, Unspent,
       Current
  <1>6. WakeAgrees'
    BY DEF IInv, Spend, userVars, dispatchVars, wakeVars, TypeOK, WakeAgrees
  <1>7. OrderKept'
    BY DEF IInv, Spend, userVars, dispatchVars, wakeVars, TypeOK, OrderKept, Dispatching,
       Calling, Ordered, IsSorted
  <1>8. NeverOversleeps'
    BY DEF IInv, Spend, userVars, dispatchVars, wakeVars, TypeOK, NeverOversleeps, Signalled
  <1>9. QED
    BY <1>1, <1>2, <1>3, <1>4, <1>5, <1>6, <1>7, <1>8 DEF IInv

\* A once-off timer that is signalled has not been before, and is at no later position.
LEMMA PublishInv ==
    ASSUME IInv, Publish
    PROVE  IInv'
  <1> DEFINE c == Current
  <1>a. index \in DOMAIN list /\ c \in Timer /\ c \in ToSet(list)
    BY CurrentFacts DEF IInv, DispatchAgrees, Publish
  <1>b. /\ shots'[c] = IF shots[c] < 2 THEN shots[c] + 1 ELSE shots[c]
        /\ \A x \in Timer : x # c => shots'[x] = shots[x]
    BY <1>a DEF IInv, TypeOK, Publish
  <1>c. status[c] = "ONCE_OFF" => shots[c] = 0 /\ kind[c] = "UNKNOWN"
    BY <1>a DEF IInv, TypeOK, DispatchAgrees, Unspent, Publish, Current
  <1>1. TypeOK'
    <2>1. Current \in Timer
      BY CurrentFacts DEF IInv, DispatchAgrees, Publish
    <2>2. QED
      BY <2>1 DEF IInv, TypeOK, Publish, timerVars, userVars, dispatchVars, wakeVars, LoopPoint
  <1>2. /\ IsInjective(list)'
        /\ CallsAgree'
        /\ TypesWritten'
        /\ ChangesCounted'
    BY DEF IInv, Publish, timerVars, userVars, dispatchVars, wakeVars, CallsAgree, Calling,
       TypesWritten, ChangesCounted
  <1>3. StartsUnlisted'
    <2>1. ASSUME NEW v \in Calling, call[v].kind # "UNKNOWN"
          PROVE  call[v].timer \notin ToSet(list) /\ shots'[call[v].timer] = 0
      <3>1. /\ call[v].timer \in Timer /\ call[v].timer \notin ToSet(list)
            /\ shots[call[v].timer] = 0
        BY <2>1, CallFacts DEF IInv, StartsUnlisted, Calling
      <3>2. QED
        BY <1>a, <1>b, <3>1
    <2>2. QED
      BY <2>1 DEF StartsUnlisted, Calling, Publish, userVars
  <1>4. StatusAgrees'
    <2>1. ASSUME NEW x \in Timer PROVE StatusAgrees!(x)'
      <3>1. StatusAgrees!(x)
        BY DEF IInv, StatusAgrees
      <3>2. CASE x = c
        BY <1>a, <1>b, <1>c, <3>1, <3>2 DEF Publish, timerVars, userVars, dispatchVars,
           Dispatching
      <3>3. CASE x # c
        BY <1>b, <3>1, <3>3 DEF Publish, timerVars, userVars, dispatchVars, Dispatching,
           Current
      <3>4. QED
        BY <3>2, <3>3
    <2>2. QED
      BY <2>1 DEF StatusAgrees
  <1>5. DispatchAgrees'
    <2>1. ASSUME NEW j \in DOMAIN list, j >= index + 1, status[list[j]] = "ONCE_OFF"
          PROVE  shots'[list[j]] = 0
      <3>1. j \in Nat /\ index \in Nat /\ list[j] \in Timer
        BY DEF IInv, TypeOK
      <3>2. list[j] # c
        BY <1>a, <2>1, <3>1 DEF IInv, IsInjective, Current
      <3>3. shots[list[j]] = 0
        BY <2>1, <3>1 DEF IInv, DispatchAgrees, Unspent, Publish
      <3>4. QED
        BY <1>b, <3>1, <3>2, <3>3
    <2>2. QED
      BY <1>a, <2>1 DEF DispatchAgrees, Unspent, Publish, userVars, dispatchVars
  <1>6. WakeAgrees'
    BY DEF IInv, Publish, timerVars, userVars, dispatchVars, wakeVars, TypeOK, WakeAgrees
  <1>7. OrderKept'
    BY DEF IInv, Publish, timerVars, userVars, dispatchVars, wakeVars, TypeOK, OrderKept,
       Dispatching, Calling, Ordered, IsSorted
  <1>8. NeverOversleeps'
    BY DEF IInv, Publish, timerVars, userVars, dispatchVars, wakeVars, TypeOK, NeverOversleeps,
       Signalled
  <1>9. QED
    BY <1>1, <1>2, <1>3, <1>4, <1>5, <1>6, <1>7, <1>8 DEF IInv

\* dispatch() goes on to a timer that it has not come to.
LEMMA HandlerReturnsInv ==
    ASSUME IInv, HandlerReturns
    PROVE  IInv'
  <1>1. TypeOK'
    BY ConstantFacts DEF IInv, TypeOK, HandlerReturns, timerVars, userVars, wakeVars, LoopPoint
  <1>2. /\ IsInjective(list)'
        /\ CallsAgree'
        /\ StartsUnlisted'
        /\ TypesWritten'
        /\ ChangesCounted'
    BY DEF IInv, HandlerReturns, timerVars, userVars, wakeVars, CallsAgree, Calling,
       StartsUnlisted, TypesWritten, ChangesCounted
  <1>3. StatusAgrees'
    BY DEF IInv, HandlerReturns, timerVars, userVars, wakeVars, TypeOK, StatusAgrees,
       Dispatching, Current
  <1>4. DispatchAgrees'
    BY DEF IInv, HandlerReturns, timerVars, userVars, wakeVars, TypeOK, DispatchAgrees,
       Unspent, Current
  <1>5. WakeAgrees'
    BY DEF IInv, HandlerReturns, timerVars, userVars, wakeVars, TypeOK, WakeAgrees
  <1>6. OrderKept'
    BY DEF IInv, HandlerReturns, timerVars, userVars, wakeVars, TypeOK, OrderKept, Dispatching,
       Calling, Ordered, IsSorted
  <1>7. NeverOversleeps'
    BY DEF IInv, HandlerReturns, timerVars, userVars, wakeVars, TypeOK, NeverOversleeps,
       Signalled
  <1>8. QED
    BY <1>1, <1>2, <1>3, <1>4, <1>5, <1>6, <1>7 DEF IInv

\* dispatch() drops the timers that are spent and leaves the list in order.
LEMMA SortListInv ==
    ASSUME IInv, SortList
    PROVE  IInv'
  <1>a. /\ list' \in Seq(Timer)
        /\ ToSet(list') = {x \in ToSet(list) : kind[x] # "UNKNOWN"}
        /\ IsInjective(list')
        /\ Ordered(list')
    BY SortedFacts DEF IInv, TypeOK, SortList
  <1>1. TypeOK'
    BY <1>a, ConstantFacts DEF IInv, TypeOK, SortList, timerVars, userVars, wakeVars, LoopPoint
  <1>2. /\ CallsAgree'
        /\ TypesWritten'
        /\ ChangesCounted'
    BY DEF IInv, SortList, timerVars, userVars, wakeVars, CallsAgree, Calling, TypesWritten,
       ChangesCounted
  <1>3. IsInjective(list)'
    BY <1>a
  <1>4. StartsUnlisted'
    BY <1>a DEF IInv, SortList, userVars, StartsUnlisted, Calling
  <1>5. StatusAgrees'
    <2>1. ASSUME NEW x \in Timer PROVE StatusAgrees!(x)'
      <3>1. StatusAgrees!(x)
        BY DEF IInv, StatusAgrees
      <3>2. QED
        BY <1>a, <3>1 DEF SortList, timerVars, userVars, Dispatching
    <2>2. QED
      BY <2>1 DEF StatusAgrees
  <1>6. DispatchAgrees'
    BY DEF IInv, SortList, timerVars, userVars, wakeVars, TypeOK, DispatchAgrees, Unspent,
       Current
  <1>7. WakeAgrees'
    BY DEF IInv, SortList, timerVars, userVars, wakeVars, TypeOK, WakeAgrees
  <1>8. OrderKept'
    BY <1>a DEF SortList, timerVars, OrderKept, Ordered, IsSorted
  <1>9. NeverOversleeps'
    BY DEF IInv, SortList, timerVars, userVars, wakeVars, TypeOK, NeverOversleeps, Signalled
  <1>10. QED
    BY <1>1, <1>2, <1>3, <1>4, <1>5, <1>6, <1>7, <1>8, <1>9 DEF IInv

\* A handler that stops a timer locks the loop out, with the list as it was.
LEMMA HandlerStopsInv ==
    ASSUME IInv, NEW t \in Timer, HandlerStops(t)
    PROVE  IInv'
  <1>1. TypeOK'
    BY ConstantFacts DEF IInv, TypeOK, HandlerStops, dispatchVars, wakeVars, LoopPoint, Kind
  <1>2. /\ IsInjective(list)'
        /\ StartsUnlisted'
        /\ ChangesCounted'
    BY DEF IInv, HandlerStops, dispatchVars, wakeVars, StartsUnlisted, Calling, ChangesCounted
  <1>3. CallsAgree'
    BY DEF IInv, HandlerStops, dispatchVars, wakeVars, TypeOK, CallsAgree, Calling
  <1>4. TypesWritten'
    <2>1. \A x \in Timer : x # t => kind'[x] = kind[x]
      BY DEF IInv, TypeOK, HandlerStops
    <2>2. kind'[t] = "UNKNOWN"
      BY DEF IInv, TypeOK, HandlerStops
    <2>3. \A v \in User : pc[v] # "idle" => call[v].timer \in Timer /\ call[v].timer # t
      BY CallFacts DEF HandlerStops
    <2>4. QED
      BY <2>1, <2>2, <2>3 DEF IInv, TypesWritten, HandlerStops
  <1>5. StatusAgrees'
    BY DEF IInv, HandlerStops, dispatchVars, wakeVars, TypeOK, StatusAgrees, Dispatching,
       Current
  <1>6. DispatchAgrees'
    BY DEF IInv, HandlerStops, dispatchVars, wakeVars, TypeOK, DispatchAgrees, Unspent, Current
  <1>7. WakeAgrees'
    BY DEF IInv, HandlerStops, dispatchVars, wakeVars, TypeOK, WakeAgrees
  <1>8. OrderKept'
    BY DEF IInv, HandlerStops, dispatchVars, wakeVars, TypeOK, OrderKept, Dispatching, Calling,
       Ordered, IsSorted
  <1>9. NeverOversleeps'
    BY DEF IInv, HandlerStops, dispatchVars, wakeVars, TypeOK, NeverOversleeps, Signalled
  <1>10. QED
    BY <1>1, <1>2, <1>3, <1>4, <1>5, <1>6, <1>7, <1>8, <1>9 DEF IInv
\* timer::start(), at() and stop() begin: the timer is the caller's from here on.
LEMMA BeginInv ==
    ASSUME IInv, NEW u \in User, NEW c \in Call, Begin(u, c),
           c.kind = "PERIODIC" => c.interval \in Interval,
           c.kind # "UNKNOWN" => status[c.timer] = "UNKNOWN"
    PROVE  IInv'
  <1> DEFINE t == c.timer
  <1>a. /\ t \in Timer /\ status[t] # "busy" /\ u \in User \ Calling
        /\ \A v \in Calling : v \in User /\ call[v].timer \in Timer /\ call[v].timer # t
    BY CallFacts DEF Begin, Call, Calling
  <1>b. /\ pc'[u] = "type" /\ call'[u] = c
        /\ \A v \in User : v # u => pc'[v] = pc[v] /\ call'[v] = call[v]
        /\ Calling' = Calling \union {u}
    BY DEF IInv, TypeOK, Begin, Calling
  <1>c. /\ status'[t] = "busy" /\ shots'[t] = 0
        /\ \A x \in Timer : x # t => status'[x] = status[x] /\ shots'[x] = shots[x]
    BY <1>a DEF IInv, TypeOK, Begin
  <1>d. loop' = loop /\ list' = list /\ kind' = kind /\ interval' = interval /\ due' = due
    BY DEF Begin, timerVars
  <1>1. TypeOK'
    <2>1. calls' \in 0 .. MaxCalls
      BY ConstantFacts DEF IInv, TypeOK, Begin
    <2>2. shots' \in [Timer -> 0 .. 2] /\ status' \in [Timer -> Kind \union {"busy"}]
      BY <1>a DEF IInv, TypeOK, Begin
    <2>3. pc' \in [User -> UserPoint] /\ call' \in [User -> Call \union {None}]
      BY DEF IInv, TypeOK, Begin, UserPoint
    <2>4. QED
      BY <2>1, <2>2, <2>3 DEF IInv, TypeOK, Begin, timerVars, dispatchVars, wakeVars
  <1>2. IsInjective(list)'
    BY <1>d DEF IInv
  <1>3. CallsAgree'
    <2>1. ASSUME NEW v \in Calling'
          PROVE  /\ call'[v] \in Call /\ status'[call'[v].timer] = "busy"
                 /\ call'[v].kind = "PERIODIC" => call'[v].interval \in Interval
      <3>1. CASE v = u
        BY <1>b, <1>c, <3>1
      <3>2. CASE v # u
        BY <1>a, <1>b, <1>c, <2>1, <3>2 DEF IInv, CallsAgree
      <3>3. QED
        BY <3>1, <3>2
    <2>2. ASSUME NEW v \in Calling', NEW w \in Calling', call'[v].timer = call'[w].timer
          PROVE  v = w
      BY <1>a, <1>b, <2>2 DEF IInv, CallsAgree
    <2>3. interval' = interval
      BY <1>d
    <2>4. QED
      BY <2>1, <2>2 DEF CallsAgree
  <1>4. StartsUnlisted'
    <2>1. ASSUME NEW v \in Calling', call'[v].kind # "UNKNOWN"
          PROVE  call'[v].timer \notin ToSet(list) /\ shots'[call'[v].timer] = 0
      <3>1. CASE v = u
        BY <1>a, <1>b, <1>c, <2>1, <3>1 DEF IInv, StatusAgrees
      <3>2. CASE v # u
        BY <1>a, <1>b, <1>c, <2>1, <3>2 DEF IInv, StartsUnlisted
      <3>3. QED
        BY <3>1, <3>2
    <2>2. QED
      BY <1>d, <2>1 DEF StartsUnlisted
  <1>5. TypesWritten'
    BY <1>b, <1>d DEF IInv, TypesWritten
  <1>6. StatusAgrees'
    <2>1. ASSUME NEW x \in Timer, x # t PROVE StatusAgrees!(x)'
      <3>1. StatusAgrees!(x)
        BY DEF IInv, StatusAgrees
      <3>2. Dispatching' = Dispatching /\ Current' = Current
        BY DEF Begin, Dispatching, Current, dispatchVars
      <3>3. QED
        BY <1>c, <1>d, <2>1, <3>1, <3>2
    <2>2. QED
      BY <1>c, <2>1 DEF StatusAgrees
  <1>7. DispatchAgrees'
    <2>1. \A i : Unspent(i) => Unspent(i)'
      BY <1>c, <1>d DEF IInv, TypeOK, Unspent
    <2>2. index' = index /\ Current' = Current
      BY DEF Begin, Current, dispatchVars
    <2>3. index \in DOMAIN list => (status'[Current] = "ONCE_OFF" => status[Current] = "ONCE_OFF")
      BY <1>c, CurrentFacts
    <2>4. (Unspent(index) => Unspent(index)') /\ (Unspent(index + 1) => Unspent(index + 1)')
      BY <2>1, <2>2
    <2>5. QED
      BY <1>d, <2>2, <2>3, <2>4 DEF IInv, DispatchAgrees
  <1>8. ChangesCounted'
    <2>1. IsFiniteSet(Calling)
      BY DEF IInv, ChangesCounted
    <2>2. IsFiniteSet(Calling') /\ Cardinality(Calling') = Cardinality(Calling) + 1
      BY <1>a, <1>b, <2>1, FS_AddElement
    <2>3. Cardinality(Calling) \in Nat /\ changed \in Nat /\ calls \in Nat
      BY <2>1, FS_CardinalityType, ConstantFacts DEF IInv, TypeOK
    <2>4. QED
      BY <2>2, <2>3 DEF IInv, ChangesCounted, Begin, wakeVars
  <1>9. WakeAgrees'
    BY DEF IInv, WakeAgrees, Begin, wakeVars
  <1>10. OrderKept'
    BY <1>b DEF OrderKept
  <1>11. NeverOversleeps'
    BY <1>b DEF NeverOversleeps
  <1>12. QED
    BY <1>1, <1>2, <1>3, <1>4, <1>5, <1>6, <1>7, <1>8, <1>9, <1>10, <1>11 DEF IInv

\* Every step of a thread, of the loop, of a handler and of the clock keeps the invariant.
LEMMA NextInv == IInv /\ [Next]_vars => IInv'
  <1> SUFFICES ASSUME IInv, [Next]_vars PROVE IInv'
    OBVIOUS
  <1>1. ASSUME NEW u \in User, NEW t \in Timer, status[t] = "UNKNOWN", StartSome(u, t)
        PROVE  IInv'
    <2>1. PICK i \in Interval : StartPeriodic(u, t, i) \/ StartOnceOff(u, t, i)
      BY <1>1 DEF StartSome
    <2>2. now + i \in Time
      BY ConstantFacts DEF IInv, TypeOK
    <2>3. CASE StartPeriodic(u, t, i)
      <3> DEFINE c == [timer |-> t, kind |-> "PERIODIC", interval |-> i, due |-> now + i]
      <3>1. c \in Call /\ c.kind = "PERIODIC" /\ c.interval \in Interval /\ c.timer = t
        BY <2>2 DEF Call, Kind
      <3>2. Begin(u, c)
        BY <2>3 DEF StartPeriodic
      <3> HIDE DEF c
      <3>3. QED
        BY <1>1, <3>1, <3>2, BeginInv
    <2>4. CASE StartOnceOff(u, t, i)
      <3> DEFINE c == [timer |-> t, kind |-> "ONCE_OFF", interval |-> 0, due |-> now + i]
      <3>1. c \in Call /\ c.kind = "ONCE_OFF" /\ c.timer = t
        BY <2>2 DEF Call, Kind
      <3>2. Begin(u, c)
        BY <2>4 DEF StartOnceOff
      <3> HIDE DEF c
      <3>3. QED
        BY <1>1, <3>1, <3>2, BeginInv
    <2>5. QED
      BY <2>1, <2>3, <2>4
  <1>2. ASSUME NEW u \in User, NEW t \in Timer, Stop(u, t)
        PROVE  IInv'
    <2> DEFINE c == [timer |-> t, kind |-> "UNKNOWN", interval |-> interval[t], due |-> Never]
    <2>1. interval[t] \in Interval \union {0} /\ Never \in Time
      BY ConstantFacts DEF IInv, TypeOK
    <2>2. c \in Call /\ c.kind = "UNKNOWN"
      BY <2>1 DEF Call, Kind
    <2>3. Begin(u, c)
      BY <1>2 DEF Stop
    <2> HIDE DEF c
    <2>4. QED
      BY <2>2, <2>3, BeginInv
  <1>3. ASSUME NEW u \in User, UserStep(u) PROVE IInv'
    BY <1>3, WriteTypeInv, WriteDueInv, ChangeListInv DEF UserStep
  <1>4. CASE LoopStep
    BY <1>4, MultiplexInv, WaitSizeInv, WaitBeginInv, SelectReadyInv, DemultiplexInv,
       DispatchLockInv, DispatchEndsInv, ReadTimerInv, StoreDueInv, SpendInv, PublishInv,
       HandlerReturnsInv, SortListInv DEF LoopStep
  <1>5. CASE UNCHANGED vars
    BY <1>5 DEF IInv, TypeOK, CallsAgree, StartsUnlisted, TypesWritten, StatusAgrees,
                DispatchAgrees, ChangesCounted, WakeAgrees, OrderKept, NeverOversleeps,
                Calling, Unspent, Dispatching, Current, Signalled, Ordered, IsSorted,
                vars, timerVars, userVars, dispatchVars, wakeVars
  <1>6. QED
    BY <1>1, <1>2, <1>3, <1>4, <1>5, CaptureInv, ReAddInv, SelectOtherInv, SelectTimeoutInv,
       HandlerStopsInv, TickInv DEF Next

-----------------------------------------------------------------------------
(* Theorems *)

\* IInv holds whatever calls, expirations and wake-ups overlap.
THEOREM Invariance == Spec => []IInv
  BY InitInv, NextInv, PTL DEF Spec

\* Every variable keeps its type: an expiration is never past time_point::max(), and
\* there are never more bytes in the changed event's pipe than calls.
THEOREM TypeCorrect == Spec => []TypeOK
  BY Invariance, PTL DEF IInv

\* The positions of a timer in a list without duplicates: one, or none.
LEMMA EntriesFacts ==
    ASSUME IInv, NEW t \in Timer
    PROVE  /\ t \in ToSet(list) => Entries(t) = 1
           /\ t \notin ToSet(list) => Entries(t) = 0
  <1> DEFINE at == {i \in DOMAIN list : list[i] = t}
  <1>1. ASSUME t \in ToSet(list) PROVE Entries(t) = 1
    <2>1. PICK i \in DOMAIN list : list[i] = t
      BY <1>1 DEF ToSet
    <2>2. at = {i}
      BY <2>1 DEF IInv, IsInjective
    <2>3. QED
      BY <2>2, FS_Singleton DEF Entries
  <1>2. ASSUME t \notin ToSet(list) PROVE Entries(t) = 0
    <2>1. at = {}
      BY <1>2 DEF ToSet
    <2>2. QED
      BY <2>1, FS_EmptySet DEF Entries
  <1>3. QED
    BY <1>1, <1>2

\* timer_dispatcher's list holds the active timers and no other, each of them once,
\* whatever calls and expirations overlap.
THEOREM ListIsActive == Spec => []OnlyActiveListed
  <1>1. IInv => OnlyActiveListed
    <2> SUFFICES ASSUME IInv, NEW t \in Timer
                 PROVE  OnlyActiveListed!(t)
      BY DEF OnlyActiveListed
    <2>1. shots[t] \in 0 .. 2 /\ StatusAgrees!(t)
      BY DEF IInv, TypeOK, StatusAgrees
    <2>2. QED
      BY <2>1, EntriesFacts
  <1>2. QED
    BY <1>1, Invariance, PTL

\* timer::impl::on_expired() signals a once-off timer at most once after it was started.
THEOREM SignalledOnce == Spec => []OneShotOnce
  <1>1. IInv => OneShotOnce
    BY DEF IInv, TypeOK, StatusAgrees, OneShotOnce
  <1>2. QED
    BY <1>1, Invariance, PTL

\* select() never waits past the first expiration on the list: each change of the list
\* that its timeout does not know of has left a byte that wakes it.
THEOREM WakesInTime == Spec => []NeverOversleeps
  BY Invariance, PTL DEF IInv

-----------------------------------------------------------------------------
(* What the refinement rests on besides IInv *)

\* What a call has written is its timer's, and a stop keeps the interval.
CallsWritten ==
    \A u \in Calling :
        /\ call[u].kind = "UNKNOWN" \/ pc[u] # "type" =>
              call[u].interval = interval[call[u].timer]
        /\ call[u].kind # "UNKNOWN" /\ pc[u] = "list" => call[u].due = due[call[u].timer]
        /\ call[u].kind = "UNKNOWN" => call[u].due = Never

\* Only the call of a handler, which never returns, uses a timer from no thread.
BusyAgrees ==
    \A t \in Timer :
        status[t] = "busy" => loop = "relock" \/ \E u \in Calling : call[u].timer = t

\* dispatch() has still to come to position i of the list, or will start again.
Ahead(i) ==
    \/ ~ Dispatching
    \/ loop \in {"check", "store", "spend"} /\ i >= index
    \/ loop \in {"publish", "handler"} /\ i > index

\* A timer whose stop() waits for the mutex has no time at a position to come: what
\* on_expired() may have stored over it is behind.
StoppedStaysOut ==
    \A u \in Calling : pc[u] = "list" /\ call[u].kind = "UNKNOWN" =>
        \A i \in DOMAIN list : list[i] = call[u].timer /\ Ahead(i) => due[list[i]] = Never

\* What on_expired() stores is the next point of the grid, unless the timer was stopped
\* meanwhile.
StoreAgrees ==
    loop = "store" =>
        /\ interval[Current] \in Interval
        /\ \/ \E u \in Calling : call[u].timer = Current /\ pc[u] = "list"
           \/ due[Current] <= epoch /\ next = Advanced(due[Current], interval[Current])

PublishAgrees == loop = "publish" /\ status[Current] = "PERIODIC" => due[Current] >= epoch

EpochPast == epoch <= now

RInv ==
    /\ EpochPast
    /\ CallsWritten
    /\ BusyAgrees
    /\ StoppedStaysOut
    /\ StoreAgrees
    /\ PublishAgrees

\* The point of the grid that on_expired() goes on to.
LEMMA AdvancedGrid ==
    ASSUME TypeOK, NEW base \in Time, base <= epoch, NEW i \in Interval
    PROVE  /\ \E n \in 0 .. MaxTime : Advanced(base, i) = base + n * i
           /\ Advanced(base, i) \in epoch .. epoch + i - 1
  <1>1. /\ base \in Nat /\ epoch \in Nat /\ i \in Nat /\ i > 0
        /\ epoch <= MaxTime /\ i <= MaxTime /\ MaxTime \in Nat
    BY ConstantFacts DEF TypeOK, Time
  <1>2. CASE base >= epoch
    <2>1. Advanced(base, i) = base /\ base = epoch
      BY <1>1, <1>2 DEF Advanced
    <2>2. base = base + 0 * i /\ 0 \in 0 .. MaxTime
      BY <1>1
    <2>3. QED
      BY <1>1, <2>1, <2>2
  <1>3. CASE base < epoch
    <2> DEFINE x == epoch - base
               q == (x + i - 1) \div i
    <2>1. x \in Nat /\ x >= 1 /\ x <= MaxTime /\ x + i - 1 \in Nat
      BY <1>1, <1>3
    <2>2. q \in Nat /\ i * q <= x + i - 1 /\ x + i - 1 < i * q + i
      BY <1>1, <2>1
    <2>3. Advanced(base, i) = base + i * q
      BY <1>1, <1>3 DEF Advanced
    <2> HIDE DEF q
    <2>4. q <= x
      <3>1. SUFFICES ASSUME q >= x + 1 PROVE FALSE
        BY <2>1, <2>2
      <3>2. i * q >= i * (x + 1)
        BY <1>1, <2>1, <2>2, <3>1
      <3>3. i * (x + 1) = i * x + i /\ i * x >= x
        BY <1>1, <2>1
      <3>4. i * q \in Int /\ i * x \in Int
        BY <1>1, <2>1, <2>2
      <3>5. QED
        BY <1>1, <2>1, <2>2, <3>2, <3>3, <3>4
    <2>5. i * q = q * i /\ i * q \in Nat
      BY <1>1, <2>2
    <2>6. q \in 0 .. MaxTime
      BY <2>1, <2>2, <2>4, <1>1
    <2>7. base + i * q \in epoch .. epoch + i - 1
      BY <1>1, <2>1, <2>2, <2>5
    <2>8. QED
      BY <2>3, <2>5, <2>6, <2>7
  <1>4. QED
    BY <1>1, <1>2, <1>3

\* No call is under way at the start.
LEMMA InitR == Init => RInv
  BY ConstantFacts DEF Init, RInv, EpochPast, CallsWritten, BusyAgrees, StoppedStaysOut,
     StoreAgrees, PublishAgrees, Calling

\* The clock does not go back.
LEMMA EpochStep ==
    ASSUME IInv, EpochPast, [Next]_vars
    PROVE  EpochPast'
  <1>1. now \in Nat /\ epoch \in Nat
    BY ConstantFacts DEF IInv, TypeOK
  <1>2. ASSUME UNCHANGED <<now, epoch>> PROVE EpochPast'
    BY <1>2 DEF EpochPast
  <1>3. CASE Tick
    BY <1>1, <1>3 DEF EpochPast, Tick, dispatchVars
  <1>4. CASE SelectTimeout
    BY <1>1, <1>4 DEF EpochPast, SelectTimeout
  <1>5. CASE SortList
    BY <1>1, <1>5 DEF EpochPast, SortList
  <1>6. CASE LoopStep /\ ~ SortList
    BY <1>2, <1>6 DEF LoopStep, Multiplex, WaitSize, WaitBegin, SelectReady, Demultiplex,
       DispatchLock, DispatchEnds, ReadTimer, StoreDue, Spend, Publish, HandlerReturns,
       dispatchVars
  <1>7. ASSUME NEW u \in User, UserStep(u) PROVE EpochPast'
    BY <1>2, <1>7 DEF UserStep, WriteType, WriteDue, ChangeList, Return, dispatchVars
  <1>8. ASSUME NEW u \in User, NEW t \in Timer, StartSome(u, t) \/ Stop(u, t) PROVE EpochPast'
    BY <1>2, <1>8 DEF StartSome, StartPeriodic, StartOnceOff, Stop, Begin, dispatchVars
  <1>9. CASE Capture \/ ReAdd \/ SelectOther \/ (\E t \in Timer : HandlerStops(t)) \/ UNCHANGED vars
    BY <1>2, <1>9 DEF Capture, ReAdd, SelectOther, HandlerStops, dispatchVars, vars
  <1>10. QED
    BY <1>3, <1>4, <1>5, <1>6, <1>7, <1>8, <1>9 DEF Next

\* What all the calls of a timer's start or stop have in common.
LEMMA BeginFacts ==
    ASSUME IInv, NEW u \in User, NEW c \in Call, Begin(u, c)
    PROVE  /\ c.timer \in Timer /\ status[c.timer] # "busy" /\ u \notin Calling
           /\ Calling' = Calling \union {u}
           /\ pc'[u] = "type" /\ call'[u] = c
           /\ \A v \in Calling : /\ v # u /\ pc'[v] = pc[v] /\ call'[v] = call[v]
                                 /\ call[v].timer \in Timer /\ call[v].timer # c.timer
           /\ status'[c.timer] = "busy" /\ shots'[c.timer] = 0
           /\ \A x \in Timer : x # c.timer => status'[x] = status[x] /\ shots'[x] = shots[x]
           /\ UNCHANGED <<now, kind, interval, due, list, loop, epoch, index, next>>
  <1>1. c.timer \in Timer
    BY DEF Call
  <1>2. \A v \in Calling : v \in User /\ call[v].timer \in Timer /\ status[call[v].timer] = "busy"
    BY CallFacts DEF Calling
  <1>3. status[c.timer] # "busy" /\ u \notin Calling
    BY DEF Begin, Calling
  <1>4. Calling' = Calling \union {u}
    BY DEF IInv, TypeOK, Begin, Calling
  <1>5. \A v \in User : v # u => pc'[v] = pc[v] /\ call'[v] = call[v]
    BY DEF IInv, TypeOK, Begin
  <1>6. pc'[u] = "type" /\ call'[u] = c
    BY DEF IInv, TypeOK, Begin
  <1>7. \A v \in Calling : /\ v # u /\ pc'[v] = pc[v] /\ call'[v] = call[v]
                           /\ call[v].timer \in Timer /\ call[v].timer # c.timer
    BY <1>2, <1>3, <1>5
  <1>8. status'[c.timer] = "busy" /\ shots'[c.timer] = 0
    BY <1>1 DEF IInv, TypeOK, Begin
  <1>9. \A x \in Timer : x # c.timer => status'[x] = status[x] /\ shots'[x] = shots[x]
    BY DEF IInv, TypeOK, Begin
  <1>10. UNCHANGED <<now, kind, interval, due, list, loop, epoch, index, next>>
    BY DEF Begin, timerVars, dispatchVars
  <1>11. QED
    BY <1>1, <1>3, <1>4, <1>6, <1>7, <1>8, <1>9, <1>10

\* The two kinds of call.
LEMMA SomeBegin ==
    ASSUME IInv, NEW u \in User, NEW t \in Timer,
           (status[t] = "UNKNOWN" /\ StartSome(u, t)) \/ Stop(u, t)
    PROVE  \E c \in Call :
              /\ Begin(u, c) /\ c.timer = t
              /\ c.kind = "UNKNOWN" => c.interval = interval[t] /\ c.due = Never
              /\ c.kind # "UNKNOWN" => status[t] = "UNKNOWN"
  <1>1. CASE status[t] = "UNKNOWN" /\ StartSome(u, t)
    <2>1. PICK i \in Interval : StartPeriodic(u, t, i) \/ StartOnceOff(u, t, i)
      BY <1>1 DEF StartSome
    <2>2. now + i \in Time
      BY ConstantFacts DEF IInv, TypeOK
    <2>3. CASE StartPeriodic(u, t, i)
      BY <1>1, <2>2, <2>3 DEF StartPeriodic, Call, Kind
    <2>4. CASE StartOnceOff(u, t, i)
      BY <1>1, <2>2, <2>4 DEF StartOnceOff, Call, Kind
    <2>5. QED
      BY <2>1, <2>3, <2>4
  <1>2. CASE Stop(u, t)
    <2>1. interval[t] \in Interval \union {0} /\ Never \in Time
      BY ConstantFacts DEF IInv, TypeOK
    <2>2. QED
      BY <1>2, <2>1 DEF Stop, Call, Kind
  <1>3. QED
    BY <1>1, <1>2

\* A call in progress writes; the calls of other threads and their timers are left alone.
LEMMA WriteFacts ==
    ASSUME IInv, NEW u \in User, WriteType(u) \/ WriteDue(u)
    PROVE  /\ u \in Calling /\ call[u].timer \in Timer /\ Calling' = Calling
           /\ UNCHANGED <<now, list, call, status, shots, loop, epoch, index, next>>
           /\ \A v \in Calling : v # u => pc'[v] = pc[v] /\ call[v].timer # call[u].timer
           /\ \A x \in Timer : x # call[u].timer => interval'[x] = interval[x] /\ due'[x] = due[x]
  <1>1. u \in Calling /\ call[u].timer \in Timer
    BY CallFacts DEF WriteType, WriteDue
  <1>2. Calling' = Calling
    BY DEF IInv, TypeOK, WriteType, WriteDue, Calling
  <1>3. \A v \in Calling : v # u => pc'[v] = pc[v]
    BY DEF IInv, TypeOK, WriteType, WriteDue, Calling
  <1>4. \A v \in Calling : v # u => call[v].timer # call[u].timer
    BY <1>1 DEF IInv, CallsAgree
  <1>5. \A x \in Timer : x # call[u].timer => interval'[x] = interval[x] /\ due'[x] = due[x]
    BY DEF IInv, TypeOK, WriteType, WriteDue
  <1>6. UNCHANGED <<now, list, call, status, shots, loop, epoch, index, next>>
    BY DEF WriteType, WriteDue, dispatchVars
  <1>7. QED
    BY <1>1, <1>2, <1>3, <1>4, <1>5, <1>6

\* A call returns, and the list loses only inactive timers.
LEMMA ReturnFacts ==
    ASSUME IInv, NEW u \in User, ChangeList(u)
    PROVE  /\ u \in Calling /\ call[u].timer \in Timer /\ pc[u] = "list" /\ ~ Dispatching
           /\ Calling' = Calling \ {u}
           /\ \A v \in Calling : v # u => /\ pc'[v] = pc[v] /\ call'[v] = call[v]
                                          /\ call[v].timer # call[u].timer
           /\ status'[call[u].timer] = call[u].kind
           /\ \A x \in Timer : x # call[u].timer => status'[x] = status[x]
           /\ UNCHANGED <<now, kind, interval, due, shots, loop, epoch, index, next>>
           /\ \A x \in Timer : x # call[u].timer =>
                 (x \in ToSet(list') <=> x \in ToSet(list) /\ kind[x] # "UNKNOWN")
           /\ call[u].kind = "UNKNOWN" => call[u].timer \notin ToSet(list')
  <1> DEFINE t == call[u].timer
             k == call[u].kind
  <1>a. /\ t \in Timer /\ k \in Kind /\ status[t] = "busy" /\ u \in Calling
        /\ kind[t] = k /\ pc[u] = "list" /\ ~ Dispatching
        /\ list \in Seq(Timer) /\ IsInjective(list)
    BY CallFacts DEF IInv, TypeOK, TypesWritten, ChangeList
  <1>b. /\ \A x \in Timer : x # t =>
              (x \in ToSet(list') <=> x \in ToSet(list) /\ kind[x] # "UNKNOWN")
        /\ k = "UNKNOWN" => t \notin ToSet(list')
    <2>1. CASE k = "UNKNOWN"
      <3> DEFINE s == RemoveFirst(list, t)
      <3>1. s \in Seq(Timer) /\ ToSet(s) = ToSet(list) \ {t}
        BY <1>a, RemoveFirstFacts
      <3>2. list' \in Sorted(s)
        BY <2>1 DEF ChangeList, Changed
      <3> HIDE DEF s
      <3>3. ToSet(list') = {x \in ToSet(s) : kind[x] # "UNKNOWN"}
        BY <3>1, <3>2, SortedFacts
      <3>4. QED
        BY <3>1, <3>3
    <2>2. CASE k # "UNKNOWN"
      <3> DEFINE s == Append(list, t)
      <3>1. s \in Seq(Timer) /\ ToSet(s) = ToSet(list) \union {t}
        BY <1>a, AppendFacts
      <3>2. list' \in Sorted(s)
        BY <2>2 DEF ChangeList, Changed
      <3> HIDE DEF s
      <3>3. ToSet(list') = {x \in ToSet(s) : kind[x] # "UNKNOWN"}
        BY <3>1, <3>2, SortedFacts
      <3>4. QED
        BY <2>2, <3>1, <3>3
    <2>3. QED
      BY <2>1, <2>2
  <1>c. /\ status'[t] = k
        /\ \A x \in Timer : x # t => status'[x] = status[x]
    BY <1>a DEF IInv, TypeOK, ChangeList, Return
  <1>d. /\ Calling' = Calling \ {u}
        /\ \A v \in User : v # u => pc'[v] = pc[v] /\ call'[v] = call[v]
    BY DEF IInv, TypeOK, ChangeList, Return, Calling
  <1>e. \A v \in Calling : v # u => v \in User /\ call[v].timer # t
    BY <1>a DEF IInv, CallsAgree, Calling
  <1>f. UNCHANGED <<now, kind, interval, due, shots, loop, epoch, index, next>>
    BY DEF ChangeList, Return, timerVars, dispatchVars
  <1>g. QED
    BY <1>a, <1>b, <1>c, <1>d, <1>e, <1>f

\* A stopped timer that a thread is handed back keeps what its call has written.
LEMMA CallsWrittenStep ==
    ASSUME IInv, CallsWritten, [Next]_vars
    PROVE  CallsWritten'
  <1>0. \A v \in Calling : /\ call[v].timer \in Timer /\ status[call[v].timer] = "busy"
                           /\ call[v].kind # "UNKNOWN" => call[v].timer \notin ToSet(list)
    BY CallFacts DEF Calling, IInv, StartsUnlisted
  <1>1. ASSUME UNCHANGED <<pc, call, interval, due>> PROVE CallsWritten'
    BY <1>1 DEF CallsWritten, Calling
  <1>2. ASSUME NEW u \in User, NEW t \in Timer,
               (status[t] = "UNKNOWN" /\ StartSome(u, t)) \/ Stop(u, t)
        PROVE  CallsWritten'
    <2>1. PICK c \in Call : /\ Begin(u, c) /\ c.timer = t
                            /\ c.kind = "UNKNOWN" => c.interval = interval[t] /\ c.due = Never
      BY <1>2, SomeBegin
    <2>2. /\ Calling' = Calling \union {u} /\ pc'[u] = "type" /\ call'[u] = c
          /\ \A v \in Calling : v # u /\ pc'[v] = pc[v] /\ call'[v] = call[v]
          /\ UNCHANGED <<interval, due>>
      BY <2>1, BeginFacts
    <2>3. QED
      BY <2>1, <2>2 DEF CallsWritten
  <1>3. ASSUME NEW u \in User, WriteType(u) \/ WriteDue(u) PROVE CallsWritten'
    <2> DEFINE t == call[u].timer
    <2>1. /\ u \in Calling /\ t \in Timer /\ Calling' = Calling /\ call' = call
          /\ \A v \in Calling : v # u => pc'[v] = pc[v] /\ call[v].timer # t
          /\ \A x \in Timer : x # t => interval'[x] = interval[x] /\ due'[x] = due[x]
      BY <1>3, WriteFacts
    <2>2. ASSUME NEW v \in Calling, v # u
          PROVE  /\ call[v].kind = "UNKNOWN" \/ pc'[v] # "type" =>
                       call[v].interval = interval'[call[v].timer]
                 /\ call[v].kind # "UNKNOWN" /\ pc'[v] = "list" => call[v].due = due'[call[v].timer]
      BY <1>0, <2>1, <2>2 DEF CallsWritten
    <2>3. /\ call[u].kind = "UNKNOWN" \/ pc'[u] # "type" => call[u].interval = interval'[t]
          /\ call[u].kind # "UNKNOWN" /\ pc'[u] = "list" => call[u].due = due'[t]
      <3>1. CASE WriteType(u)
        BY <2>1, <3>1 DEF IInv, TypeOK, WriteType
      <3>2. CASE WriteDue(u)
        BY <2>1, <3>2 DEF IInv, TypeOK, WriteDue, CallsWritten
      <3>3. QED
        BY <1>3, <3>1, <3>2
    <2>4. QED
      BY <2>1, <2>2, <2>3 DEF CallsWritten
  <1>4. ASSUME NEW u \in User, ChangeList(u) PROVE CallsWritten'
    <2>1. /\ Calling' = Calling \ {u} /\ UNCHANGED <<interval, due>>
          /\ \A v \in Calling : v # u => pc'[v] = pc[v] /\ call'[v] = call[v]
      BY <1>4, ReturnFacts
    <2>2. QED
      BY <2>1 DEF CallsWritten
  <1>5. CASE StoreDue
    <2>1. Current \in Timer /\ Current \in ToSet(list)
      BY <1>5, CurrentFacts DEF IInv, DispatchAgrees, StoreDue
    <2>2. \A x \in Timer : x # Current => due'[x] = due[x]
      BY <1>5 DEF IInv, TypeOK, StoreDue
    <2>3. UNCHANGED <<pc, call, interval>>
      BY <1>5 DEF StoreDue, userVars
    <2>4. QED
      BY <1>0, <2>1, <2>2, <2>3 DEF CallsWritten, Calling
  <1>6. ASSUME NEW t \in Timer, HandlerStops(t) PROVE CallsWritten'
    <2>1. \A x \in Timer : x # t => due'[x] = due[x]
      BY <1>6 DEF IInv, TypeOK, HandlerStops
    <2>2. status[t] # "busy" /\ UNCHANGED <<pc, call, interval>>
      BY <1>6 DEF HandlerStops
    <2>3. QED
      BY <1>0, <2>1, <2>2 DEF CallsWritten, Calling
  <1>7. CASE LoopStep /\ ~ StoreDue
    BY <1>1, <1>7 DEF LoopStep, Multiplex, WaitSize, WaitBegin, SelectReady, Demultiplex,
       DispatchLock, DispatchEnds, ReadTimer, Spend, Publish, HandlerReturns, SortList,
       timerVars, userVars
  <1>8. CASE Tick \/ Capture \/ ReAdd \/ SelectOther \/ SelectTimeout \/ UNCHANGED vars
    BY <1>1, <1>8 DEF Tick, Capture, ReAdd, SelectOther, SelectTimeout, vars, timerVars, userVars
  <1>9. QED
    BY <1>2, <1>3, <1>4, <1>5, <1>6, <1>7, <1>8 DEF Next, UserStep

\* A call uses its timer until it returns.
LEMMA BusyStep ==
    ASSUME IInv, BusyAgrees, [Next]_vars
    PROVE  BusyAgrees'
  <1>1. ASSUME UNCHANGED <<pc, call, status>>, loop = "relock" => loop' = "relock"
        PROVE  BusyAgrees'
    BY <1>1 DEF BusyAgrees, Calling
  <1>2. ASSUME NEW u \in User, NEW t \in Timer,
               (status[t] = "UNKNOWN" /\ StartSome(u, t)) \/ Stop(u, t)
        PROVE  BusyAgrees'
    <2>1. PICK c \in Call : Begin(u, c) /\ c.timer = t
      BY <1>2, SomeBegin
    <2>2. /\ Calling' = Calling \union {u} /\ call'[u] = c
          /\ \A v \in Calling : call'[v] = call[v]
          /\ \A x \in Timer : x # t => status'[x] = status[x]
          /\ loop' = loop
      BY <2>1, BeginFacts
    <2>3. QED
      BY <2>1, <2>2 DEF BusyAgrees
  <1>3. ASSUME NEW u \in User, WriteType(u) \/ WriteDue(u) PROVE BusyAgrees'
    BY <1>3, WriteFacts DEF BusyAgrees
  <1>4. ASSUME NEW u \in User, ChangeList(u) PROVE BusyAgrees'
    <2> DEFINE t == call[u].timer
    <2>1. /\ u \in Calling /\ t \in Timer /\ Calling' = Calling \ {u} /\ loop' = loop
          /\ status'[t] = call[u].kind
          /\ \A v \in Calling : v # u => call'[v] = call[v]
          /\ \A x \in Timer : x # t => status'[x] = status[x]
      BY <1>4, ReturnFacts
    <2>2. call[u].kind # "busy"
      BY <2>1, CallFacts DEF Calling, Kind
    <2>3. QED
      BY <2>1, <2>2 DEF BusyAgrees
  <1>5. ASSUME NEW t \in Timer, HandlerStops(t) PROVE BusyAgrees'
    BY <1>5 DEF BusyAgrees, HandlerStops
  <1>6. CASE LoopStep
    BY <1>1, <1>6 DEF LoopStep, Multiplex, WaitSize, WaitBegin, SelectReady, Demultiplex,
       DispatchLock, DispatchEnds, ReadTimer, StoreDue, Spend, Publish, HandlerReturns, SortList,
       userVars
  <1>7. CASE Tick \/ Capture \/ ReAdd \/ SelectOther \/ SelectTimeout \/ UNCHANGED vars
    BY <1>1, <1>7 DEF Tick, Capture, ReAdd, SelectOther, SelectTimeout, vars, userVars
  <1>8. QED
    BY <1>2, <1>3, <1>4, <1>5, <1>6, <1>7 DEF Next, UserStep

\* dispatch() only goes forward in the list, and drops the inactive timers at its end.
LEMMA StoppedStep ==
    ASSUME IInv, CallsWritten, StoppedStaysOut, [Next]_vars
    PROVE  StoppedStaysOut'
  <1>0. \A v \in Calling : call[v].timer \in Timer /\ status[call[v].timer] = "busy"
    BY CallFacts DEF Calling
  <1>a. DOMAIN list \subseteq Int /\ index \in Int /\ \A i \in DOMAIN list : list[i] \in Timer
    BY DEF IInv, TypeOK
  <1>1. ASSUME UNCHANGED <<pc, call, due, list>>, \A i \in DOMAIN list : Ahead(i)' => Ahead(i)
        PROVE  StoppedStaysOut'
    BY <1>1 DEF StoppedStaysOut, Calling
  <1>2. ASSUME NEW u \in User, NEW t \in Timer,
               (status[t] = "UNKNOWN" /\ StartSome(u, t)) \/ Stop(u, t)
        PROVE  StoppedStaysOut'
    <2>1. PICK c \in Call : Begin(u, c) /\ c.timer = t
      BY <1>2, SomeBegin
    <2>2. /\ Calling' = Calling \union {u} /\ pc'[u] = "type"
          /\ \A v \in Calling : pc'[v] = pc[v] /\ call'[v] = call[v]
          /\ UNCHANGED <<list, due, loop, index>>
      BY <2>1, BeginFacts
    <2>3. \A i : Ahead(i)' = Ahead(i)
      BY <2>2 DEF Ahead, Dispatching
    <2>4. QED
      BY <2>2, <2>3 DEF StoppedStaysOut
  <1>3. ASSUME NEW u \in User, WriteType(u) \/ WriteDue(u) PROVE StoppedStaysOut'
    <2> DEFINE t == call[u].timer
    <2>1. /\ u \in Calling /\ t \in Timer /\ Calling' = Calling /\ call' = call
          /\ \A v \in Calling : v # u => pc'[v] = pc[v] /\ call[v].timer # t
          /\ \A x \in Timer : x # t => due'[x] = due[x]
          /\ UNCHANGED <<list, loop, index>>
      BY <1>3, WriteFacts
    <2>2. \A i : Ahead(i)' = Ahead(i)
      BY <2>1 DEF Ahead, Dispatching
    <2>3. ASSUME pc'[u] = "list", call[u].kind = "UNKNOWN" PROVE due'[t] = Never
      <3>1. WriteDue(u)
        BY <1>3, <2>1, <2>3 DEF IInv, TypeOK, WriteType, WriteDue
      <3>2. call[u].due = Never
        BY <2>1, <2>3 DEF CallsWritten
      <3>3. QED
        BY <2>1, <3>1, <3>2 DEF IInv, TypeOK, WriteDue
    <2>4. QED
      BY <1>0, <2>1, <2>2, <2>3 DEF StoppedStaysOut
  <1>b. \A v \in Calling : pc[v] = "list" => kind[call[v].timer] = call[v].kind
    BY DEF IInv, TypesWritten, Calling
  <1>4. ASSUME NEW u \in User, ChangeList(u) PROVE StoppedStaysOut'
    <2>1. /\ Calling' = Calling \ {u} /\ UNCHANGED <<kind, due>>
          /\ \A v \in Calling : v # u => /\ pc'[v] = pc[v] /\ call'[v] = call[v]
                                         /\ call[v].timer # call[u].timer
          /\ \A x \in Timer : x # call[u].timer =>
                (x \in ToSet(list') <=> x \in ToSet(list) /\ kind[x] # "UNKNOWN")
      BY <1>4, ReturnFacts
    <2>2. ASSUME NEW v \in Calling', pc'[v] = "list", call'[v].kind = "UNKNOWN"
          PROVE  call'[v].timer \notin ToSet(list')
      BY <1>0, <1>b, <2>1, <2>2
    <2>3. QED
      BY <2>2 DEF StoppedStaysOut, ToSet
  <1>5. CASE SortList
    <2>1. /\ ToSet(list') = {x \in ToSet(list) : kind[x] # "UNKNOWN"}
          /\ UNCHANGED <<pc, call, kind>>
      BY <1>5, SortedFacts DEF IInv, TypeOK, SortList, timerVars, userVars
    <2>2. ASSUME NEW v \in Calling', pc'[v] = "list", call'[v].kind = "UNKNOWN"
          PROVE  call'[v].timer \notin ToSet(list')
      BY <1>b, <2>1, <2>2 DEF Calling
    <2>3. QED
      BY <2>2 DEF StoppedStaysOut, ToSet
  <1>6. CASE StoreDue
    <2>1. /\ loop = "store" /\ loop' = "publish" /\ index \in DOMAIN list
          /\ UNCHANGED <<pc, call, list, index>>
      BY <1>6 DEF IInv, DispatchAgrees, StoreDue, userVars
    <2>2. \A x \in Timer : x # Current => due'[x] = due[x]
      BY <1>6 DEF IInv, TypeOK, StoreDue
    <2>3. ASSUME NEW i \in DOMAIN list, Ahead(i)'
          PROVE  Ahead(i) /\ due'[list[i]] = due[list[i]]
      <3>1. i > index
        BY <2>1, <2>3 DEF Ahead, Dispatching
      <3>2. list[i] # Current
        BY <1>a, <2>1, <3>1 DEF IInv, IsInjective, Current
      <3>3. Ahead(i)
        BY <1>a, <2>1, <3>1 DEF Ahead
      <3>4. QED
        BY <1>a, <2>2, <3>2, <3>3
    <2>4. QED
      BY <2>1, <2>3 DEF StoppedStaysOut, Calling
  <1>7. ASSUME NEW t \in Timer, HandlerStops(t) PROVE StoppedStaysOut'
    BY <1>7 DEF HandlerStops, StoppedStaysOut, Ahead, Dispatching
  <1>8. CASE DispatchLock \/ DispatchEnds \/ ReadTimer \/ Spend \/ Publish \/ HandlerReturns
    <2>1. UNCHANGED <<pc, call, due, list>>
      BY <1>8 DEF DispatchLock, DispatchEnds, ReadTimer, Spend, Publish, HandlerReturns, timerVars,
         userVars
    <2>2. ASSUME NEW i \in DOMAIN list, Ahead(i)' PROVE Ahead(i)
      <3>1. CASE DispatchLock \/ DispatchEnds
        BY <2>2, <3>1 DEF DispatchLock, DispatchEnds, Ahead, Dispatching
      <3>2. CASE ReadTimer \/ Spend \/ Publish
        BY <1>a, <2>2, <3>2 DEF ReadTimer, Spend, Publish, Ahead, Dispatching, dispatchVars
      <3>3. CASE HandlerReturns
        BY <1>a, <2>2, <3>3 DEF HandlerReturns, Ahead, Dispatching
      <3>4. QED
        BY <1>8, <3>1, <3>2, <3>3
    <2>3. QED
      BY <1>1, <2>1, <2>2
  <1>9. CASE \/ Multiplex \/ WaitSize \/ WaitBegin \/ SelectReady \/ Demultiplex
             \/ SelectOther \/ SelectTimeout
    <2>1. UNCHANGED <<pc, call, due, list>>
      BY <1>9 DEF Multiplex, WaitSize, WaitBegin, SelectReady, Demultiplex, SelectOther,
         SelectTimeout, timerVars, userVars
    <2>2. ~ Dispatching
      BY <1>9 DEF Multiplex, WaitSize, WaitBegin, SelectReady, Demultiplex, SelectOther,
         SelectTimeout, Dispatching
    <2>3. QED
      BY <1>1, <2>1, <2>2 DEF Ahead
  <1>10. CASE Tick \/ Capture \/ ReAdd \/ UNCHANGED vars
    <2>1. UNCHANGED <<pc, call, due, list, loop, index>>
      BY <1>10 DEF Tick, Capture, ReAdd, vars, timerVars, userVars, dispatchVars
    <2>2. QED
      BY <1>1, <2>1 DEF Ahead, Dispatching
  <1>11. QED
    BY <1>2, <1>3, <1>4, <1>5, <1>6, <1>7, <1>8, <1>9, <1>10 DEF Next, UserStep, LoopStep

\* A call that writes between the load and the store of on_expired() is a stop.
LEMMA StoreStep ==
    ASSUME IInv, CallsWritten, StoreAgrees, [Next]_vars
    PROVE  StoreAgrees'
  <1>a. loop = "store" => Current \in Timer /\ Current \in ToSet(list)
    BY CurrentFacts DEF IInv, DispatchAgrees
  <1>b. \A v \in Calling : call[v].kind # "UNKNOWN" => call[v].timer \notin ToSet(list)
    BY DEF IInv, StartsUnlisted
  <1>1. ASSUME loop' = "store" => loop = "store",
               UNCHANGED <<pc, call, interval, due, list, epoch, index, next>>
        PROVE  StoreAgrees'
    BY <1>1 DEF StoreAgrees, Calling, Current, Advanced
  <1>2. ASSUME NEW u \in User, NEW t \in Timer,
               (status[t] = "UNKNOWN" /\ StartSome(u, t)) \/ Stop(u, t)
        PROVE  StoreAgrees'
    <2>1. PICK c \in Call : Begin(u, c) /\ c.timer = t
      BY <1>2, SomeBegin
    <2>2. /\ Calling' = Calling \union {u}
          /\ \A v \in Calling : pc'[v] = pc[v] /\ call'[v] = call[v]
          /\ UNCHANGED <<interval, due, list, loop, epoch, index, next>>
      BY <2>1, BeginFacts
    <2>3. Current' = Current /\ \A b, i : Advanced(b, i)' = Advanced(b, i)
      BY <2>2 DEF Current, Advanced
    <2>4. QED
      BY <2>2, <2>3 DEF StoreAgrees, Current, Advanced
  <1>3. ASSUME NEW u \in User, WriteType(u) \/ WriteDue(u) PROVE StoreAgrees'
    <2> DEFINE t == call[u].timer
    <2> SUFFICES ASSUME loop' = "store" PROVE StoreAgrees'
      BY DEF StoreAgrees
    <2>1. /\ u \in Calling /\ t \in Timer /\ Calling' = Calling
          /\ UNCHANGED <<list, call, loop, epoch, index, next>>
          /\ \A v \in Calling : v # u => pc'[v] = pc[v]
          /\ \A x \in Timer : x # t => interval'[x] = interval[x] /\ due'[x] = due[x]
      BY <1>3, WriteFacts
    <2>2. Current' = Current /\ Current \in Timer /\ Current \in ToSet(list)
      BY <1>a, <2>1 DEF Current
    <2>3. /\ interval[Current] \in Interval
          /\ \/ \E v \in Calling : call[v].timer = Current /\ pc[v] = "list"
             \/ due[Current] <= epoch /\ next = Advanced(due[Current], interval[Current])
      BY <2>1 DEF StoreAgrees
    <2>4. pc[u] # "list"
      BY <1>3 DEF WriteType, WriteDue
    <2>5. interval'[Current] = interval[Current]
      <3>1. CASE t = Current
        <4>1. call[u].kind = "UNKNOWN" /\ call[u].interval = interval[t]
          BY <1>b, <2>1, <2>2, <3>1 DEF CallsWritten
        <4>2. QED
          BY <1>3, <2>1, <3>1, <4>1 DEF IInv, TypeOK, WriteType, WriteDue
      <3>2. CASE t # Current
        BY <2>1, <2>2, <3>2
      <3>3. QED
        BY <3>1, <3>2
    <2>6. CASE \E v \in Calling : call[v].timer = Current /\ pc[v] = "list"
      <3>1. \E v \in Calling' : call'[v].timer = Current' /\ pc'[v] = "list"
        BY <2>1, <2>2, <2>4, <2>6
      <3>2. QED
        BY <2>2, <2>3, <2>5, <3>1 DEF StoreAgrees
    <2>7. CASE due[Current] <= epoch /\ next = Advanced(due[Current], interval[Current])
      <3>1. CASE due'[Current] = due[Current]
        <4>1. next' = Advanced(due[Current], interval[Current])'
          BY <2>1, <2>2, <2>5, <2>7, <3>1 DEF Advanced, Current
        <4>2. QED
          BY <2>1, <2>2, <2>3, <2>5, <2>7, <3>1, <4>1 DEF StoreAgrees, Current
      <3>2. CASE due'[Current] # due[Current]
        <4>1. t = Current /\ pc'[u] = "list"
          BY <1>3, <2>1, <2>2, <3>2 DEF IInv, TypeOK, WriteType, WriteDue
        <4>2. QED
          BY <2>1, <2>2, <2>3, <2>5, <4>1 DEF StoreAgrees
      <3>3. QED
        BY <3>1, <3>2
    <2>8. QED
      BY <2>3, <2>6, <2>7
  <1>4. CASE ReadTimer
    <2> SUFFICES ASSUME loop' = "store" PROVE StoreAgrees'
      BY DEF StoreAgrees
    <2>1. /\ kind[Current] = "PERIODIC" /\ due[Current] <= epoch
          /\ next' = Advanced(due[Current], interval[Current])
          /\ UNCHANGED <<interval, due, list, epoch, index>>
          /\ index <= Len(list)
      BY <1>4 DEF ReadTimer, timerVars
    <2>2. Current \in Timer
      BY <2>1 DEF IInv, TypeOK, Current
    <2>3. interval[Current] \in Interval
      BY <2>1, <2>2 DEF IInv, TypesWritten
    <2>4. /\ interval'[Current'] = interval[Current] /\ due'[Current'] = due[Current]
          /\ Advanced(due[Current], interval[Current])' = Advanced(due[Current], interval[Current])
      BY <2>1 DEF Current, Advanced
    <2>5. QED
      BY <2>1, <2>3, <2>4 DEF StoreAgrees
  <1>5. CASE LoopStep /\ ~ ReadTimer
    BY <1>5 DEF LoopStep, Multiplex, WaitSize, WaitBegin, SelectReady, Demultiplex,
       DispatchLock, DispatchEnds, StoreDue, Spend, Publish, HandlerReturns, SortList, StoreAgrees
  <1>6. CASE SelectOther \/ SelectTimeout \/ (\E t \in Timer : HandlerStops(t))
    BY <1>6 DEF SelectOther, SelectTimeout, HandlerStops, StoreAgrees
  <1>7. ASSUME NEW u \in User, ChangeList(u) PROVE StoreAgrees'
    BY <1>7, ReturnFacts DEF StoreAgrees, Dispatching
  <1>8. CASE Tick \/ Capture \/ ReAdd \/ UNCHANGED vars
    BY <1>1, <1>8 DEF Tick, Capture, ReAdd, vars, timerVars, userVars, dispatchVars
  <1>9. QED
    BY <1>2, <1>3, <1>4, <1>5, <1>6, <1>7, <1>8 DEF Next, UserStep

\* A periodic timer no call uses is published with a time that has not passed.
LEMMA PublishStep ==
    ASSUME IInv, StoreAgrees, PublishAgrees, [Next]_vars
    PROVE  PublishAgrees'
  <1>0. \A v \in Calling : call[v].timer \in Timer /\ status[call[v].timer] = "busy"
    BY CallFacts DEF Calling
  <1>a. loop \in {"store", "spend", "publish"} => Current \in Timer
    BY CurrentFacts DEF IInv, DispatchAgrees
  <1>1. ASSUME loop' = "publish" => loop = "publish",
               UNCHANGED <<status, due, list, epoch, index>>
        PROVE  PublishAgrees'
    BY <1>1 DEF PublishAgrees, Current
  <1>2. ASSUME NEW u \in User, NEW t \in Timer,
               (status[t] = "UNKNOWN" /\ StartSome(u, t)) \/ Stop(u, t)
        PROVE  PublishAgrees'
    <2>1. PICK c \in Call : Begin(u, c) /\ c.timer = t
      BY <1>2, SomeBegin
    <2>2. /\ status'[t] = "busy"
          /\ \A x \in Timer : x # t => status'[x] = status[x]
          /\ UNCHANGED <<due, list, loop, epoch, index>>
      BY <2>1, BeginFacts
    <2>3. Current' = Current
      BY <2>2 DEF Current
    <2>4. QED
      BY <1>a, <2>2, <2>3 DEF PublishAgrees
  <1>3. ASSUME NEW u \in User, WriteType(u) \/ WriteDue(u) PROVE PublishAgrees'
    <2>1. /\ u \in Calling
          /\ UNCHANGED <<list, status, loop, epoch, index>>
          /\ \A x \in Timer : x # call[u].timer => due'[x] = due[x]
      BY <1>3, WriteFacts
    <2>2. Current' = Current
      BY <2>1 DEF Current
    <2>3. QED
      BY <1>0, <1>a, <2>1, <2>2 DEF PublishAgrees
  <1>4. CASE ReadTimer
    <2> SUFFICES ASSUME loop' = "publish" PROVE PublishAgrees'
      BY DEF PublishAgrees
    <2>1. kind[Current] = "UNKNOWN" /\ index <= Len(list) /\ UNCHANGED <<list, index, status>>
      BY <1>4 DEF ReadTimer, userVars
    <2>2. Current \in Timer /\ Current' = Current
      BY <2>1 DEF IInv, TypeOK, Current
    <2>3. status[Current] # "PERIODIC"
      BY <2>1, <2>2 DEF IInv, StatusAgrees
    <2>4. QED
      BY <2>1, <2>2, <2>3 DEF PublishAgrees
  <1>5. CASE Spend
    <2>1. kind[Current] # "PERIODIC" /\ UNCHANGED <<list, index, status>> /\ loop = "spend"
      BY <1>5 DEF IInv, DispatchAgrees, Spend, userVars, dispatchVars
    <2>2. Current' = Current
      BY <2>1 DEF Current
    <2>3. status[Current] # "PERIODIC"
      BY <1>a, <2>1 DEF IInv, StatusAgrees
    <2>4. QED
      BY <2>1, <2>2, <2>3 DEF PublishAgrees
  <1>6. CASE StoreDue
    <2> SUFFICES ASSUME status[Current] = "PERIODIC" PROVE PublishAgrees'
      <3>1. Current' = Current /\ status' = status
        BY <1>6 DEF StoreDue, Current, userVars
      <3>2. QED
        BY <3>1 DEF PublishAgrees
    <2>1. loop = "store" /\ Current \in Timer
      BY <1>6, <1>a DEF StoreDue
    <2>2. due[Current] \in Time /\ epoch \in Nat
      BY <2>1, ConstantFacts DEF IInv, TypeOK
    <2>3. /\ interval[Current] \in Interval
          /\ due[Current] <= epoch /\ next = Advanced(due[Current], interval[Current])
      BY <1>0, <2>1 DEF StoreAgrees
    <2>4. next >= epoch
      <3>1. next \in epoch .. epoch + interval[Current] - 1
        BY <2>2, <2>3, AdvancedGrid DEF IInv
      <3>2. QED
        BY <3>1, <2>2
    <2>5. Current' = Current /\ epoch' = epoch /\ due'[Current] = next
      BY <1>6, <2>1 DEF IInv, TypeOK, StoreDue, Current
    <2>6. QED
      BY <2>4, <2>5 DEF PublishAgrees
  <1>7. CASE LoopStep /\ ~ (ReadTimer \/ Spend \/ StoreDue)
    BY <1>7 DEF LoopStep, Multiplex, WaitSize, WaitBegin, SelectReady, Demultiplex,
       DispatchLock, DispatchEnds, Publish, HandlerReturns, SortList, PublishAgrees
  <1>8. CASE SelectOther \/ SelectTimeout \/ (\E t \in Timer : HandlerStops(t))
    BY <1>8 DEF SelectOther, SelectTimeout, HandlerStops, PublishAgrees
  <1>9. ASSUME NEW u \in User, ChangeList(u) PROVE PublishAgrees'
    BY <1>9, ReturnFacts DEF PublishAgrees, Dispatching
  <1>10. CASE Tick \/ Capture \/ ReAdd \/ UNCHANGED vars
    BY <1>1, <1>10 DEF Tick, Capture, ReAdd, vars, timerVars, userVars, dispatchVars
  <1>11. QED
    BY <1>2, <1>3, <1>4, <1>5, <1>6, <1>7, <1>8, <1>9, <1>10 DEF Next, UserStep

\* Every step keeps what the refinement rests on.
LEMMA NextR == IInv /\ RInv /\ [Next]_vars => RInv'
  BY EpochStep, CallsWrittenStep, BusyStep, StoppedStep, StoreStep, PublishStep DEF RInv

-----------------------------------------------------------------------------
(* The refinement *)

\* What TimerService sees of a timer that a thread's call uses, and of the others.
MappedCalls ==
    \A u \in Calling :
        LET c == call[u]
            t == c.timer
        IN  /\ Asked(t) = c.kind /\ ~ Settled(t)
            /\ c.kind # "UNKNOWN" =>
                  Every(t) = c.interval /\ Goal(t) = c.due /\ Signals(t) = shots[t]
            /\ c.kind = "UNKNOWN" =>
                  /\ Every(t) = interval[t] /\ Signals(t) = 0
                  /\ Goal(t) = IF t \in ToSet(list) /\ pc[u] # "list" THEN due[t] ELSE Never

MappedOthers ==
    \A t \in Timer :
        (\A u \in Calling : call[u].timer # t) =>
            /\ Asked(t) = IF status[t] = "busy" THEN "UNKNOWN" ELSE status[t]
            /\ Settled(t) = (status[t] # "busy")
            /\ Every(t) = interval[t]
            /\ Goal(t) = IF Asked(t) = "UNKNOWN" THEN Never ELSE due[t]
            /\ Signals(t) = IF Asked(t) = "UNKNOWN" THEN 0 ELSE shots[t]

Mapped == MappedCalls /\ MappedOthers

\* The refinement mapping is what MappedCalls and MappedOthers say of it.
LEMMA MappedHolds == IInv => Mapped
  <1> SUFFICES ASSUME IInv PROVE Mapped
    OBVIOUS
  <1>1. MappedCalls
    <2> SUFFICES ASSUME NEW u \in Calling PROVE MappedCalls!(u)
      BY DEF MappedCalls
    <2> DEFINE t == call[u].timer
    <2>1. u \in User /\ pc[u] # "idle"
      BY DEF Calling
    <2>2. InCall(t) /\ Caller(t) = u
      BY <2>1 DEF IInv, CallsAgree, Calling, InCall, Caller
    <2>3. status[t] = "busy"
      BY <2>1, CallFacts
    <2> HIDE DEF t
    <2>4. Asked(t) = call[u].kind /\ ~ Settled(t)
      BY <2>2, <2>3 DEF Asked, Settled
    <2>5. CASE call[u].kind # "UNKNOWN"
      BY <2>2, <2>4, <2>5 DEF Every, Goal, Signals, Starting, t
    <2>6. CASE call[u].kind = "UNKNOWN"
      BY <2>2, <2>4, <2>6 DEF Every, Goal, Signals, Starting, Withdrawn, t
    <2>7. QED
      BY <2>4, <2>5, <2>6 DEF t
  <1>2. MappedOthers
    <2> SUFFICES ASSUME NEW t \in Timer, \A u \in Calling : call[u].timer # t
                 PROVE  MappedOthers!(t)!2
      BY DEF MappedOthers
    <2>1. ~ InCall(t)
      BY DEF InCall, Calling
    <2>2. QED
      BY <2>1 DEF Asked, Settled, Every, Goal, Signals, Starting, Withdrawn
  <1>3. QED
    BY <1>1, <1>2 DEF Mapped

\* A step that does not touch what TimerService sees of a timer.
LEMMA Untouched ==
    ASSUME UNCHANGED <<pc, call, status, interval, due, list, shots>>, NEW x \in Timer
    PROVE  /\ Asked(x)' = Asked(x) /\ Settled(x)' = Settled(x) /\ Every(x)' = Every(x)
           /\ Goal(x)' = Goal(x) /\ Signals(x)' = Signals(x)
  <1>1. InCall(x)' = InCall(x) /\ Caller(x)' = Caller(x)
    BY DEF InCall, Caller
  <1>2. Asked(x)' = Asked(x) /\ Settled(x)' = Settled(x)
    BY <1>1 DEF Asked, Settled
  <1>3. Starting(x)' = Starting(x)
    BY <1>1, <1>2 DEF Starting
  <1>4. Withdrawn(x)' = Withdrawn(x)
    BY <1>1, <1>2 DEF Withdrawn
  <1>5. QED
    BY <1>1, <1>2, <1>3, <1>4 DEF Every, Goal, Signals

\* Timers that are being stopped lose their time.
LEMMA WithdrawMaps ==
    ASSUME \A x \in Timer : \/ Goal(x)' = Goal(x)
                            \/ Goal(x)' = Never /\ ~ Settled(x) /\ Asked(x) = "UNKNOWN"
    PROVE  \E S \in SUBSET Service!Stopping : Service!WithdrawAll(S)
  <1> DEFINE S == {x \in Timer : Goal(x)' = Never /\ ~ Settled(x) /\ Asked(x) = "UNKNOWN"}
  <1>1. S \in SUBSET Service!Stopping
    BY DEF Service!Stopping
  <1>2. \A x \in Timer : Goal(x)' = IF x \in S THEN Never ELSE Goal(x)
    OBVIOUS
  <1>3. Service!Never = Never
    BY DEF Service!Never, Never
  <1> HIDE DEF S
  <1>4. Service!WithdrawAll(S)
    BY <1>2, <1>3 DEF Service!WithdrawAll
  <1>5. QED
    BY <1>1, <1>4

\* start() and at().
LEMMA StartMaps ==
    ASSUME NEW t \in Timer, NEW k, NEW i, Settled(t), Asked(t) = "UNKNOWN",
           \A x \in Timer : /\ Asked(x)' = IF x = t THEN k ELSE Asked(x)
                            /\ Settled(x)' = IF x = t THEN FALSE ELSE Settled(x)
                            /\ Every(x)' = IF x = t THEN (IF k = "PERIODIC" THEN i ELSE 0)
                                           ELSE Every(x)
                            /\ Goal(x)' = IF x = t THEN now + i ELSE Goal(x)
                            /\ Signals(x)' = Signals(x),
           UNCHANGED <<now, Expiring, Since>>
    PROVE  Service!Start(t, k, i)
  BY DEF Service!Start

\* stop(), of a thread or of a handler.
LEMMA StopMaps ==
    ASSUME NEW t \in Timer, Settled(t), Goal(t)' = Goal(t) \/ Goal(t)' = Never,
           \A x \in Timer : /\ Asked(x)' = IF x = t THEN "UNKNOWN" ELSE Asked(x)
                            /\ Settled(x)' = IF x = t THEN FALSE ELSE Settled(x)
                            /\ Every(x)' = Every(x)
                            /\ x # t => Goal(x)' = Goal(x)
                            /\ Signals(x)' = IF x = t THEN 0 ELSE Signals(x),
           UNCHANGED <<now, Expiring, Since>>
    PROVE  Service!Stop(t)
  <1>1. Service!Never = Never
    BY DEF Service!Never, Never
  <1>2. \E g \in {Goal(t), Service!Never} :
            [x \in Timer |-> Goal(x)'] = [[x \in Timer |-> Goal(x)] EXCEPT ![t] = g]
    BY <1>1
  <1>3. QED
    BY <1>2 DEF Service!Stop

\* The clock.
LEMMA TickMaps == IInv /\ Tick => Service!Tick
  <1> SUFFICES ASSUME IInv, Tick PROVE Service!Tick
    OBVIOUS
  <1>1. UNCHANGED <<pc, call, status, interval, due, list, shots, loop, epoch, index>>
    BY DEF Tick, timerVars, userVars, dispatchVars
  <1>2. UNCHANGED <<Expiring, Since>>
    BY <1>1 DEF Expiring, Since, Signalling, Current
  <1>3. \A x \in Timer : /\ Asked(x)' = Asked(x) /\ Settled(x)' = Settled(x)
                         /\ Every(x)' = Every(x) /\ Goal(x)' = Goal(x) /\ Signals(x)' = Signals(x)
    BY <1>1, Untouched
  <1>4. now < MaxTime /\ now' = now + 1
    BY DEF Tick
  <1>5. QED
    BY <1>2, <1>3, <1>4 DEF Service!Tick

\* A timer of a start that has not returned is none that dispatch() can meet; one that no
\* call uses is active, or locked out with the loop's thread.
LEMMA ListedFacts ==
    ASSUME IInv, RInv, loop # "relock", NEW t \in ToSet(list)
    PROVE  /\ t \in Timer
           /\ \/ \E u \in Calling : call[u].timer = t /\ call[u].kind = "UNKNOWN"
              \/ /\ \A u \in Calling : call[u].timer # t
                 /\ status[t] \in {"PERIODIC", "ONCE_OFF"}
  <1>1. t \in Timer
    BY DEF IInv, TypeOK, ToSet
  <1>2. ASSUME NEW u \in Calling, call[u].timer = t PROVE call[u].kind = "UNKNOWN"
    BY <1>2 DEF IInv, StartsUnlisted
  <1>3. ASSUME \A u \in Calling : call[u].timer # t PROVE status[t] \in {"PERIODIC", "ONCE_OFF"}
    <2>1. status[t] # "UNKNOWN"
      BY <1>1 DEF IInv, StatusAgrees
    <2>2. status[t] # "busy"
      BY <1>1, <1>3 DEF RInv, BusyAgrees
    <2>3. QED
      BY <1>1, <2>1, <2>2 DEF IInv, TypeOK, Kind
  <1>4. QED
    BY <1>1, <1>2, <1>3

\* on_expired() begins.
LEMMA ExpireMaps ==
    ASSUME IInv, RInv, ReadTimer
    PROVE  \E t \in Timer : Service!Expire(t)
  <1>0. SUFFICES ASSUME NEW t \in Timer, t = Current PROVE Service!Expire(t)
    BY CurrentFacts DEF IInv, TypeOK, ReadTimer
  <1>1. /\ loop = "check" /\ index \in DOMAIN list /\ due[t] <= epoch
        /\ loop' \in {"store", "spend", "publish"}
        /\ UNCHANGED <<now, pc, call, status, interval, due, list, shots, epoch, index>>
    BY <1>0 DEF IInv, TypeOK, ReadTimer, timerVars, userVars
  <1>2. t \in ToSet(list)
    BY <1>0, <1>1, CurrentFacts
  <1>3. /\ Expiring = None /\ Since = 0 /\ Expiring' = t /\ Since' = epoch
    BY <1>0, <1>1 DEF Expiring, Since, Signalling, Current
  <1>4. \A x \in Timer : /\ Asked(x)' = Asked(x) /\ Settled(x)' = Settled(x)
                         /\ Every(x)' = Every(x) /\ Goal(x)' = Goal(x) /\ Signals(x)' = Signals(x)
    BY <1>1, Untouched
  <1>5. epoch \in Nat /\ now \in Nat /\ epoch <= now /\ epoch < Never /\ due[t] \in Nat
    BY <1>2, ConstantFacts DEF IInv, TypeOK, RInv, EpochPast, Never, Time
  <1>6. /\ Goal(t) = due[t]
        /\ Asked(t) # "UNKNOWN" => Settled(t)
        /\ Asked(t) = "ONCE_OFF" => Signals(t) = 0
    <2>1. CASE \E u \in Calling : call[u].timer = t /\ call[u].kind = "UNKNOWN"
      <3>1. PICK u \in Calling : call[u].timer = t /\ call[u].kind = "UNKNOWN"
        BY <2>1
      <3>2. Asked(t) = "UNKNOWN" /\ Goal(t) = IF pc[u] # "list" THEN due[t] ELSE Never
        BY <1>2, <3>1, MappedHolds DEF Mapped, MappedCalls
      <3>3. pc[u] # "list"
        <4>1. Ahead(index)
          BY <1>1 DEF IInv, TypeOK, Ahead
        <4>2. pc[u] = "list" => due[t] = Never
          BY <1>0, <1>1, <3>1, <4>1 DEF RInv, StoppedStaysOut, Current
        <4>3. QED
          BY <1>1, <1>5, <4>2
      <3>4. QED
        BY <3>2, <3>3
    <2>2. CASE (\A u \in Calling : call[u].timer # t) /\ status[t] \in {"PERIODIC", "ONCE_OFF"}
      <3>1. /\ Asked(t) = status[t] /\ Settled(t) /\ Goal(t) = due[t] /\ Signals(t) = shots[t]
        BY <1>2, <2>2, MappedHolds DEF Mapped, MappedOthers
      <3>2. status[t] = "ONCE_OFF" => shots[t] = 0
        BY <1>0, <1>1 DEF IInv, TypeOK, DispatchAgrees, Unspent, Current
      <3>3. QED
        BY <3>1, <3>2
    <2>3. QED
      BY <1>1, <1>2, <2>1, <2>2, ListedFacts
  <1>7. epoch \in Goal(t) .. now
    BY <1>1, <1>5, <1>6
  <1>8. QED
    BY <1>1, <1>3, <1>4, <1>6, <1>7 DEF Service!Expire

\* on_expired() stores the next expiration: to the grid, or over that of a timer that is
\* being stopped, which nobody sees any more.
LEMMA AdvanceMaps ==
    ASSUME IInv, RInv, Mapped', StoreDue
    PROVE  (\E t \in Timer : Service!Advance(t)) \/ UNCHANGED Service!vars
  <1>0. SUFFICES ASSUME NEW t \in Timer, t = Current
                 PROVE  Service!Advance(t) \/ UNCHANGED Service!vars
    BY CurrentFacts DEF IInv, DispatchAgrees, StoreDue
  <1>1. /\ loop = "store" /\ loop' = "publish"
        /\ UNCHANGED <<now, pc, call, status, interval, list, shots, epoch, index>>
    BY DEF StoreDue, userVars
  <1>2. index \in DOMAIN list /\ t \in ToSet(list)
    BY <1>0, <1>1, CurrentFacts DEF IInv, DispatchAgrees
  <1>3. Expiring = t /\ Since = epoch /\ Expiring' = t /\ Since' = epoch
    BY <1>0, <1>1 DEF Expiring, Since, Signalling, Current
  <1>4. due'[t] = next /\ \A x \in Timer : x # t => due'[x] = due[x]
    BY <1>0 DEF IInv, TypeOK, StoreDue
  <1>5. \A x \in Timer : /\ Asked(x)' = Asked(x) /\ Settled(x)' = Settled(x)
                         /\ Every(x)' = Every(x) /\ Signals(x)' = Signals(x)
    BY <1>1 DEF Asked, Settled, Every, Signals, Starting, InCall, Caller
  <1>6. \A x \in Timer : x # t => Goal(x)' = Goal(x)
    BY <1>1, <1>4 DEF Goal, Starting, Withdrawn, Asked, InCall, Caller
  <1>7. ASSUME NEW u \in Calling, call[u].timer = t, pc[u] = "list"
        PROVE  UNCHANGED Service!vars
    <2>1. call[u].kind = "UNKNOWN"
      BY <1>1, <1>2, <1>7, ListedFacts DEF IInv, StartsUnlisted
    <2>2. Goal(t) = Never
      BY <1>7, <2>1, MappedHolds DEF Mapped, MappedCalls
    <2>3. Goal(t)' = Never
      BY <1>1, <1>7, <2>1 DEF Mapped, MappedCalls, Calling
    <2>4. \A x \in Timer : Goal(x)' = Goal(x)
      BY <1>6, <2>2, <2>3
    <2>5. QED
      BY <1>1, <1>3, <1>5, <2>4 DEF Service!vars
  <1>8. ASSUME ~ \E u \in Calling : call[u].timer = t /\ pc[u] = "list"
        PROVE  Service!Advance(t)
    <2>1. /\ interval[t] \in Interval /\ due[t] <= epoch /\ next = Advanced(due[t], interval[t])
      BY <1>0, <1>1, <1>8 DEF RInv, StoreAgrees
    <2>2. Every(t) = interval[t] /\ Goal(t) = due[t] /\ Goal(t)' = next
      <3>1. CASE \E u \in Calling : call[u].timer = t /\ call[u].kind = "UNKNOWN"
        <4>1. PICK u \in Calling : call[u].timer = t /\ call[u].kind = "UNKNOWN"
          BY <3>1
        <4>2. pc[u] # "list"
          BY <1>8, <4>1
        <4>3. Every(t) = interval[t] /\ Goal(t) = due[t]
          BY <1>2, <4>1, <4>2, MappedHolds DEF Mapped, MappedCalls
        <4>4. Goal(t)' = due'[t]
          BY <1>1, <1>2, <4>1, <4>2 DEF Mapped, MappedCalls, Calling
        <4>5. QED
          BY <1>4, <4>3, <4>4
      <3>2. CASE (\A u \in Calling : call[u].timer # t) /\ status[t] \in {"PERIODIC", "ONCE_OFF"}
        <4>1. Every(t) = interval[t] /\ Goal(t) = due[t] /\ Asked(t) # "UNKNOWN"
          BY <1>2, <3>2, MappedHolds DEF Mapped, MappedOthers
        <4>2. Goal(t)' = due'[t]
          BY <1>1, <1>2, <1>5, <3>2, <4>1 DEF Mapped, MappedOthers, Calling
        <4>3. QED
          BY <1>4, <4>1, <4>2
      <3>3. QED
        BY <1>1, <1>2, <3>1, <3>2, ListedFacts
    <2>3. due[t] \in Time
      BY <1>2 DEF IInv, TypeOK
    <2>4. /\ \E n \in 0 .. MaxTime : next = due[t] + n * interval[t]
          /\ next \in epoch .. epoch + interval[t] - 1
      BY <2>1, <2>3, AdvancedGrid DEF IInv
    <2>5. PICK n \in 0 .. MaxTime : Goal(t)' = Goal(t) + n * Every(t)
      BY <2>2, <2>4
    <2>6. [x \in Timer |-> Goal(x)'] = [[x \in Timer |-> Goal(x)] EXCEPT ![t] = @ + n * Every(t)]
      BY <1>2, <1>6, <2>5
    <2>7. Goal(t)' \in Since .. Since + Every(t) - 1 /\ Every(t) \in Interval
      BY <1>3, <2>1, <2>2, <2>4
    <2>8. QED
      BY <1>1, <1>2, <1>3, <1>5, <2>6, <2>7 DEF Service!Advance
  <1>9. QED
    BY <1>7, <1>8

\* on_expired() publishes its message.
LEMMA SignalMaps ==
    ASSUME IInv, RInv, Mapped', Publish
    PROVE  \E t \in Timer : Service!Signal(t)
  <1>0. SUFFICES ASSUME NEW t \in Timer, t = Current PROVE Service!Signal(t)
    BY CurrentFacts DEF IInv, DispatchAgrees, Publish
  <1>1. /\ loop = "publish" /\ loop' = "handler"
        /\ UNCHANGED <<now, pc, call, status, interval, due, list, epoch, index>>
    BY DEF Publish, timerVars, userVars, dispatchVars
  <1>2. index \in DOMAIN list /\ t \in ToSet(list)
    BY <1>0, <1>1, CurrentFacts DEF IInv, DispatchAgrees
  <1>3. Expiring = t /\ Since = epoch /\ Expiring' = None /\ Since' = 0
    BY <1>0, <1>1 DEF Expiring, Since, Signalling, Current
  <1>4. /\ shots'[t] = IF shots[t] < 2 THEN shots[t] + 1 ELSE shots[t]
        /\ \A x \in Timer : x # t => shots'[x] = shots[x]
        /\ shots[t] \in 0 .. 2
    BY <1>0 DEF IInv, TypeOK, Publish
  <1>5. \A x \in Timer : /\ Asked(x)' = Asked(x) /\ Settled(x)' = Settled(x)
                         /\ Every(x)' = Every(x) /\ Goal(x)' = Goal(x)
    BY <1>1 DEF Asked, Settled, Every, Goal, Starting, Withdrawn, InCall, Caller
  <1>6. Asked(t) = "PERIODIC" => Goal(t) >= Since
    <2> SUFFICES ASSUME Asked(t) = "PERIODIC" PROVE Goal(t) >= Since
      OBVIOUS
    <2>1. ~ \E u \in Calling : call[u].timer = t /\ call[u].kind = "UNKNOWN"
      BY MappedHolds DEF Mapped, MappedCalls
    <2>2. (\A u \in Calling : call[u].timer # t) /\ status[t] \in {"PERIODIC", "ONCE_OFF"}
      BY <1>1, <1>2, <2>1, ListedFacts
    <2>3. Asked(t) = status[t] /\ Goal(t) = due[t]
      BY <1>2, <2>2, MappedHolds DEF Mapped, MappedOthers
    <2>4. QED
      BY <1>0, <1>1, <1>3, <2>3 DEF RInv, PublishAgrees
  <1>7. \A x \in Timer : Signals(x) = IF Asked(x) = "UNKNOWN" THEN 0 ELSE shots[x]
    BY DEF Signals
  <1>8. \A x \in Timer : Signals(x)' = IF Asked(x) = "UNKNOWN" THEN 0 ELSE shots'[x]
    BY <1>5 DEF Signals
  <1>9. \A x \in Timer : x # t => Signals(x)' = Signals(x)
    BY <1>4, <1>7, <1>8
  <1>10. Signals(t)' = IF Asked(t) = "UNKNOWN" \/ Signals(t) = 2 THEN Signals(t) ELSE Signals(t) + 1
    BY <1>2, <1>4, <1>7, <1>8
  <1>11. QED
    BY <1>1, <1>2, <1>3, <1>5, <1>6, <1>9, <1>10 DEF Service!Signal

\* The end of dispatch(): a timer that is being stopped may leave the list.
LEMMA SortMaps ==
    ASSUME IInv, RInv, Mapped', SortList
    PROVE  Service!Withdraw
  <1>1. /\ loop = "sort" /\ loop' = "demultiplex"
        /\ UNCHANGED <<now, pc, call, status, interval, due, shots>>
    BY DEF SortList, timerVars, userVars
  <1>2. ToSet(list') \subseteq ToSet(list)
    BY SortedFacts DEF IInv, TypeOK, SortList
  <1>3. UNCHANGED <<now, Expiring, Since>>
    BY <1>1 DEF Expiring, Since, Signalling
  <1>4. \A x \in Timer : /\ Asked(x)' = Asked(x) /\ Settled(x)' = Settled(x)
                         /\ Every(x)' = Every(x) /\ Signals(x)' = Signals(x)
    BY <1>1 DEF Asked, Settled, Every, Signals, Starting, InCall, Caller
  <1>5. ASSUME NEW x \in Timer
        PROVE  Goal(x)' = Goal(x) \/ (Goal(x)' = Never /\ ~ Settled(x) /\ Asked(x) = "UNKNOWN")
    <2>1. CASE \A u \in Calling : call[u].timer # x
      <3>1. Goal(x) = IF Asked(x) = "UNKNOWN" THEN Never ELSE due[x]
        BY <2>1, MappedHolds DEF Mapped, MappedOthers
      <3>2. Goal(x)' = IF Asked(x)' = "UNKNOWN" THEN Never ELSE due'[x]
        BY <1>1, <2>1 DEF Mapped, MappedOthers, Calling
      <3>3. QED
        BY <1>1, <1>4, <3>1, <3>2
    <2>2. ASSUME NEW u \in Calling, call[u].timer = x
          PROVE  Goal(x)' = Goal(x) \/ (Goal(x)' = Never /\ ~ Settled(x) /\ Asked(x) = "UNKNOWN")
      <3>1. CASE call[u].kind # "UNKNOWN"
        <4>1. Goal(x) = call[u].due
          BY <2>2, <3>1, MappedHolds DEF Mapped, MappedCalls
        <4>2. Goal(x)' = call[u].due
          BY <1>1, <2>2, <3>1 DEF Mapped, MappedCalls, Calling
        <4>3. QED
          BY <4>1, <4>2
      <3>2. CASE call[u].kind = "UNKNOWN"
        <4>1. /\ Asked(x) = "UNKNOWN" /\ ~ Settled(x)
              /\ Goal(x) = IF x \in ToSet(list) /\ pc[u] # "list" THEN due[x] ELSE Never
          BY <2>2, <3>2, MappedHolds DEF Mapped, MappedCalls
        <4>2. Goal(x)' = IF x \in ToSet(list') /\ pc[u] # "list" THEN due[x] ELSE Never
          BY <1>1, <2>2, <3>2 DEF Mapped, MappedCalls, Calling
        <4>3. QED
          BY <1>2, <4>1, <4>2
      <3>3. QED
        BY <3>1, <3>2
    <2>3. QED
      BY <2>1, <2>2
  <1>6. \E S \in SUBSET Service!Stopping : Service!WithdrawAll(S)
    BY <1>5, WithdrawMaps
  <1>7. QED
    BY <1>3, <1>4, <1>6 DEF Service!Withdraw

\* A handler's stop(), of a timer that no thread's call uses.
LEMMA HandlerStopsMaps ==
    ASSUME IInv, Mapped', NEW t \in Timer, HandlerStops(t)
    PROVE  Service!Stop(t)
  <1>1. /\ loop = "handler" /\ loop' = "relock" /\ status[t] # "busy"
        /\ UNCHANGED <<now, pc, call, interval, list, shots>>
    BY DEF HandlerStops
  <1>2. /\ status'[t] = "busy"
        /\ \A x \in Timer : x # t => status'[x] = status[x] /\ due'[x] = due[x]
    BY DEF IInv, TypeOK, HandlerStops
  <1>3. \A u \in Calling : call[u].timer # t
    BY <1>1, CallFacts DEF Calling
  <1>4. UNCHANGED <<now, Expiring, Since>>
    BY <1>1 DEF Expiring, Since, Signalling
  <1>5. Settled(t)
    BY <1>1 DEF Settled
  <1>6. /\ Asked(t)' = "UNKNOWN" /\ ~ Settled(t)' /\ Every(t)' = Every(t)
        /\ Goal(t)' = Never /\ Signals(t)' = 0
    BY <1>1, <1>2, <1>3, MappedHolds DEF Mapped, MappedOthers, Calling
  <1>7. ASSUME NEW x \in Timer, x # t
        PROVE  /\ Asked(x)' = Asked(x) /\ Settled(x)' = Settled(x) /\ Every(x)' = Every(x)
               /\ Goal(x)' = Goal(x) /\ Signals(x)' = Signals(x)
    <2>1. InCall(x)' = InCall(x) /\ Caller(x)' = Caller(x)
      BY <1>1 DEF InCall, Caller
    <2>2. Asked(x)' = Asked(x) /\ Settled(x)' = Settled(x)
      BY <1>1, <1>2, <1>7, <2>1 DEF Asked, Settled
    <2>3. Starting(x)' = Starting(x) /\ Withdrawn(x)' = Withdrawn(x)
      BY <1>1, <2>1, <2>2 DEF Starting, Withdrawn
    <2>4. QED
      BY <1>1, <1>2, <1>7, <2>1, <2>2, <2>3 DEF Every, Goal, Signals
  <1>8. Settled(t)' = FALSE
    BY <1>6 DEF Settled
  <1>9. QED
    BY <1>4, <1>5, <1>6, <1>7, <1>8, StopMaps

\* What a call that begins leaves of the other timers.
LEMMA BeginOthers ==
    ASSUME IInv, Mapped', NEW u \in User, NEW c \in Call, Begin(u, c),
           NEW x \in Timer, x # c.timer
    PROVE  /\ Asked(x)' = Asked(x) /\ Settled(x)' = Settled(x) /\ Every(x)' = Every(x)
           /\ Goal(x)' = Goal(x) /\ Signals(x)' = Signals(x)
  <1>1. /\ Calling' = Calling \union {u} /\ call'[u] = c
        /\ \A v \in Calling : pc'[v] = pc[v] /\ call'[v] = call[v]
        /\ status'[x] = status[x] /\ shots'[x] = shots[x]
        /\ UNCHANGED <<interval, due, list>>
    BY BeginFacts
  <1>2. CASE \A v \in Calling : call[v].timer # x
    <2>1. \A v \in Calling' : call'[v].timer # x
      BY <1>1, <1>2
    <2>2. /\ Asked(x) = IF status[x] = "busy" THEN "UNKNOWN" ELSE status[x]
          /\ Every(x) = interval[x]
          /\ Goal(x) = IF Asked(x) = "UNKNOWN" THEN Never ELSE due[x]
          /\ Signals(x) = IF Asked(x) = "UNKNOWN" THEN 0 ELSE shots[x]
      BY <1>2, MappedHolds DEF Mapped, MappedOthers
    <2>3. /\ Asked(x)' = IF status'[x] = "busy" THEN "UNKNOWN" ELSE status'[x]
          /\ Every(x)' = interval'[x]
          /\ Goal(x)' = IF Asked(x)' = "UNKNOWN" THEN Never ELSE due'[x]
          /\ Signals(x)' = IF Asked(x)' = "UNKNOWN" THEN 0 ELSE shots'[x]
      BY <2>1 DEF Mapped, MappedOthers
    <2>4. Settled(x)' = Settled(x)
      BY <1>1 DEF Settled
    <2>5. QED
      BY <1>1, <2>2, <2>3, <2>4
  <1>3. ASSUME NEW v \in Calling, call[v].timer = x
        PROVE  /\ Asked(x)' = Asked(x) /\ Settled(x)' = Settled(x) /\ Every(x)' = Every(x)
               /\ Goal(x)' = Goal(x) /\ Signals(x)' = Signals(x)
    <2>1. v \in Calling' /\ call'[v] = call[v] /\ pc'[v] = pc[v]
      BY <1>1
    <2>2. /\ Asked(x) = call[v].kind
          /\ call[v].kind # "UNKNOWN" =>
                Every(x) = call[v].interval /\ Goal(x) = call[v].due /\ Signals(x) = shots[x]
          /\ call[v].kind = "UNKNOWN" =>
                /\ Every(x) = interval[x] /\ Signals(x) = 0
                /\ Goal(x) = IF x \in ToSet(list) /\ pc[v] # "list" THEN due[x] ELSE Never
      BY <1>3, MappedHolds DEF Mapped, MappedCalls
    <2>3. /\ Asked(x)' = call[v].kind
          /\ call[v].kind # "UNKNOWN" =>
                Every(x)' = call[v].interval /\ Goal(x)' = call[v].due /\ Signals(x)' = shots'[x]
          /\ call[v].kind = "UNKNOWN" =>
                /\ Every(x)' = interval'[x] /\ Signals(x)' = 0
                /\ Goal(x)' = IF x \in ToSet(list') /\ pc[v] # "list" THEN due'[x] ELSE Never
      BY <1>3, <2>1 DEF Mapped, MappedCalls
    <2>4. Settled(x)' = Settled(x)
      BY <1>1 DEF Settled
    <2>5. QED
      BY <1>1, <2>2, <2>3, <2>4
  <1>4. QED
    BY <1>2, <1>3

\* start(), at() and stop() begin.
LEMMA BeginMaps ==
    ASSUME IInv, RInv, Mapped', NEW u \in User, NEW t \in Timer,
           (status[t] = "UNKNOWN" /\ StartSome(u, t)) \/ Stop(u, t)
    PROVE  \/ \E k \in {"PERIODIC", "ONCE_OFF"}, i \in Interval : Service!Start(t, k, i)
           \/ Service!Stop(t)
  <1>1. ASSUME NEW c \in Call, Begin(u, c), c.timer = t
        PROVE  /\ \A v \in Calling : call[v].timer # t
               /\ u \in Calling' /\ call'[u] = c /\ pc'[u] = "type"
               /\ status[t] # "busy" /\ Settled(t) /\ Settled(t)' = FALSE
               /\ shots'[t] = 0
               /\ UNCHANGED <<now, interval, due, list, Expiring, Since>>
               /\ \A x \in Timer : x # t =>
                     /\ Asked(x)' = Asked(x) /\ Settled(x)' = Settled(x) /\ Every(x)' = Every(x)
                     /\ Goal(x)' = Goal(x) /\ Signals(x)' = Signals(x)
    <2>1. /\ status[t] # "busy" /\ Calling' = Calling \union {u}
          /\ pc'[u] = "type" /\ call'[u] = c
          /\ \A v \in Calling : call[v].timer # t
          /\ status'[t] = "busy" /\ shots'[t] = 0
          /\ UNCHANGED <<now, interval, due, list, loop, epoch, index>>
      BY <1>1, BeginFacts
    <2>2. Settled(t) /\ Settled(t)' = FALSE
      BY <2>1 DEF Settled
    <2>3. UNCHANGED <<Expiring, Since>>
      BY <2>1 DEF Expiring, Since, Signalling, Current
    <2>4. QED
      BY <1>1, <2>1, <2>2, <2>3, BeginOthers
  <1>2. ASSUME NEW k \in {"PERIODIC", "ONCE_OFF"}, NEW i \in Interval, status[t] = "UNKNOWN",
               NEW c \in Call, Begin(u, c), c.timer = t, c.kind = k, c.due = now + i,
               c.interval = IF k = "PERIODIC" THEN i ELSE 0
        PROVE  Service!Start(t, k, i)
    <2>1. /\ \A v \in Calling : call[v].timer # t
          /\ u \in Calling' /\ call'[u] = c
          /\ Settled(t) /\ Settled(t)' = FALSE /\ shots'[t] = 0
          /\ UNCHANGED <<now, Expiring, Since>>
          /\ \A x \in Timer : x # t =>
                /\ Asked(x)' = Asked(x) /\ Settled(x)' = Settled(x) /\ Every(x)' = Every(x)
                /\ Goal(x)' = Goal(x) /\ Signals(x)' = Signals(x)
      BY <1>1, <1>2
    <2>2. Asked(t) = "UNKNOWN" /\ Signals(t) = 0
      BY <1>2, <2>1, MappedHolds DEF Mapped, MappedOthers
    <2>3. Asked(t)' = k /\ Every(t)' = c.interval /\ Goal(t)' = now + i /\ Signals(t)' = 0
      BY <1>2, <2>1 DEF Mapped, MappedCalls
    <2>4. QED
      BY <1>2, <2>1, <2>2, <2>3, StartMaps
  <1>3. CASE status[t] = "UNKNOWN" /\ StartSome(u, t)
    <2>1. PICK i \in Interval : StartPeriodic(u, t, i) \/ StartOnceOff(u, t, i)
      BY <1>3 DEF StartSome
    <2>2. now + i \in Time
      BY ConstantFacts DEF IInv, TypeOK
    <2>3. CASE StartPeriodic(u, t, i)
      <3> DEFINE c == [timer |-> t, kind |-> "PERIODIC", interval |-> i, due |-> now + i]
      <3>1. c \in Call /\ Begin(u, c)
        BY <2>2, <2>3 DEF Call, Kind, StartPeriodic
      <3>2. c.timer = t /\ c.kind = "PERIODIC" /\ c.due = now + i /\ c.interval = i
        OBVIOUS
      <3> HIDE DEF c
      <3>3. Service!Start(t, "PERIODIC", i)
        BY <1>2, <1>3, <3>1, <3>2
      <3>4. QED
        BY <3>3
    <2>4. CASE StartOnceOff(u, t, i)
      <3> DEFINE c == [timer |-> t, kind |-> "ONCE_OFF", interval |-> 0, due |-> now + i]
      <3>1. c \in Call /\ Begin(u, c)
        BY <2>2, <2>4 DEF Call, Kind, StartOnceOff
      <3>2. c.timer = t /\ c.kind = "ONCE_OFF" /\ c.due = now + i /\ c.interval = 0
        OBVIOUS
      <3> HIDE DEF c
      <3>3. Service!Start(t, "ONCE_OFF", i)
        BY <1>2, <1>3, <3>1, <3>2
      <3>4. QED
        BY <3>3
    <2>5. QED
      BY <2>1, <2>3, <2>4
  <1>4. CASE Stop(u, t)
    <2> DEFINE c == [timer |-> t, kind |-> "UNKNOWN", interval |-> interval[t], due |-> Never]
    <2>1. interval[t] \in Interval \union {0} /\ Never \in Time
      BY ConstantFacts DEF IInv, TypeOK
    <2>2. c \in Call /\ Begin(u, c)
      BY <1>4, <2>1 DEF Call, Kind, Stop
    <2>3. c.timer = t /\ c.kind = "UNKNOWN"
      OBVIOUS
    <2> HIDE DEF c
    <2>4. /\ \A v \in Calling : call[v].timer # t
          /\ u \in Calling' /\ call'[u] = c /\ pc'[u] = "type"
          /\ status[t] # "busy" /\ Settled(t) /\ Settled(t)' = FALSE
          /\ UNCHANGED <<now, interval, due, list, Expiring, Since>>
          /\ \A x \in Timer : x # t =>
                /\ Asked(x)' = Asked(x) /\ Settled(x)' = Settled(x) /\ Every(x)' = Every(x)
                /\ Goal(x)' = Goal(x) /\ Signals(x)' = Signals(x)
      BY <1>1, <2>2, <2>3
    <2>5. /\ Asked(t) = status[t] /\ Every(t) = interval[t]
          /\ Goal(t) = IF status[t] = "UNKNOWN" THEN Never ELSE due[t]
      BY <2>4, MappedHolds DEF Mapped, MappedOthers
    <2>6. /\ Asked(t)' = "UNKNOWN" /\ Every(t)' = interval[t] /\ Signals(t)' = 0
          /\ Goal(t)' = IF t \in ToSet(list) THEN due[t] ELSE Never
      BY <2>3, <2>4 DEF Mapped, MappedCalls
    <2>7. t \in ToSet(list) => status[t] # "UNKNOWN"
      BY DEF IInv, StatusAgrees
    <2>8. Goal(t)' = Goal(t) \/ Goal(t)' = Never
      BY <2>5, <2>6, <2>7
    <2>9. Service!Stop(t)
      BY <2>4, <2>5, <2>6, <2>8, StopMaps
    <2>10. QED
      BY <2>9
  <1>5. QED
    BY <1>3, <1>4

\* A call writes: a stop takes the time of its timer away.
LEMMA WriteMaps ==
    ASSUME IInv, RInv, Mapped', NEW u \in User, WriteType(u) \/ WriteDue(u)
    PROVE  Service!Withdraw
  <1>1. /\ u \in Calling /\ Calling' = Calling
        /\ UNCHANGED <<now, list, call, status, shots, loop, epoch, index>>
        /\ \A v \in Calling : v # u => pc'[v] = pc[v] /\ call[v].timer # call[u].timer
        /\ \A x \in Timer : x # call[u].timer => interval'[x] = interval[x] /\ due'[x] = due[x]
    BY WriteFacts
  <1>2. UNCHANGED <<now, Expiring, Since>>
    BY <1>1 DEF Expiring, Since, Signalling, Current
  <1>3. ASSUME NEW x \in Timer
        PROVE  /\ Asked(x)' = Asked(x) /\ Settled(x)' = Settled(x) /\ Every(x)' = Every(x)
               /\ Signals(x)' = Signals(x)
               /\ \/ Goal(x)' = Goal(x)
                  \/ Goal(x)' = Never /\ ~ Settled(x) /\ Asked(x) = "UNKNOWN"
    <2>1. Settled(x)' = Settled(x)
      BY <1>1 DEF Settled
    <2>2. CASE \A v \in Calling : call[v].timer # x
      <3>1. /\ Asked(x) = IF status[x] = "busy" THEN "UNKNOWN" ELSE status[x]
            /\ Every(x) = interval[x]
            /\ Goal(x) = IF Asked(x) = "UNKNOWN" THEN Never ELSE due[x]
            /\ Signals(x) = IF Asked(x) = "UNKNOWN" THEN 0 ELSE shots[x]
        BY <2>2, MappedHolds DEF Mapped, MappedOthers
      <3>2. /\ Asked(x)' = IF status'[x] = "busy" THEN "UNKNOWN" ELSE status'[x]
            /\ Every(x)' = interval'[x]
            /\ Goal(x)' = IF Asked(x)' = "UNKNOWN" THEN Never ELSE due'[x]
            /\ Signals(x)' = IF Asked(x)' = "UNKNOWN" THEN 0 ELSE shots'[x]
        BY <1>1, <2>2 DEF Mapped, MappedOthers
      <3>3. QED
        BY <1>1, <2>1, <2>2, <3>1, <3>2
    <2>3. ASSUME NEW v \in Calling, call[v].timer = x
          PROVE  /\ Asked(x)' = Asked(x) /\ Settled(x)' = Settled(x) /\ Every(x)' = Every(x)
                 /\ Signals(x)' = Signals(x)
                 /\ \/ Goal(x)' = Goal(x)
                    \/ Goal(x)' = Never /\ ~ Settled(x) /\ Asked(x) = "UNKNOWN"
      <3>1. /\ Asked(x) = call[v].kind /\ ~ Settled(x)
            /\ call[v].kind # "UNKNOWN" =>
                  Every(x) = call[v].interval /\ Goal(x) = call[v].due /\ Signals(x) = shots[x]
            /\ call[v].kind = "UNKNOWN" =>
                  /\ Every(x) = interval[x] /\ Signals(x) = 0
                  /\ Goal(x) = IF x \in ToSet(list) /\ pc[v] # "list" THEN due[x] ELSE Never
        BY <2>3, MappedHolds DEF Mapped, MappedCalls
      <3>2. /\ Asked(x)' = call[v].kind
            /\ call[v].kind # "UNKNOWN" =>
                  Every(x)' = call[v].interval /\ Goal(x)' = call[v].due /\ Signals(x)' = shots'[x]
            /\ call[v].kind = "UNKNOWN" =>
                  /\ Every(x)' = interval'[x] /\ Signals(x)' = 0
                  /\ Goal(x)' = IF x \in ToSet(list') /\ pc'[v] # "list" THEN due'[x] ELSE Never
        BY <1>1, <2>3 DEF Mapped, MappedCalls
      <3>3. CASE call[v].kind # "UNKNOWN"
        BY <1>1, <2>1, <3>1, <3>2, <3>3
      <3>4. CASE call[v].kind = "UNKNOWN"
        <4>1. interval'[x] = interval[x]
          <5>1. CASE v = u
            <6>1. call[u].interval = interval[x]
              BY <2>3, <3>4, <5>1 DEF RInv, CallsWritten
            <6>2. QED
              BY <2>3, <5>1, <6>1 DEF IInv, TypeOK, WriteType, WriteDue
          <5>2. CASE v # u
            BY <1>1, <2>3, <5>2
          <5>3. QED
            BY <5>1, <5>2
        <4>2. (due'[x] = due[x] /\ (pc[v] = "list" <=> pc'[v] = "list")) \/ pc'[v] = "list"
          <5>1. CASE v = u
            BY <1>1, <5>1 DEF IInv, TypeOK, WriteType, WriteDue
          <5>2. CASE v # u
            BY <1>1, <2>3, <5>2
          <5>3. QED
            BY <5>1, <5>2
        <4>3. QED
          BY <1>1, <2>1, <3>1, <3>2, <3>4, <4>1, <4>2
      <3>5. QED
        BY <3>3, <3>4
    <2>4. QED
      BY <2>2, <2>3
  <1>4. \E S \in SUBSET Service!Stopping : Service!WithdrawAll(S)
    BY <1>3, WithdrawMaps
  <1>5. QED
    BY <1>2, <1>3, <1>4 DEF Service!Withdraw

\* A call returns; the list may lose other timers that are being stopped.
LEMMA ReturnMaps ==
    ASSUME IInv, RInv, Mapped', NEW u \in User, ChangeList(u)
    PROVE  \E t \in Timer : Service!Return(t)
  <1>1. /\ u \in Calling /\ call[u].timer \in Timer /\ pc[u] = "list" /\ ~ Dispatching
        /\ Calling' = Calling \ {u}
        /\ \A v \in Calling : v # u => /\ pc'[v] = pc[v] /\ call'[v] = call[v]
                                       /\ call[v].timer # call[u].timer
        /\ status'[call[u].timer] = call[u].kind
        /\ \A x \in Timer : x # call[u].timer => status'[x] = status[x]
        /\ UNCHANGED <<now, kind, interval, due, shots, loop, epoch, index>>
        /\ \A x \in Timer : x # call[u].timer => (x \in ToSet(list') => x \in ToSet(list))
    BY ReturnFacts
  <1>2. SUFFICES ASSUME NEW t \in Timer, t = call[u].timer PROVE Service!Return(t)
    BY <1>1
  <1>3. Expiring = None /\ Since = 0 /\ Expiring' = None /\ Since' = 0 /\ None # t
    BY <1>1, TimerAssumption DEF Expiring, Since, Signalling, Dispatching
  <1>4. /\ Asked(t)' = Asked(t) /\ ~ Settled(t) /\ Settled(t)' = TRUE
        /\ Every(t)' = Every(t) /\ Signals(t)' = Signals(t)
        /\ Asked(t) = "UNKNOWN" => Goal(t)' = Never
        /\ Asked(t) # "UNKNOWN" => Goal(t)' = Goal(t)
    <2>1. call[u].kind \in Kind
      BY <1>1, CallFacts DEF Calling
    <2>2. /\ Asked(t) = call[u].kind /\ ~ Settled(t)
          /\ call[u].kind # "UNKNOWN" =>
                Every(t) = call[u].interval /\ Goal(t) = call[u].due /\ Signals(t) = shots[t]
          /\ call[u].kind = "UNKNOWN" => Every(t) = interval[t] /\ Signals(t) = 0
      BY <1>1, <1>2, MappedHolds DEF Mapped, MappedCalls
    <2>3. \A v \in Calling' : call'[v].timer # t
      BY <1>1, <1>2
    <2>4. /\ Asked(t)' = IF status'[t] = "busy" THEN "UNKNOWN" ELSE status'[t]
          /\ Every(t)' = interval'[t]
          /\ Goal(t)' = IF Asked(t)' = "UNKNOWN" THEN Never ELSE due'[t]
          /\ Signals(t)' = IF Asked(t)' = "UNKNOWN" THEN 0 ELSE shots'[t]
      BY <2>3 DEF Mapped, MappedOthers
    <2>5. status'[t] = call[u].kind /\ call[u].kind # "busy"
      BY <1>1, <1>2, <2>1 DEF Kind
    <2>6. call[u].kind # "UNKNOWN" => call[u].interval = interval[t] /\ call[u].due = due[t]
      BY <1>1, <1>2 DEF RInv, CallsWritten
    <2>7. Settled(t)' = TRUE
      BY <2>5 DEF Settled
    <2>8. QED
      BY <1>1, <2>2, <2>4, <2>5, <2>6, <2>7
  <1>5. ASSUME NEW x \in Timer, x # t
        PROVE  /\ Asked(x)' = Asked(x) /\ Settled(x)' = Settled(x) /\ Every(x)' = Every(x)
               /\ Signals(x)' = Signals(x)
               /\ \/ Goal(x)' = Goal(x)
                  \/ Goal(x)' = Never /\ ~ Settled(x) /\ Asked(x) = "UNKNOWN"
    <2>1. Settled(x)' = Settled(x)
      BY <1>1, <1>2, <1>5 DEF Settled
    <2>2. CASE \A v \in Calling : call[v].timer # x
      <3>1. /\ Asked(x) = IF status[x] = "busy" THEN "UNKNOWN" ELSE status[x]
            /\ Every(x) = interval[x]
            /\ Goal(x) = IF Asked(x) = "UNKNOWN" THEN Never ELSE due[x]
            /\ Signals(x) = IF Asked(x) = "UNKNOWN" THEN 0 ELSE shots[x]
        BY <2>2, MappedHolds DEF Mapped, MappedOthers
      <3>2. \A v \in Calling' : call'[v].timer # x
        BY <1>1, <2>2
      <3>3. /\ Asked(x)' = IF status'[x] = "busy" THEN "UNKNOWN" ELSE status'[x]
            /\ Every(x)' = interval'[x]
            /\ Goal(x)' = IF Asked(x)' = "UNKNOWN" THEN Never ELSE due'[x]
            /\ Signals(x)' = IF Asked(x)' = "UNKNOWN" THEN 0 ELSE shots'[x]
        BY <3>2 DEF Mapped, MappedOthers
      <3>4. QED
        BY <1>1, <1>2, <1>5, <2>1, <3>1, <3>3
    <2>3. ASSUME NEW v \in Calling, call[v].timer = x
          PROVE  /\ Asked(x)' = Asked(x) /\ Settled(x)' = Settled(x) /\ Every(x)' = Every(x)
                 /\ Signals(x)' = Signals(x)
                 /\ \/ Goal(x)' = Goal(x)
                    \/ Goal(x)' = Never /\ ~ Settled(x) /\ Asked(x) = "UNKNOWN"
      <3>1. v \in Calling' /\ pc'[v] = pc[v] /\ call'[v] = call[v]
        BY <1>1, <1>2, <1>5, <2>3
      <3>2. /\ Asked(x) = call[v].kind /\ ~ Settled(x)
            /\ call[v].kind # "UNKNOWN" =>
                  Every(x) = call[v].interval /\ Goal(x) = call[v].due /\ Signals(x) = shots[x]
            /\ call[v].kind = "UNKNOWN" =>
                  /\ Every(x) = interval[x] /\ Signals(x) = 0
                  /\ Goal(x) = IF x \in ToSet(list) /\ pc[v] # "list" THEN due[x] ELSE Never
        BY <2>3, MappedHolds DEF Mapped, MappedCalls
      <3>3. /\ Asked(x)' = call[v].kind
            /\ call[v].kind # "UNKNOWN" =>
                  Every(x)' = call[v].interval /\ Goal(x)' = call[v].due /\ Signals(x)' = shots'[x]
            /\ call[v].kind = "UNKNOWN" =>
                  /\ Every(x)' = interval'[x] /\ Signals(x)' = 0
                  /\ Goal(x)' = IF x \in ToSet(list') /\ pc[v] # "list" THEN due'[x] ELSE Never
        BY <2>3, <3>1 DEF Mapped, MappedCalls
      <3>4. QED
        BY <1>1, <1>2, <1>5, <2>1, <3>2, <3>3
    <2>4. QED
      BY <2>2, <2>3
  <1>6. \E S \in SUBSET Service!Stopping : Service!WithdrawAll(S)
    <2>1. \A x \in Timer : \/ Goal(x)' = Goal(x)
                           \/ Goal(x)' = Never /\ ~ Settled(x) /\ Asked(x) = "UNKNOWN"
      BY <1>4, <1>5
    <2>2. QED
      BY <2>1, WithdrawMaps
  <1>7. Service!Never = Never
    BY DEF Service!Never, Never
  <1>8. QED
    BY <1>1, <1>3, <1>4, <1>5, <1>6, <1>7 DEF Service!Return

\* What TimerService does not see.
LEMMA Invisible ==
    ASSUME IInv,
           \/ Multiplex \/ WaitSize \/ WaitBegin \/ SelectReady \/ SelectOther \/ SelectTimeout
           \/ Demultiplex \/ Capture \/ ReAdd \/ DispatchLock \/ DispatchEnds \/ Spend
           \/ HandlerReturns \/ UNCHANGED vars
    PROVE  UNCHANGED Service!vars
  <1>1. UNCHANGED <<now, pc, call, status, interval, due, list, shots>>
    BY DEF Multiplex, WaitSize, WaitBegin, SelectReady, SelectOther, SelectTimeout, Demultiplex,
       Capture, ReAdd, DispatchLock, DispatchEnds, Spend, HandlerReturns, vars, timerVars,
       userVars
  <1>2. UNCHANGED <<Expiring, Since>>
    <2>1. CASE Capture \/ ReAdd \/ Spend \/ UNCHANGED vars
      <3>1. Signalling' = Signalling /\ UNCHANGED <<list, epoch, index>>
        BY <2>1 DEF Capture, ReAdd, Spend, vars, dispatchVars, Signalling
      <3>2. QED
        BY <3>1 DEF Expiring, Since, Current
    <2>2. CASE \/ Multiplex \/ WaitSize \/ WaitBegin \/ SelectReady \/ SelectOther
               \/ SelectTimeout \/ Demultiplex \/ DispatchLock \/ DispatchEnds \/ HandlerReturns
      <3>1. ~ Signalling /\ ~ Signalling'
        BY <2>2 DEF Multiplex, WaitSize, WaitBegin, SelectReady, SelectOther, SelectTimeout,
           Demultiplex, DispatchLock, DispatchEnds, HandlerReturns, Signalling
      <3>2. QED
        BY <3>1 DEF Expiring, Since
    <2>3. QED
      BY <2>1, <2>2
  <1>3. \A x \in Timer : /\ Asked(x)' = Asked(x) /\ Settled(x)' = Settled(x)
                         /\ Every(x)' = Every(x) /\ Goal(x)' = Goal(x) /\ Signals(x)' = Signals(x)
    BY <1>1, Untouched
  <1>4. QED
    BY <1>1, <1>2, <1>3 DEF Service!vars

\* Every step is one of TimerService, or one that it does not see.
LEMMA NextMaps == IInv /\ RInv /\ IInv' /\ [Next]_vars => [Service!Next]_Service!vars
  <1>1. IInv' => Mapped'
    BY MappedHolds, PTL
  <1> SUFFICES ASSUME IInv, RInv, Mapped', [Next]_vars PROVE [Service!Next]_Service!vars
    BY <1>1
  <1>2. ASSUME NEW u \in User, NEW t \in Timer,
               (status[t] = "UNKNOWN" /\ StartSome(u, t)) \/ Stop(u, t)
        PROVE  Service!Next
    BY <1>2, BeginMaps DEF Service!Next
  <1>3. ASSUME NEW u \in User, UserStep(u) PROVE Service!Next
    BY <1>3, WriteMaps, ReturnMaps DEF UserStep, Service!Next
  <1>4. ASSUME NEW t \in Timer, HandlerStops(t) PROVE Service!Next
    BY <1>4, HandlerStopsMaps DEF Service!Next
  <1>5. CASE ReadTimer \/ StoreDue \/ Publish \/ SortList
    BY <1>5, ExpireMaps, AdvanceMaps, SignalMaps, SortMaps DEF Service!Next
  <1>6. CASE Tick
    BY <1>6, TickMaps DEF Service!Next
  <1>7. CASE \/ LoopStep /\ ~ (ReadTimer \/ StoreDue \/ Publish \/ SortList)
             \/ SelectOther \/ SelectTimeout \/ Capture \/ ReAdd \/ UNCHANGED vars
    BY <1>7, Invisible DEF LoopStep
  <1>8. QED
    BY <1>2, <1>3, <1>4, <1>5, <1>6, <1>7 DEF Next

\* No timer is running at the start.
LEMMA InitMaps == Init => Service!Init
  <1> SUFFICES ASSUME Init PROVE Service!Init
    OBVIOUS
  <1>1. Mapped /\ Calling = {}
    BY InitInv, MappedHolds DEF Init, Calling
  <1>2. \A t \in Timer : /\ Asked(t) = "UNKNOWN" /\ Settled(t) = TRUE /\ Every(t) = 0
                         /\ Goal(t) = Never /\ Signals(t) = 0
    BY <1>1 DEF Init, Mapped, MappedOthers
  <1>3. Expiring = None /\ Since = 0
    BY DEF Init, Expiring, Since, Signalling
  <1>4. Service!Never = Never
    BY DEF Service!Never, Never
  <1>5. QED
    BY <1>2, <1>3, <1>4 DEF Init, Service!Init

\* RInv is inductive given IInv.
THEOREM Overlaps == Spec => []RInv
  BY InitR, NextR, Invariance, PTL DEF Spec

\* timer::impl and timer_dispatcher keep TimerService's promise: however the unlocked
\* writes of start() and stop() overlap on_expired() in the loop's thread, no timer is
\* signalled early, after its stop or, once off, twice, and a periodic timer keeps to
\* its grid.
THEOREM Refinement == Spec => ServiceSpec
  BY InitMaps, NextMaps, Invariance, Overlaps, PTL DEF Spec, ServiceSpec, Service!Spec
=============================================================================
