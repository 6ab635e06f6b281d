----------------------------- MODULE TcpProofs -----------------------------
(***************************************************************************)
(* Theorems about Tcp for any number of connections, workers, other        *)
(* threads, descriptors, units of data and calls: its type invariant, the  *)
(* safety invariants of its run, and that no descriptor is forgotten.      *)
(***************************************************************************)
EXTENDS Tcp, TLAPS

-----------------------------------------------------------------------------
(* The invariant *)

\* The get areas and the kernel hold no more than was sent.
Bounded == \A c \in Conn : wire[c] <= sent /\ area[c] <= sent

\* Where close() returns to.
Ret(a) == thread[a].ret

\* A thread is at work on an endpoint; it will close it; it has begun to; a worker
\* will register the connection it has accepted.
Works(a, e) == On(a) = e /\ At(a) \in HandlerPc \union ClosePc \union {"drop"}
Closes(a, e) == On(a) = e /\ At(a) \in ClosePc
Ends(a, e) == On(a) = e /\ At(a) \in {"detach", "shut", "announce"}
Registers(w) == At(w) = "register" \/ (At(w) \in ClosePc /\ Ret(w) = "register")
Drops(u) == At(u) = "drop" \/ (At(u) \in ClosePc /\ Ret(u) = "drop")

\* Where threads can be, and for whom.
UserAgrees(u) ==
    /\ At(u) \in {"idle", "drop"} \union ClosePc
    /\ At(u) \in ClosePc => Ret(u) \in {"idle", "drop"}
    /\ At(u) = "idle" <=> On(u) = Free
WorkerAgrees(w) ==
    /\ At(w) # "drop"
    /\ At(w) = "idle" <=> Job(w) = Free
    /\ At(w) \in ClosePc => Ret(w) \in {"check", "register"}
    /\ At(w) \in {"peek", "received", "recv"} => On(w) = Job(w) /\ On(w) \in Conn
    /\ At(w) = "accept" => On(w) = Acceptor /\ Job(w) = Acceptor
    /\ At(w) \in {"accepted", "register"} \union ClosePc => On(w) \in Conn
ThreadsAgree ==
    /\ \A u \in User : UserAgrees(u)
    /\ \A w \in Worker : WorkerAgrees(w)

\* The mutex of the broker: one handler at a time.
HandlersSerialised == \A v, w \in Worker : InHandler(v) /\ InHandler(w) => v = w

\* An event that is in a task is in one task.
InOneTask ==
    /\ \A w \in Worker : Job(w) # Free => event[Job(w)] = "task"
    /\ \A v, w \in Worker : Job(v) = Job(w) /\ Job(v) # Free => v = w

\* Before a connection is opened nothing is known of it, and only its opener
\* works on it.
Early == {"absent", "backlog", "pending"}
EarlyUntouched ==
    /\ \A c \in Conn : stage[c] \in Early =>
          event[c] = "none" /\ ~ connected[c] /\ announced[c] = 0 /\ ~ eof[c]
    /\ \A c \in Conn, a \in Actor : stage[c] \in Early /\ Works(a, c) => At(a) = "accepted"
    /\ \A w \in Worker : At(w) = "accepted" => stage[On(w)] = "pending"
    /\ stage[Acceptor] \in {"open", "destroyed"}

\* While a worker opens a connection no user knows it.
OpenedAlone ==
    \A w \in Worker : Registers(w) =>
        /\ stage[On(w)] = "open" /\ event[On(w)] = "none"
        /\ \A u \in User : On(u) # On(w)

\* What is destroyed is one user's.
DestroyedAlone ==
    /\ \A e \in Endpoint, a \in Actor : stage[e] = "destroyed"
          /\ Works(a, e) => a \in User /\ Drops(a)
    /\ \A e \in Endpoint, a, b \in Actor :
          stage[e] = "destroyed" /\ Works(a, e) /\ Works(b, e) => a = b
    /\ \A u \in User : Drops(u) => stage[On(u)] = "destroyed"
    /\ \A e \in Endpoint : stage[e] = "destroyed" => ~ attached[e]

\* Who has a number: an endpoint from its accept() to its destruction.
NumbersKept ==
    /\ \A c \in Conn : stage[c] \in {"absent", "backlog"} => fd[c] = Free
    /\ \A e \in Endpoint : stage[e] \in {"pending", "open"} \/ connected[e] => fd[e] # Free
    /\ \A e \in Endpoint, a \in Actor : Works(a, e) => fd[e] # Free
    /\ \A n \in Fd, e \in Endpoint : os[n] = e => fd[e] = n

\* close() clears the flag first, and leaves the descriptor to the handler that runs.
ClosersAgree ==
    /\ \A a \in Actor : At(a) \in {"detach", "shut", "announce", "drop"} => ~ connected[On(a)]
    /\ \A w \in Worker, a \in Actor :
          At(w) \in {"peek", "received", "recv"} /\ On(a) = On(w)
              => At(a) \notin {"shut", "announce", "drop"}

\* Without a number closed twice, who is connected or handled has its descriptor.
OwnersAgree ==
    "foreign" \notin past =>
        /\ "stray" \notin past
        /\ \A e \in Endpoint : connected[e] => Owner(e) = e
        /\ \A w \in Worker : At(w) \in {"accepted", "peek", "received", "recv"}
              => Owner(On(w)) = On(w)

\* Without two threads in close(), one of them ends a connection.
OneEnds ==
    "raced" \notin past =>
        /\ \A a \in Actor : At(a) = "clear" => connected[On(a)]
        /\ \A e \in Endpoint, a, b \in Actor : Ends(a, e) /\ Ends(b, e) => a = b

\* The end is announced when it is over, and once.
EndsAnnounced ==
    "raced" \notin past =>
        \A c \in Conn :
            /\ announced[c] <= 1
            /\ connected[c] \/ (\E a \in Actor : Ends(a, c)) => announced[c] = 0
            /\ stage[c] \notin Early
                  /\ announced[c] = 0 => connected[c] \/ \E a \in Actor : Ends(a, c)

\* The destroyer of a connection closes it.
DestroyedCloses ==
    \A c \in Conn : stage[c] = "destroyed" /\ connected[c] => \E u \in User : Closes(u, c)

Blamed == "foreign" \in past

\* The stream ends with the connection.
StreamsGood ==
    ~ Blamed =>
        \A c \in Conn :
            /\ eof[c]
            /\ \/ connected[c]
               \/ \E w \in Worker : At(w) \in {"peek", "received", "recv"} /\ On(w) = c
            => ended[c]

\* on_ready_receive() is called for data or an end that is there.
ReadinessKept ==
    ~ Blamed =>
        \A w \in Worker :
            (At(w) = "publish" /\ Job(w) \in Conn /\ connected[Job(w)]) \/ At(w) = "peek"
                => wire[Job(w)] > 0 \/ ended[Job(w)]

\* Who has not ended is not closed.
NoneCut == ~ Blamed => "cut" \notin past

\* Who is to see to an endpoint that is connected: the loop or a task has its event and
\* its handler is subscribed, the worker that opens it will register it, or a thread is
\* closing it.  An accept() that failed leaves the acceptor to nobody.
Watched(e) == attached[e] /\ (event[e] = "listed" \/ \E w \in Worker : Job(w) = e)
Opens(e) == \E w \in Worker : On(w) = e /\ Registers(w)
Closing(e) == \E a \in Actor : Closes(a, e)

\* Who is to see to a descriptor whose endpoint is not connected: the handler that has
\* just accepted it, or a thread that is about to close it.
Held(e) == \E n \in Fd : os[n] = e
Accepts(e) == \E w \in Worker : On(w) = e /\ At(w) = "accepted"
Releases(e) == \E a \in Actor : On(a) = e /\ At(a) \in {"detach", "shut"}

SeenTo ==
    "foreign" \notin past =>
        \A e \in Endpoint :
            /\ connected[e] /\ (e = Acceptor => "refused" \notin past)
                  => Watched(e) \/ Opens(e) \/ Closing(e)
            /\ Held(e) /\ ~ connected[e] => Accepts(e) \/ Releases(e)

IInv ==
    /\ TypeOK
    /\ Bounded
    /\ ThreadsAgree
    /\ HandlersSerialised
    /\ InOneTask
    /\ EarlyUntouched
    /\ OpenedAlone
    /\ DestroyedAlone
    /\ NumbersKept
    /\ ClosersAgree
    /\ OwnersAgree
    /\ OneEnds
    /\ EndsAnnounced
    /\ DestroyedCloses
    /\ StreamsGood
    /\ ReadinessKept
    /\ NoneCut
    /\ SeenTo

-----------------------------------------------------------------------------
(* Steps in general *)

LEMMA SetFacts ==
    /\ Free \notin Endpoint /\ Free \notin Fd
    /\ Conn \subseteq Endpoint /\ Acceptor \in Endpoint /\ Acceptor \notin Conn
    /\ \A e \in Endpoint : e \in Conn \/ e = Acceptor
    /\ Worker \subseteq Actor /\ User \subseteq Actor
    /\ Worker \intersect User = {}
    /\ \A a \in Actor : a \in Worker \/ a \in User
  BY DistinctAssumption DEF Endpoint, Actor, Fd

LEMMA IdleFacts ==
    Idle.pc = "idle" /\ Idle.job = Free /\ Idle.on = Free /\ Idle.ret = "idle" /\ Idle \in Thread
  BY DEF Idle, Thread, Pc

\* What a thread works on, and for.
ThreadsTyped ==
    \A b \in Actor : /\ On(b) \in Endpoint \union {Free} /\ Job(b) \in Endpoint \union {Free}
                    /\ At(b) \in Pc /\ Ret(b) \in {"idle", "check", "register", "drop"}

\* What the arrays hold.
ValuesTyped ==
    /\ \A n \in Fd : os[n] \in Endpoint \union {Free}
    /\ \A e \in Endpoint : fd[e] \in Fd \union {Free}
    /\ \A c \in Conn : wire[c] \in Nat /\ area[c] \in Nat /\ announced[c] \in Nat
    /\ sent \in Nat

LEMMA TypedFacts == TypeOK => ThreadsTyped /\ ValuesTyped
  <1> SUFFICES ASSUME TypeOK PROVE ThreadsTyped /\ ValuesTyped
    OBVIOUS
  <1>1. ThreadsTyped
    BY DEF TypeOK, ThreadsTyped, Thread, At, On, Job, Ret
  <1>2. ValuesTyped
    BY BoundAssumption DEF TypeOK, ValuesTyped
  <1>3. QED
    BY <1>1, <1>2

\* A step to another statement moves one thread, and forgets all when it ends.
LEMMA GotoFacts ==
    ASSUME TypeOK, NEW a \in Actor, NEW l \in Pc, Goto(a, l)
    PROVE  /\ thread' \in [Actor -> Thread]
           /\ \A b \in Actor : b # a => thread'[b] = thread[b]
           /\ l = "idle" => thread'[a] = Idle
           /\ l # "idle" => /\ thread'[a].pc = l
                            /\ thread'[a].on = thread[a].on
                            /\ thread'[a].job = thread[a].job
                            /\ thread'[a].ret = thread[a].ret
  BY IdleFacts DEF TypeOK, Goto, Thread, Pc

LEMMA CloseFacts ==
    ASSUME TypeOK, NEW a \in Actor, NEW l \in {"check", "register"}, CloseAndThen(a, l)
    PROVE  /\ thread' \in [Actor -> Thread]
           /\ \A b \in Actor : b # a => thread'[b] = thread[b]
           /\ thread'[a].pc = "close"
           /\ thread'[a].ret = l
           /\ thread'[a].on = thread[a].on
           /\ thread'[a].job = thread[a].job
  BY DEF TypeOK, CloseAndThen, Thread, Pc, ClosePc

LEMMA PeerConnectsInv ==
    ASSUME IInv, NEW c \in Conn, PeerConnects(c)
    PROVE  IInv'
  <1>1. TypeOK
    BY DEF IInv
  <1>2. ThreadsAgree
    BY DEF IInv
  <1>3. /\ thread' = thread /\ ThreadsTyped /\ ValuesTyped
        /\ \A b \in Actor : At(b)' = At(b) /\ On(b)' = On(b) /\ Job(b)' = Job(b)
              /\ Ret(b)' = Ret(b)
    BY <1>1, TypedFacts DEF PeerConnects, threadVars, At, On, Job, Ret
  <1>4. /\ stage[c] = "absent"
        /\ \A x \in Endpoint : stage'[x] = IF x = c THEN "backlog" ELSE stage[x]
    BY <1>1, <1>2, <1>3, SetFacts DEF PeerConnects, TypeOK, ThreadsAgree, UserAgrees,
       WorkerAgrees, At, On, Job, Ret, ClosePc, HandlerPc
  <1>5. UNCHANGED <<os, sent, wire, ended, fd, connected, attached, event, area, eof,
                   calls, announced, past>>
    BY DEF PeerConnects, peerVars, streamVars, loopVars, threadVars, history
  <1>6. TypeOK'
    <2>1. stage' \in [Endpoint -> Stage]
      BY <1>1, <1>2, <1>3, <1>4, SetFacts, BoundAssumption DEF PeerConnects, TypeOK,
         Bounded, IInv, ThreadsAgree, UserAgrees, WorkerAgrees, At, On, Job, Ret, Stage,
         EventPlace, Mishap, HandlerPc, ClosePc
    <2>2. QED
      BY <1>1, <1>3, <1>5, <2>1 DEF TypeOK
  <1>7. EarlyUntouched'
    BY <1>1, <1>3, <1>4, <1>5, SetFacts DEF IInv, ThreadsTyped, EarlyUntouched,
       ThreadsAgree, HandlersSerialised, OpenedAlone, InHandler, Works, Registers,
       UserAgrees, WorkerAgrees, Early, HandlerPc, ClosePc
  <1>8. OpenedAlone'
    BY <1>1, <1>3, <1>4, <1>5, SetFacts DEF IInv, ThreadsTyped, OpenedAlone, ThreadsAgree,
       HandlersSerialised, EarlyUntouched, InOneTask, DestroyedAlone, InHandler, Works,
       Registers, Drops, UserAgrees, WorkerAgrees, Early, HandlerPc, ClosePc
  <1>9. DestroyedAlone'
    BY <1>1, <1>3, <1>4, <1>5, SetFacts DEF IInv, ThreadsTyped, DestroyedAlone,
       ThreadsAgree, EarlyUntouched, OpenedAlone, Works, Registers, Drops, UserAgrees,
       WorkerAgrees, Early, HandlerPc, ClosePc
  <1>10. NumbersKept'
    BY <1>1, <1>3, <1>4, <1>5, SetFacts DEF IInv, ValuesTyped, ThreadsTyped, NumbersKept,
       ThreadsAgree, EarlyUntouched, DestroyedAlone, ClosersAgree, Works, Drops, UserAgrees,
       WorkerAgrees, Early, HandlerPc, ClosePc
  <1>11. EndsAnnounced'
    BY <1>1, <1>3, <1>4, <1>5, SetFacts DEF IInv, ValuesTyped, ThreadsTyped, EndsAnnounced,
       ThreadsAgree, EarlyUntouched, OneEnds, ClosersAgree, Works, Ends, UserAgrees,
       WorkerAgrees, Early, HandlerPc, ClosePc
  <1>12. DestroyedCloses'
    BY <1>1, <1>3, <1>4, <1>5, SetFacts DEF IInv, ThreadsTyped, DestroyedCloses,
       ThreadsAgree, EarlyUntouched, ClosersAgree, Works, Closes, UserAgrees, WorkerAgrees,
       Early, HandlerPc, ClosePc
  <1>13. Bounded' /\ ThreadsAgree' /\ HandlersSerialised' /\ InOneTask' /\ ClosersAgree'
           /\ OwnersAgree' /\ OneEnds' /\ StreamsGood' /\ ReadinessKept' /\ NoneCut'
    BY <1>3, <1>5, SetFacts DEF IInv, Bounded, ThreadsAgree, HandlersSerialised, InOneTask,
       ClosersAgree, OwnersAgree, OneEnds, StreamsGood, ReadinessKept, NoneCut, Owner,
       InHandler, Ends, UserAgrees, WorkerAgrees, Blamed, HandlerPc, ClosePc
  <1>14. SeenTo'
    BY <1>1, <1>2, <1>3, <1>4, <1>5, SetFacts DEF IInv, ThreadsTyped, ValuesTyped, SeenTo,
       Watched, Opens, Closing, Held, Accepts, Releases, Registers, Closes, ThreadsAgree,
       UserAgrees, WorkerAgrees, HandlerPc, ClosePc
  <1>15. QED
    BY <1>6, <1>7, <1>8, <1>9, <1>10, <1>11, <1>12, <1>13, <1>14 DEF IInv

LEMMA PeerSendsInv ==
    ASSUME IInv, NEW c \in Conn, PeerSends(c)
    PROVE  IInv'
  <1>1. TypeOK
    BY DEF IInv
  <1>2. ThreadsAgree
    BY DEF IInv
  <1>3. /\ thread' = thread /\ ThreadsTyped /\ ValuesTyped
        /\ \A b \in Actor : At(b)' = At(b) /\ On(b)' = On(b) /\ Job(b)' = Job(b)
              /\ Ret(b)' = Ret(b)
    BY <1>1, TypedFacts DEF PeerSends, threadVars, At, On, Job, Ret
  <1>4. /\ sent < MaxData
        /\ sent' = sent + 1
        /\ \A x \in Conn : wire'[x] = IF x = c THEN wire[c] + 1 ELSE wire[x]
    BY <1>1, <1>2, <1>3, SetFacts DEF PeerSends, TypeOK, ThreadsAgree, UserAgrees,
       WorkerAgrees, At, On, Job, Ret, ClosePc, HandlerPc
  <1>5. UNCHANGED <<os, stage, ended, fd, connected, attached, event, area, eof, calls,
                   announced, past>>
    BY DEF PeerSends, socketVars, streamVars, loopVars, threadVars, history
  <1>6. TypeOK'
    <2>1. sent' \in 0..MaxData
      BY <1>1, <1>2, <1>3, <1>4, SetFacts, BoundAssumption DEF PeerSends, TypeOK, Bounded,
         IInv, ThreadsAgree, UserAgrees, WorkerAgrees, At, On, Job, Ret, Stage, EventPlace,
         Mishap, HandlerPc, ClosePc
    <2>2. wire' \in [Conn -> 0..MaxData]
      BY <1>1, <1>2, <1>3, <1>4, SetFacts, BoundAssumption DEF PeerSends, TypeOK, Bounded,
         IInv, ThreadsAgree, UserAgrees, WorkerAgrees, At, On, Job, Ret, Stage, EventPlace,
         Mishap, HandlerPc, ClosePc
    <2>3. QED
      BY <1>1, <1>3, <1>5, <2>1, <2>2 DEF TypeOK
  <1>7. Bounded'
    BY <1>1, <1>3, <1>4, <1>5, SetFacts DEF IInv, ValuesTyped, ThreadsTyped, Bounded
  <1>8. ReadinessKept'
    BY <1>1, <1>3, <1>4, <1>5, SetFacts DEF IInv, ValuesTyped, ThreadsTyped, ReadinessKept,
       ThreadsAgree, InOneTask, EarlyUntouched, OwnersAgree, ClosersAgree, Owner, Works,
       UserAgrees, WorkerAgrees, Early, Blamed, HandlerPc, ClosePc
  <1>9. ThreadsAgree' /\ HandlersSerialised' /\ InOneTask' /\ EarlyUntouched'
           /\ OpenedAlone' /\ DestroyedAlone' /\ NumbersKept' /\ ClosersAgree'
           /\ OwnersAgree' /\ OneEnds' /\ EndsAnnounced' /\ DestroyedCloses' /\ StreamsGood'
           /\ NoneCut'
    BY <1>3, <1>5, SetFacts DEF IInv, ThreadsAgree, HandlersSerialised, InOneTask,
       EarlyUntouched, OpenedAlone, DestroyedAlone, NumbersKept, ClosersAgree, OwnersAgree,
       OneEnds, EndsAnnounced, DestroyedCloses, StreamsGood, NoneCut, Owner, InHandler,
       Works, Closes, Ends, Registers, Drops, UserAgrees, WorkerAgrees, Early, Blamed,
       HandlerPc, ClosePc
  <1>10. SeenTo'
    BY <1>1, <1>2, <1>3, <1>4, <1>5, SetFacts DEF IInv, ThreadsTyped, ValuesTyped, SeenTo,
       Watched, Opens, Closing, Held, Accepts, Releases, Registers, Closes, ThreadsAgree,
       UserAgrees, WorkerAgrees, HandlerPc, ClosePc
  <1>11. QED
    BY <1>6, <1>7, <1>8, <1>9, <1>10 DEF IInv

LEMMA PeerEndsInv ==
    ASSUME IInv, NEW c \in Conn, PeerEnds(c)
    PROVE  IInv'
  <1>1. TypeOK
    BY DEF IInv
  <1>2. ThreadsAgree
    BY DEF IInv
  <1>3. /\ thread' = thread /\ ThreadsTyped /\ ValuesTyped
        /\ \A b \in Actor : At(b)' = At(b) /\ On(b)' = On(b) /\ Job(b)' = Job(b)
              /\ Ret(b)' = Ret(b)
    BY <1>1, TypedFacts DEF PeerEnds, threadVars, At, On, Job, Ret
  <1>4. /\ \A x \in Conn : ended'[x] <=> x = c \/ ended[x]
    BY <1>1, <1>2, <1>3, SetFacts DEF PeerEnds, TypeOK, ThreadsAgree, UserAgrees,
       WorkerAgrees, At, On, Job, Ret, ClosePc, HandlerPc
  <1>5. UNCHANGED <<os, stage, sent, wire, fd, connected, attached, event, area, eof,
                   calls, announced, past>>
    BY DEF PeerEnds, socketVars, streamVars, loopVars, threadVars, history
  <1>6. TypeOK'
    <2>1. ended' \in [Conn -> BOOLEAN]
      BY <1>1, <1>2, <1>3, <1>4, SetFacts, BoundAssumption DEF PeerEnds, TypeOK, Bounded,
         IInv, ThreadsAgree, UserAgrees, WorkerAgrees, At, On, Job, Ret, Stage, EventPlace,
         Mishap, HandlerPc, ClosePc
    <2>2. QED
      BY <1>1, <1>3, <1>5, <2>1 DEF TypeOK
  <1>7. ReadinessKept'
    BY <1>1, <1>3, <1>4, <1>5, SetFacts DEF IInv, ValuesTyped, ThreadsTyped, ReadinessKept,
       ThreadsAgree, InOneTask, EarlyUntouched, OwnersAgree, ClosersAgree, Owner, Works,
       UserAgrees, WorkerAgrees, Early, Blamed, HandlerPc, ClosePc
  <1>8. Bounded' /\ ThreadsAgree' /\ HandlersSerialised' /\ InOneTask' /\ EarlyUntouched'
           /\ OpenedAlone' /\ DestroyedAlone' /\ NumbersKept' /\ ClosersAgree'
           /\ OwnersAgree' /\ OneEnds' /\ EndsAnnounced' /\ DestroyedCloses' /\ NoneCut'
    BY <1>3, <1>5, SetFacts DEF IInv, Bounded, ThreadsAgree, HandlersSerialised, InOneTask,
       EarlyUntouched, OpenedAlone, DestroyedAlone, NumbersKept, ClosersAgree, OwnersAgree,
       OneEnds, EndsAnnounced, DestroyedCloses, NoneCut, Owner, InHandler,
       Works, Closes, Ends, Registers, Drops, UserAgrees, WorkerAgrees, Early, Blamed,
       HandlerPc, ClosePc
  <1>9. StreamsGood'
    BY <1>3, <1>4, <1>5, SetFacts DEF IInv, StreamsGood, Blamed
  <1>10. SeenTo'
    BY <1>1, <1>2, <1>3, <1>4, <1>5, SetFacts DEF IInv, ThreadsTyped, ValuesTyped, SeenTo,
       Watched, Opens, Closing, Held, Accepts, Releases, Registers, Closes, ThreadsAgree,
       UserAgrees, WorkerAgrees, HandlerPc, ClosePc
  <1>11. QED
    BY <1>6, <1>7, <1>8, <1>9, <1>10 DEF IInv

LEMMA RemoveBadInv ==
    ASSUME IInv, NEW e \in Endpoint, RemoveBad(e)
    PROVE  IInv'
  <1>1. TypeOK
    BY DEF IInv
  <1>2. ThreadsAgree
    BY DEF IInv
  <1>3. /\ thread' = thread /\ ThreadsTyped /\ ValuesTyped
        /\ \A b \in Actor : At(b)' = At(b) /\ On(b)' = On(b) /\ Job(b)' = Job(b)
              /\ Ret(b)' = Ret(b)
    BY <1>1, TypedFacts DEF RemoveBad, threadVars, At, On, Job, Ret
  <1>4. /\ event[e] = "listed"
        /\ \A x \in Endpoint : event'[x] = IF x = e THEN "none" ELSE event[x]
    BY <1>1, <1>2, <1>3, SetFacts DEF RemoveBad, TypeOK, ThreadsAgree, UserAgrees,
       WorkerAgrees, At, On, Job, Ret, ClosePc, HandlerPc
  <1>5. UNCHANGED <<os, stage, sent, wire, ended, fd, connected, attached, area, eof,
                   calls, announced, past>>
    BY DEF RemoveBad, socketVars, peerVars, streamVars, threadVars, history
  <1>6. TypeOK'
    <2>1. event' \in [Endpoint -> EventPlace]
      BY <1>1, <1>2, <1>3, <1>4, SetFacts, BoundAssumption DEF RemoveBad, TypeOK, Bounded,
         IInv, ThreadsAgree, UserAgrees, WorkerAgrees, At, On, Job, Ret, Owner, Stage,
         EventPlace, Mishap, HandlerPc, ClosePc
    <2>2. QED
      BY <1>1, <1>3, <1>5, <2>1 DEF TypeOK
  <1>7. InOneTask'
    BY <1>1, <1>3, <1>4, <1>5, SetFacts DEF IInv, ThreadsTyped, InOneTask, ThreadsAgree,
       OpenedAlone, Registers, UserAgrees, WorkerAgrees, HandlerPc, ClosePc
  <1>8. EarlyUntouched'
    BY <1>1, <1>3, <1>4, <1>5, SetFacts DEF IInv, ThreadsTyped, EarlyUntouched,
       ThreadsAgree, HandlersSerialised, OpenedAlone, InHandler, Works, Registers,
       UserAgrees, WorkerAgrees, Early, HandlerPc, ClosePc
  <1>9. OpenedAlone'
    BY <1>1, <1>3, <1>4, <1>5, SetFacts DEF IInv, ThreadsTyped, OpenedAlone, ThreadsAgree,
       HandlersSerialised, EarlyUntouched, InOneTask, DestroyedAlone, InHandler, Works,
       Registers, Drops, UserAgrees, WorkerAgrees, Early, HandlerPc, ClosePc
  <1>10. Bounded' /\ ThreadsAgree' /\ HandlersSerialised' /\ DestroyedAlone' /\ NumbersKept'
           /\ ClosersAgree' /\ OwnersAgree' /\ OneEnds' /\ EndsAnnounced'
           /\ DestroyedCloses' /\ StreamsGood' /\ ReadinessKept' /\ NoneCut'
    BY <1>3, <1>5, SetFacts DEF IInv, Bounded, ThreadsAgree, HandlersSerialised,
       DestroyedAlone, NumbersKept, ClosersAgree, OwnersAgree, OneEnds, EndsAnnounced,
       DestroyedCloses, StreamsGood, ReadinessKept, NoneCut, Owner, InHandler, Works,
       Closes, Ends, Drops, UserAgrees, WorkerAgrees, Early, Blamed, HandlerPc, ClosePc
  <1>11. SeenTo'
    <2>1. "foreign" \notin past => ~ connected[e]
      <3>1. Owner(e) = Free /\ e # Free
        BY SetFacts DEF RemoveBad
      <3>2. QED
        BY <3>1 DEF IInv, OwnersAgree
    <2>2. \A x \in Endpoint :
             /\ Watched(x) /\ x # e => Watched(x)'
             /\ Opens(x) => Opens(x)'
             /\ Closing(x) => Closing(x)'
             /\ Accepts(x) => Accepts(x)'
             /\ Releases(x) => Releases(x)'
      BY <1>1, <1>3, <1>4, <1>5, SetFacts DEF Watched, Opens, Closing, Accepts, Releases,
         Registers, Closes
    <2>3. QED
      BY <1>5, <2>1, <2>2 DEF IInv, SeenTo, Held
  <1>12. QED
    BY <1>6, <1>7, <1>8, <1>9, <1>10, <1>11 DEF IInv

LEMMA TriggerInv ==
    ASSUME IInv, NEW w \in Worker, NEW e \in Endpoint, Trigger(w, e)
    PROVE  IInv'
  <1>1. TypeOK
    BY DEF IInv
  <1>2. ThreadsAgree
    BY DEF IInv
  <1>3. /\ w \in Actor
        /\ thread' \in [Actor -> Thread]
        /\ ThreadsTyped /\ ValuesTyped
        /\ \A b \in Actor : b # w => At(b)' = At(b) /\ On(b)' = On(b)
              /\ Job(b)' = Job(b) /\ Ret(b)' = Ret(b)
        /\ At(w)' = "publish"
        /\ On(w)' = Free
        /\ Job(w)' = e
        /\ Ret(w)' = "idle"
    <2>1. /\ w \in Actor /\ ThreadsTyped /\ ValuesTyped
          /\ thread \in [Actor -> Thread] /\ Idle \in Thread
      BY <1>1, SetFacts, IdleFacts, TypedFacts DEF TypeOK
    <2>2. thread[w] \in Thread
      BY <2>1
    <2>3. thread' = [thread EXCEPT ![w] = thread'[w]]
      BY <2>1, <2>2 DEF Trigger
    <2>4. /\ thread'[w].pc = "publish"
          /\ thread'[w].on = Free
          /\ thread'[w].job = e
          /\ thread'[w].ret = "idle"
      BY <2>1, <2>2, IdleFacts DEF Trigger, Idle, Thread, Job, At
    <2>5. thread'[w] \in Thread
      BY <1>1, <1>2, <2>1, <2>2, IdleFacts, SetFacts DEF Trigger, Thread, Pc, ClosePc,
         HandlerPc, Idle, Job, At, ThreadsAgree, WorkerAgrees, Endpoint
    <2>6. \A b \in Actor : b # w => thread'[b] = thread[b]
      BY <2>1, <2>3
    <2>7. thread' \in [Actor -> Thread]
      BY <2>1, <2>3, <2>5
    <2>8. At(w) \in Pc /\ Job(w) \in Endpoint \union {Free}
      BY <2>1 DEF ThreadsTyped
    <2>9. QED
      BY <1>2, <2>1, <2>4, <2>6, <2>7, IdleFacts, SetFacts DEF Trigger, At, On, Job, Ret
  <1>4. /\ At(w) = "idle"
        /\ event[e] = "listed"
        /\ Readable(Owner(e))
        /\ \A x \in Endpoint : event'[x] = IF x = e THEN "task" ELSE event[x]
    BY <1>1, <1>2, <1>3, SetFacts DEF Trigger, TypeOK, ThreadsAgree, UserAgrees,
       WorkerAgrees, At, On, Job, Ret, ClosePc, HandlerPc
  <1>5. UNCHANGED <<os, stage, sent, wire, ended, fd, connected, attached, area, eof,
                   calls, announced, past>>
    BY DEF Trigger, socketVars, peerVars, streamVars, history
  <1>6. TypeOK'
    <2>1. event' \in [Endpoint -> EventPlace]
      BY <1>1, <1>2, <1>3, <1>4, SetFacts, BoundAssumption DEF Trigger, TypeOK, Bounded,
         IInv, ThreadsAgree, UserAgrees, WorkerAgrees, At, On, Job, Ret, Owner, Stage,
         EventPlace, Mishap, HandlerPc, ClosePc
    <2>2. QED
      BY <1>1, <1>3, <1>5, <2>1 DEF TypeOK
  <1>7. ThreadsAgree'
    BY <1>1, <1>3, <1>4, <1>5, SetFacts DEF IInv, ThreadsTyped, ThreadsAgree,
       EarlyUntouched, Owner, HasData, Readable, Works, UserAgrees, WorkerAgrees, Early,
       HandlerPc, ClosePc
  <1>8. HandlersSerialised'
    BY <1>1, <1>3, <1>4, <1>5, SetFacts DEF IInv, ThreadsTyped, HandlersSerialised,
       ThreadsAgree, Owner, HasData, Readable, InHandler, UserAgrees, WorkerAgrees,
       HandlerPc, ClosePc
  <1>9. InOneTask'
    BY <1>1, <1>3, <1>4, <1>5, SetFacts DEF IInv, ThreadsTyped, InOneTask, ThreadsAgree,
       OpenedAlone, Owner, HasData, Readable, Registers, UserAgrees, WorkerAgrees,
       HandlerPc, ClosePc
  <1>10. EarlyUntouched'
    BY <1>1, <1>3, <1>4, <1>5, SetFacts DEF IInv, ThreadsTyped, EarlyUntouched,
       ThreadsAgree, HandlersSerialised, OpenedAlone, Owner, HasData, Readable, InHandler,
       Works, Registers, UserAgrees, WorkerAgrees, Early, HandlerPc, ClosePc
  <1>11. OpenedAlone'
    BY <1>1, <1>3, <1>4, <1>5, SetFacts DEF IInv, ThreadsTyped, OpenedAlone, ThreadsAgree,
       HandlersSerialised, EarlyUntouched, InOneTask, DestroyedAlone, Owner, HasData,
       Readable, InHandler, Works, Registers, Drops, UserAgrees, WorkerAgrees, Early,
       HandlerPc, ClosePc
  <1>12. DestroyedAlone'
    BY <1>1, <1>3, <1>4, <1>5, SetFacts DEF IInv, ThreadsTyped, DestroyedAlone,
       ThreadsAgree, EarlyUntouched, OpenedAlone, Owner, HasData, Readable, Works,
       Registers, Drops, UserAgrees, WorkerAgrees, Early, HandlerPc, ClosePc
  <1>13. NumbersKept'
    BY <1>1, <1>3, <1>4, <1>5, SetFacts DEF IInv, ValuesTyped, ThreadsTyped, NumbersKept,
       ThreadsAgree, EarlyUntouched, DestroyedAlone, ClosersAgree, Owner, HasData, Readable,
       Works, Drops, UserAgrees, WorkerAgrees, Early, HandlerPc, ClosePc
  <1>14. ClosersAgree'
    BY <1>1, <1>3, <1>4, <1>5, SetFacts DEF IInv, ThreadsTyped, ClosersAgree, ThreadsAgree,
       EarlyUntouched, DestroyedAlone, Owner, HasData, Readable, Works, Drops, UserAgrees,
       WorkerAgrees, Early, HandlerPc, ClosePc
  <1>15. OwnersAgree'
    BY <1>1, <1>3, <1>4, <1>5, SetFacts DEF IInv, ValuesTyped, ThreadsTyped, OwnersAgree,
       ThreadsAgree, EarlyUntouched, NumbersKept, ClosersAgree, Owner, HasData, Readable,
       Works, UserAgrees, WorkerAgrees, Early, HandlerPc, ClosePc
  <1>16. OneEnds'
    BY <1>1, <1>3, <1>4, <1>5, SetFacts DEF IInv, ThreadsTyped, OneEnds, ThreadsAgree,
       Owner, HasData, Readable, Ends, UserAgrees, WorkerAgrees, HandlerPc, ClosePc
  <1>17. EndsAnnounced'
    BY <1>1, <1>3, <1>4, <1>5, SetFacts DEF IInv, ValuesTyped, ThreadsTyped, EndsAnnounced,
       ThreadsAgree, EarlyUntouched, OneEnds, ClosersAgree, Owner, HasData, Readable, Works,
       Ends, UserAgrees, WorkerAgrees, Early, HandlerPc, ClosePc
  <1>18. DestroyedCloses'
    BY <1>1, <1>3, <1>4, <1>5, SetFacts DEF IInv, ThreadsTyped, DestroyedCloses,
       ThreadsAgree, EarlyUntouched, ClosersAgree, Owner, HasData, Readable, Works, Closes,
       UserAgrees, WorkerAgrees, Early, HandlerPc, ClosePc
  <1>19. StreamsGood'
    BY <1>1, <1>3, <1>4, <1>5, SetFacts DEF IInv, ThreadsTyped, StreamsGood, ThreadsAgree,
       HandlersSerialised, EarlyUntouched, Owner, HasData, Readable, InHandler, Works,
       UserAgrees, WorkerAgrees, Early, Blamed, HandlerPc, ClosePc
  <1>20. ReadinessKept'
    BY <1>1, <1>3, <1>4, <1>5, SetFacts DEF IInv, ValuesTyped, ThreadsTyped, ReadinessKept,
       ThreadsAgree, InOneTask, EarlyUntouched, OwnersAgree, ClosersAgree, Owner, HasData,
       Readable, Works, UserAgrees, WorkerAgrees, Early, Blamed, HandlerPc, ClosePc
  <1>21. Bounded' /\ NoneCut'
    BY <1>3, <1>5, SetFacts DEF IInv, Bounded, NoneCut, Blamed
  <1>22. SeenTo'
    BY <1>1, <1>2, <1>3, <1>4, <1>5, SetFacts DEF IInv, ThreadsTyped, ValuesTyped, SeenTo,
       Watched, Opens, Closing, Held, Accepts, Releases, Registers, Closes, ThreadsAgree,
       UserAgrees, WorkerAgrees, HandlerPc, ClosePc
  <1>23. QED
    BY <1>6, <1>7, <1>8, <1>9, <1>10, <1>11, <1>12, <1>13, <1>14, <1>15, <1>16, <1>17,
       <1>18, <1>19, <1>20, <1>21, <1>22 DEF IInv

LEMMA PublishInv ==
    ASSUME IInv, NEW w \in Worker, Publish(w)
    PROVE  IInv'
  <1>1. TypeOK
    BY DEF IInv
  <1>2. ThreadsAgree
    BY DEF IInv
  <1>3. /\ w \in Actor
        /\ thread' \in [Actor -> Thread]
        /\ ThreadsTyped /\ ValuesTyped
        /\ \A b \in Actor : b # w => At(b)' = At(b) /\ On(b)' = On(b)
              /\ Job(b)' = Job(b) /\ Ret(b)' = Ret(b)
        /\ On(w)' = Job(w)
        /\ Job(w)' = Job(w)
        /\ Ret(w)' = Ret(w)
        /\ At(w)' = IF ~ attached[Job(w)] \/ ~ connected[Job(w)] THEN "check"
                          ELSE IF Job(w) = Acceptor THEN "accept" ELSE "peek"
    <2>1. /\ w \in Actor /\ ThreadsTyped /\ ValuesTyped
          /\ thread \in [Actor -> Thread] /\ Idle \in Thread
      BY <1>1, SetFacts, IdleFacts, TypedFacts DEF TypeOK
    <2>2. thread[w] \in Thread
      BY <2>1
    <2>3. thread' = [thread EXCEPT ![w] = thread'[w]]
      BY <2>1, <2>2 DEF Publish
    <2>4. /\ thread'[w].pc = IF ~ attached[Job(w)] \/ ~ connected[Job(w)] THEN "check"
                            ELSE IF Job(w) = Acceptor THEN "accept" ELSE "peek"
          /\ thread'[w].on = Job(w)
          /\ thread'[w].job = thread[w].job
          /\ thread'[w].ret = thread[w].ret
      BY <2>1, <2>2, IdleFacts DEF Publish, Idle, Thread, Job, At
    <2>5. thread'[w] \in Thread
      BY <1>1, <1>2, <2>1, <2>2, IdleFacts, SetFacts DEF Publish, Thread, Pc, ClosePc,
         HandlerPc, Idle, Job, At, ThreadsAgree, WorkerAgrees, Endpoint
    <2>6. \A b \in Actor : b # w => thread'[b] = thread[b]
      BY <2>1, <2>3
    <2>7. thread' \in [Actor -> Thread]
      BY <2>1, <2>3, <2>5
    <2>8. At(w) \in Pc /\ Job(w) \in Endpoint \union {Free}
      BY <2>1 DEF ThreadsTyped
    <2>9. QED
      BY <1>2, <2>1, <2>4, <2>6, <2>7, IdleFacts, SetFacts DEF Publish, At, On, Job, Ret
  <1>4. /\ At(w) = "publish"
        /\ MayLock(w)
        /\ \A x \in Endpoint : attached'[x] => attached[x]
    BY <1>1, <1>2, <1>3, SetFacts DEF Publish, TypeOK, ThreadsAgree, UserAgrees,
       WorkerAgrees, At, On, Job, Ret, ClosePc, HandlerPc
  <1>5. UNCHANGED <<os, stage, sent, wire, ended, fd, connected, event, area, eof, calls,
                   announced, past>>
    BY DEF Publish, socketVars, peerVars, streamVars, history
  <1>6. TypeOK'
    <2>1. attached' \in [Endpoint -> BOOLEAN]
      BY <1>1, <1>2, <1>3, <1>4, SetFacts, BoundAssumption DEF Publish, TypeOK, Bounded,
         IInv, ThreadsAgree, UserAgrees, WorkerAgrees, At, On, Job, Ret, Stage, EventPlace,
         Mishap, HandlerPc, ClosePc
    <2>2. QED
      BY <1>1, <1>3, <1>5, <2>1 DEF TypeOK
  <1>7. ThreadsAgree'
    BY <1>1, <1>3, <1>4, <1>5, SetFacts DEF IInv, ThreadsTyped, ThreadsAgree,
       EarlyUntouched, InHandler, MayLock, Works, UserAgrees, WorkerAgrees, Early,
       HandlerPc, ClosePc
  <1>8. HandlersSerialised'
    BY <1>1, <1>3, <1>4, <1>5, SetFacts DEF IInv, ThreadsTyped, HandlersSerialised,
       ThreadsAgree, InHandler, MayLock, UserAgrees, WorkerAgrees, HandlerPc, ClosePc
  <1>9. InOneTask'
    BY <1>1, <1>3, <1>4, <1>5, SetFacts DEF IInv, ThreadsTyped, InOneTask, ThreadsAgree,
       OpenedAlone, InHandler, MayLock, Registers, UserAgrees, WorkerAgrees, HandlerPc,
       ClosePc
  <1>10. EarlyUntouched'
    BY <1>1, <1>3, <1>4, <1>5, SetFacts DEF IInv, ThreadsTyped, EarlyUntouched,
       ThreadsAgree, HandlersSerialised, OpenedAlone, InHandler, MayLock, Works, Registers,
       UserAgrees, WorkerAgrees, Early, HandlerPc, ClosePc
  <1>11. OpenedAlone'
    BY <1>1, <1>3, <1>4, <1>5, SetFacts DEF IInv, ThreadsTyped, OpenedAlone, ThreadsAgree,
       HandlersSerialised, EarlyUntouched, InOneTask, DestroyedAlone, InHandler, MayLock,
       Works, Registers, Drops, UserAgrees, WorkerAgrees, Early, HandlerPc, ClosePc
  <1>12. DestroyedAlone'
    BY <1>1, <1>3, <1>4, <1>5, SetFacts DEF IInv, ThreadsTyped, DestroyedAlone,
       ThreadsAgree, EarlyUntouched, OpenedAlone, InHandler, MayLock, Works, Registers,
       Drops, UserAgrees, WorkerAgrees, Early, HandlerPc, ClosePc
  <1>13. NumbersKept'
    BY <1>1, <1>3, <1>4, <1>5, SetFacts DEF IInv, ValuesTyped, ThreadsTyped, NumbersKept,
       ThreadsAgree, EarlyUntouched, DestroyedAlone, ClosersAgree, InHandler, MayLock,
       Works, Drops, UserAgrees, WorkerAgrees, Early, HandlerPc, ClosePc
  <1>14. ClosersAgree'
    BY <1>1, <1>3, <1>4, <1>5, SetFacts DEF IInv, ThreadsTyped, ClosersAgree, ThreadsAgree,
       EarlyUntouched, DestroyedAlone, InHandler, MayLock, Works, Drops, UserAgrees,
       WorkerAgrees, Early, HandlerPc, ClosePc
  <1>15. OwnersAgree'
    BY <1>1, <1>3, <1>4, <1>5, SetFacts DEF IInv, ValuesTyped, ThreadsTyped, OwnersAgree,
       ThreadsAgree, EarlyUntouched, NumbersKept, ClosersAgree, Owner, InHandler, MayLock,
       Works, UserAgrees, WorkerAgrees, Early, HandlerPc, ClosePc
  <1>16. OneEnds'
    BY <1>1, <1>3, <1>4, <1>5, SetFacts DEF IInv, ThreadsTyped, OneEnds, ThreadsAgree,
       InHandler, MayLock, Ends, UserAgrees, WorkerAgrees, HandlerPc, ClosePc
  <1>17. EndsAnnounced'
    BY <1>1, <1>3, <1>4, <1>5, SetFacts DEF IInv, ValuesTyped, ThreadsTyped, EndsAnnounced,
       ThreadsAgree, EarlyUntouched, OneEnds, ClosersAgree, InHandler, MayLock, Works, Ends,
       UserAgrees, WorkerAgrees, Early, HandlerPc, ClosePc
  <1>18. DestroyedCloses'
    BY <1>1, <1>3, <1>4, <1>5, SetFacts DEF IInv, ThreadsTyped, DestroyedCloses,
       ThreadsAgree, EarlyUntouched, ClosersAgree, InHandler, MayLock, Works, Closes,
       UserAgrees, WorkerAgrees, Early, HandlerPc, ClosePc
  <1>19. StreamsGood'
    BY <1>1, <1>3, <1>4, <1>5, SetFacts DEF IInv, ThreadsTyped, StreamsGood, ThreadsAgree,
       HandlersSerialised, EarlyUntouched, InHandler, MayLock, Works, UserAgrees,
       WorkerAgrees, Early, Blamed, HandlerPc, ClosePc
  <1>20. ReadinessKept'
    BY <1>1, <1>3, <1>4, <1>5, SetFacts DEF IInv, ValuesTyped, ThreadsTyped, ReadinessKept,
       ThreadsAgree, InOneTask, EarlyUntouched, OwnersAgree, ClosersAgree, Owner, InHandler,
       MayLock, Works, UserAgrees, WorkerAgrees, Early, Blamed, HandlerPc, ClosePc
  <1>21. Bounded' /\ NoneCut'
    BY <1>3, <1>5, SetFacts DEF IInv, Bounded, NoneCut, Blamed
  <1>22. SeenTo'
    <2>1. \A x \in Endpoint : attached[x] /\ connected[x] => attached'[x]
      <3>1. attached' = [attached EXCEPT ![Job(w)] =
                            @ /\ (Job(w) = Acceptor => connected[Job(w)])]
        BY DEF Publish
      <3>2. QED
        BY <1>1, <3>1 DEF TypeOK
    <2>2. \A e \in Endpoint :
             /\ Watched(e) /\ connected[e] => Watched(e)'
             /\ Opens(e) => Opens(e)'
             /\ Closing(e) => Closing(e)'
             /\ Accepts(e) => Accepts(e)'
             /\ Releases(e) => Releases(e)'
      BY <1>1, <1>2, <1>3, <1>4, <1>5, <2>1, SetFacts DEF ThreadsTyped, ValuesTyped,
         Watched, Opens, Closing, Held, Accepts, Releases, Registers, Closes, ThreadsAgree,
         UserAgrees, WorkerAgrees, HandlerPc, ClosePc
    <2>3. QED
      BY <1>5, <2>2 DEF IInv, SeenTo, Held
  <1>23. QED
    BY <1>6, <1>7, <1>8, <1>9, <1>10, <1>11, <1>12, <1>13, <1>14, <1>15, <1>16, <1>17,
       <1>18, <1>19, <1>20, <1>21, <1>22 DEF IInv

LEMMA CheckInv ==
    ASSUME IInv, NEW w \in Worker, Check(w)
    PROVE  IInv'
  <1>1. TypeOK
    BY DEF IInv
  <1>2. ThreadsAgree
    BY DEF IInv
  <1>3. /\ w \in Actor
        /\ thread' \in [Actor -> Thread]
        /\ ThreadsTyped /\ ValuesTyped
        /\ \A b \in Actor : b # w => At(b)' = At(b) /\ On(b)' = On(b)
              /\ Job(b)' = Job(b) /\ Ret(b)' = Ret(b)
        /\ \/ (At(w)' = "readd" /\ On(w)' = On(w) /\ Job(w)' = Job(w) /\ Ret(w)' = Ret(w))
           \/ (At(w)' = "idle" /\ On(w)' = Free /\ Job(w)' = Free /\ Ret(w)' = "idle")
    BY <1>1, <1>2, SetFacts, IdleFacts, GotoFacts, CloseFacts, TypedFacts DEF Check, TypeOK,
       ThreadsAgree, UserAgrees, WorkerAgrees, At, On, Job, Ret, Thread, Pc, HandlerPc,
       ClosePc, Endpoint
  <1>4. /\ At(w) = "check"
        /\ MayLock(w)
        /\ \/ At(w)' = "readd" /\ event' = event
           \/ At(w)' = "idle"
                 /\ \A x \in Endpoint : event'[x] = IF x = Job(w) THEN "none" ELSE event[x]
    <2>1. CASE attached[Job(w)]
      <3>1. event' = event /\ Goto(w, "readd")
        BY <2>1 DEF Check
      <3>2. At(w)' = "readd"
        BY <1>1, <1>3, <3>1, GotoFacts DEF At, Pc
      <3>3. QED
        BY <3>1, <3>2 DEF Check
    <2>2. CASE ~ attached[Job(w)]
      <3>1. event' = [event EXCEPT ![Job(w)] = "none"] /\ Goto(w, "idle")
        BY <2>2 DEF Check
      <3>2. At(w)' = "idle"
        BY <1>1, <1>3, <3>1, GotoFacts, IdleFacts DEF At, Pc
      <3>3. \A x \in Endpoint : event'[x] = IF x = Job(w) THEN "none" ELSE event[x]
        BY <1>1, <3>1 DEF TypeOK
      <3>4. QED
        BY <3>2, <3>3 DEF Check
    <2>3. QED
      BY <2>1, <2>2
  <1>5. UNCHANGED <<os, stage, sent, wire, ended, fd, connected, attached, area, eof,
                   calls, announced, past>>
    BY DEF Check, socketVars, peerVars, streamVars, history
  <1>6. TypeOK'
    <2>1. event' \in [Endpoint -> EventPlace]
      BY <1>1, <1>2, <1>3, <1>4, SetFacts, BoundAssumption DEF Check, TypeOK, Bounded, IInv,
         ThreadsAgree, UserAgrees, WorkerAgrees, At, On, Job, Ret, Stage, EventPlace,
         Mishap, HandlerPc, ClosePc
    <2>2. QED
      BY <1>1, <1>3, <1>5, <2>1 DEF TypeOK
  <1>7. ThreadsAgree'
    BY <1>1, <1>3, <1>4, <1>5, SetFacts DEF IInv, ThreadsTyped, ThreadsAgree,
       EarlyUntouched, InHandler, MayLock, Works, UserAgrees, WorkerAgrees, Early,
       HandlerPc, ClosePc
  <1>8. HandlersSerialised'
    BY <1>1, <1>3, <1>4, <1>5, SetFacts DEF IInv, ThreadsTyped, HandlersSerialised,
       ThreadsAgree, InHandler, MayLock, UserAgrees, WorkerAgrees, HandlerPc, ClosePc
  <1>9. InOneTask'
    BY <1>1, <1>3, <1>4, <1>5, SetFacts DEF IInv, ThreadsTyped, InOneTask, ThreadsAgree,
       OpenedAlone, InHandler, MayLock, Registers, UserAgrees, WorkerAgrees, HandlerPc,
       ClosePc
  <1>10. EarlyUntouched'
    BY <1>1, <1>3, <1>4, <1>5, SetFacts DEF IInv, ThreadsTyped, EarlyUntouched,
       ThreadsAgree, HandlersSerialised, OpenedAlone, InHandler, MayLock, Works, Registers,
       UserAgrees, WorkerAgrees, Early, HandlerPc, ClosePc
  <1>11. OpenedAlone'
    BY <1>1, <1>3, <1>4, <1>5, SetFacts DEF IInv, ThreadsTyped, OpenedAlone, ThreadsAgree,
       HandlersSerialised, EarlyUntouched, InOneTask, DestroyedAlone, InHandler, MayLock,
       Works, Registers, Drops, UserAgrees, WorkerAgrees, Early, HandlerPc, ClosePc
  <1>12. DestroyedAlone'
    BY <1>1, <1>3, <1>4, <1>5, SetFacts DEF IInv, ThreadsTyped, DestroyedAlone,
       ThreadsAgree, EarlyUntouched, OpenedAlone, InHandler, MayLock, Works, Registers,
       Drops, UserAgrees, WorkerAgrees, Early, HandlerPc, ClosePc
  <1>13. NumbersKept'
    BY <1>1, <1>3, <1>4, <1>5, SetFacts DEF IInv, ValuesTyped, ThreadsTyped, NumbersKept,
       ThreadsAgree, EarlyUntouched, DestroyedAlone, ClosersAgree, InHandler, MayLock,
       Works, Drops, UserAgrees, WorkerAgrees, Early, HandlerPc, ClosePc
  <1>14. ClosersAgree'
    BY <1>1, <1>3, <1>4, <1>5, SetFacts DEF IInv, ThreadsTyped, ClosersAgree, ThreadsAgree,
       EarlyUntouched, DestroyedAlone, InHandler, MayLock, Works, Drops, UserAgrees,
       WorkerAgrees, Early, HandlerPc, ClosePc
  <1>15. OwnersAgree'
    BY <1>1, <1>3, <1>4, <1>5, SetFacts DEF IInv, ValuesTyped, ThreadsTyped, OwnersAgree,
       ThreadsAgree, EarlyUntouched, NumbersKept, ClosersAgree, Owner, InHandler, MayLock,
       Works, UserAgrees, WorkerAgrees, Early, HandlerPc, ClosePc
  <1>16. OneEnds'
    BY <1>1, <1>3, <1>4, <1>5, SetFacts DEF IInv, ThreadsTyped, OneEnds, ThreadsAgree,
       InHandler, MayLock, Ends, UserAgrees, WorkerAgrees, HandlerPc, ClosePc
  <1>17. EndsAnnounced'
    BY <1>1, <1>3, <1>4, <1>5, SetFacts DEF IInv, ValuesTyped, ThreadsTyped, EndsAnnounced,
       ThreadsAgree, EarlyUntouched, OneEnds, ClosersAgree, InHandler, MayLock, Works, Ends,
       UserAgrees, WorkerAgrees, Early, HandlerPc, ClosePc
  <1>18. DestroyedCloses'
    BY <1>1, <1>3, <1>4, <1>5, SetFacts DEF IInv, ThreadsTyped, DestroyedCloses,
       ThreadsAgree, EarlyUntouched, ClosersAgree, InHandler, MayLock, Works, Closes,
       UserAgrees, WorkerAgrees, Early, HandlerPc, ClosePc
  <1>19. StreamsGood'
    BY <1>1, <1>3, <1>4, <1>5, SetFacts DEF IInv, ThreadsTyped, StreamsGood, ThreadsAgree,
       HandlersSerialised, EarlyUntouched, InHandler, MayLock, Works, UserAgrees,
       WorkerAgrees, Early, Blamed, HandlerPc, ClosePc
  <1>20. ReadinessKept'
    BY <1>1, <1>3, <1>4, <1>5, SetFacts DEF IInv, ValuesTyped, ThreadsTyped, ReadinessKept,
       ThreadsAgree, InOneTask, EarlyUntouched, OwnersAgree, ClosersAgree, Owner, InHandler,
       MayLock, Works, UserAgrees, WorkerAgrees, Early, Blamed, HandlerPc, ClosePc
  <1>21. Bounded' /\ NoneCut'
    BY <1>3, <1>5, SetFacts DEF IInv, Bounded, NoneCut, Blamed
  <1>22. SeenTo'
    <2>1. At(w)' = "idle" => ~ attached[Job(w)]
      <3>1. SUFFICES ASSUME attached[Job(w)] PROVE At(w)' = "readd"
        OBVIOUS
      <3>2. Goto(w, "readd")
        BY <3>1 DEF Check
      <3>3. QED
        BY <1>1, <1>3, <3>2, GotoFacts DEF At, Pc
    <2>2. \A e \in Endpoint :
             /\ Watched(e) => Watched(e)'
             /\ Opens(e) => Opens(e)'
             /\ Closing(e) => Closing(e)'
             /\ Accepts(e) => Accepts(e)'
             /\ Releases(e) => Releases(e)'
      BY <1>1, <1>2, <1>3, <1>4, <1>5, <2>1, SetFacts DEF IInv, ThreadsTyped, ValuesTyped, SeenTo,
         Watched, Opens, Closing, Held, Accepts, Releases, Registers, Closes, ThreadsAgree,
         UserAgrees, WorkerAgrees, HandlerPc, ClosePc
    <2>3. QED
      BY <1>5, <2>2 DEF IInv, SeenTo, Held
  <1>23. QED
    BY <1>6, <1>7, <1>8, <1>9, <1>10, <1>11, <1>12, <1>13, <1>14, <1>15, <1>16, <1>17,
       <1>18, <1>19, <1>20, <1>21, <1>22 DEF IInv

LEMMA ReAddInv ==
    ASSUME IInv, NEW w \in Worker, ReAdd(w)
    PROVE  IInv'
  <1>1. TypeOK
    BY DEF IInv
  <1>2. ThreadsAgree
    BY DEF IInv
  <1>3. /\ w \in Actor
        /\ thread' \in [Actor -> Thread]
        /\ ThreadsTyped /\ ValuesTyped
        /\ \A b \in Actor : b # w => At(b)' = At(b) /\ On(b)' = On(b)
              /\ Job(b)' = Job(b) /\ Ret(b)' = Ret(b)
        /\ At(w)' = "idle"
        /\ On(w)' = Free
        /\ Job(w)' = Free
        /\ Ret(w)' = "idle"
    BY <1>1, <1>2, SetFacts, IdleFacts, GotoFacts, CloseFacts, TypedFacts DEF ReAdd, TypeOK,
       ThreadsAgree, UserAgrees, WorkerAgrees, At, On, Job, Ret, Thread, Pc, HandlerPc,
       ClosePc, Endpoint
  <1>4. /\ At(w) = "readd"
        /\ \A x \in Endpoint : event'[x] = IF x = Job(w) THEN "listed" ELSE event[x]
    BY <1>1, <1>2, <1>3, SetFacts DEF ReAdd, TypeOK, ThreadsAgree, UserAgrees, WorkerAgrees,
       At, On, Job, Ret, ClosePc, HandlerPc
  <1>5. UNCHANGED <<os, stage, sent, wire, ended, fd, connected, attached, area, eof,
                   calls, announced, past>>
    BY DEF ReAdd, socketVars, peerVars, streamVars, history
  <1>6. TypeOK'
    <2>1. event' \in [Endpoint -> EventPlace]
      BY <1>1, <1>2, <1>3, <1>4, SetFacts, BoundAssumption DEF ReAdd, TypeOK, Bounded, IInv,
         ThreadsAgree, UserAgrees, WorkerAgrees, At, On, Job, Ret, Stage, EventPlace,
         Mishap, HandlerPc, ClosePc
    <2>2. QED
      BY <1>1, <1>3, <1>5, <2>1 DEF TypeOK
  <1>7. ThreadsAgree'
    BY <1>1, <1>3, <1>4, <1>5, SetFacts DEF IInv, ThreadsTyped, ThreadsAgree,
       EarlyUntouched, Works, UserAgrees, WorkerAgrees, Early, HandlerPc, ClosePc
  <1>8. HandlersSerialised'
    BY <1>1, <1>3, <1>4, <1>5, SetFacts DEF IInv, ThreadsTyped, HandlersSerialised,
       ThreadsAgree, InHandler, UserAgrees, WorkerAgrees, HandlerPc, ClosePc
  <1>9. InOneTask'
    BY <1>1, <1>3, <1>4, <1>5, SetFacts DEF IInv, ThreadsTyped, InOneTask, ThreadsAgree,
       OpenedAlone, Registers, UserAgrees, WorkerAgrees, HandlerPc, ClosePc
  <1>10. EarlyUntouched'
    <2>1. Job(w) \in Endpoint /\ event[Job(w)] = "task"
      BY <1>2, <1>3, <1>4, SetFacts DEF IInv, InOneTask, ThreadsAgree, WorkerAgrees,
         ThreadsTyped
    <2>2. \A c \in Conn : stage[c] \in Early => c # Job(w)
      BY <2>1 DEF IInv, EarlyUntouched
    <2>3. QED
      BY <1>3, <1>4, <1>5, <2>1, <2>2, SetFacts DEF IInv, EarlyUntouched, Works, Early,
         HandlerPc, ClosePc
  <1>11. OpenedAlone'
    BY <1>1, <1>3, <1>4, <1>5, SetFacts DEF IInv, ThreadsTyped, OpenedAlone, ThreadsAgree,
       HandlersSerialised, EarlyUntouched, InOneTask, DestroyedAlone, InHandler, Works,
       Registers, Drops, UserAgrees, WorkerAgrees, Early, HandlerPc, ClosePc
  <1>12. DestroyedAlone'
    BY <1>1, <1>3, <1>4, <1>5, SetFacts DEF IInv, ThreadsTyped, DestroyedAlone,
       ThreadsAgree, EarlyUntouched, OpenedAlone, Works, Registers, Drops, UserAgrees,
       WorkerAgrees, Early, HandlerPc, ClosePc
  <1>13. NumbersKept'
    BY <1>1, <1>3, <1>4, <1>5, SetFacts DEF IInv, ValuesTyped, ThreadsTyped, NumbersKept,
       ThreadsAgree, EarlyUntouched, DestroyedAlone, ClosersAgree, Works, Drops, UserAgrees,
       WorkerAgrees, Early, HandlerPc, ClosePc
  <1>14. ClosersAgree'
    BY <1>1, <1>3, <1>4, <1>5, SetFacts DEF IInv, ThreadsTyped, ClosersAgree, ThreadsAgree,
       EarlyUntouched, DestroyedAlone, Works, Drops, UserAgrees, WorkerAgrees, Early,
       HandlerPc, ClosePc
  <1>15. OwnersAgree'
    BY <1>1, <1>3, <1>4, <1>5, SetFacts DEF IInv, ValuesTyped, ThreadsTyped, OwnersAgree,
       ThreadsAgree, EarlyUntouched, NumbersKept, ClosersAgree, Owner, Works, UserAgrees,
       WorkerAgrees, Early, HandlerPc, ClosePc
  <1>16. OneEnds'
    BY <1>1, <1>3, <1>4, <1>5, SetFacts DEF IInv, ThreadsTyped, OneEnds, ThreadsAgree, Ends,
       UserAgrees, WorkerAgrees, HandlerPc, ClosePc
  <1>17. EndsAnnounced'
    BY <1>1, <1>3, <1>4, <1>5, SetFacts DEF IInv, ValuesTyped, ThreadsTyped, EndsAnnounced,
       ThreadsAgree, EarlyUntouched, OneEnds, ClosersAgree, Works, Ends, UserAgrees,
       WorkerAgrees, Early, HandlerPc, ClosePc
  <1>18. DestroyedCloses'
    BY <1>1, <1>3, <1>4, <1>5, SetFacts DEF IInv, ThreadsTyped, DestroyedCloses,
       ThreadsAgree, EarlyUntouched, ClosersAgree, Works, Closes, UserAgrees, WorkerAgrees,
       Early, HandlerPc, ClosePc
  <1>19. StreamsGood'
    BY <1>1, <1>3, <1>4, <1>5, SetFacts DEF IInv, ThreadsTyped, StreamsGood, ThreadsAgree,
       HandlersSerialised, EarlyUntouched, InHandler, Works, UserAgrees, WorkerAgrees,
       Early, Blamed, HandlerPc, ClosePc
  <1>20. ReadinessKept'
    BY <1>1, <1>3, <1>4, <1>5, SetFacts DEF IInv, ValuesTyped, ThreadsTyped, ReadinessKept,
       ThreadsAgree, InOneTask, EarlyUntouched, OwnersAgree, ClosersAgree, Owner, Works,
       UserAgrees, WorkerAgrees, Early, Blamed, HandlerPc, ClosePc
  <1>21. Bounded' /\ NoneCut'
    BY <1>3, <1>5, SetFacts DEF IInv, Bounded, NoneCut, Blamed
  <1>22. SeenTo'
    BY <1>1, <1>2, <1>3, <1>4, <1>5, SetFacts DEF IInv, ThreadsTyped, ValuesTyped, SeenTo,
       Watched, Opens, Closing, Held, Accepts, Releases, Registers, Closes, ThreadsAgree,
       UserAgrees, WorkerAgrees, HandlerPc, ClosePc
  <1>23. QED
    BY <1>6, <1>7, <1>8, <1>9, <1>10, <1>11, <1>12, <1>13, <1>14, <1>15, <1>16, <1>17,
       <1>18, <1>19, <1>20, <1>21, <1>22 DEF IInv

LEMMA AcceptInv ==
    ASSUME IInv, NEW w \in Worker, NEW c \in Conn, Accept(w, c)
    PROVE  IInv'
  <1>1. TypeOK
    BY DEF IInv
  <1>2. ThreadsAgree
    BY DEF IInv
  <1>3. /\ w \in Actor
        /\ thread' \in [Actor -> Thread]
        /\ ThreadsTyped /\ ValuesTyped
        /\ \A b \in Actor : b # w => At(b)' = At(b) /\ On(b)' = On(b)
              /\ Job(b)' = Job(b) /\ Ret(b)' = Ret(b)
        /\ At(w)' = "accepted"
        /\ On(w)' = c
        /\ Job(w)' = Job(w)
        /\ Ret(w)' = Ret(w)
    <2>1. /\ w \in Actor /\ ThreadsTyped /\ ValuesTyped
          /\ thread \in [Actor -> Thread] /\ Idle \in Thread
      BY <1>1, SetFacts, IdleFacts, TypedFacts DEF TypeOK
    <2>2. thread[w] \in Thread
      BY <2>1
    <2>3. thread' = [thread EXCEPT ![w] = thread'[w]]
      BY <2>1, <2>2 DEF Accept
    <2>4. /\ thread'[w].pc = "accepted"
          /\ thread'[w].on = c
          /\ thread'[w].job = thread[w].job
          /\ thread'[w].ret = thread[w].ret
      BY <2>1, <2>2, IdleFacts DEF Accept, Idle, Thread, Job, At
    <2>5. thread'[w] \in Thread
      BY <1>1, <1>2, <2>1, <2>2, IdleFacts, SetFacts DEF Accept, Thread, Pc, ClosePc,
         HandlerPc, Idle, Job, At, ThreadsAgree, WorkerAgrees, Endpoint
    <2>6. \A b \in Actor : b # w => thread'[b] = thread[b]
      BY <2>1, <2>3
    <2>7. thread' \in [Actor -> Thread]
      BY <2>1, <2>3, <2>5
    <2>8. At(w) \in Pc /\ Job(w) \in Endpoint \union {Free}
      BY <2>1 DEF ThreadsTyped
    <2>9. QED
      BY <1>2, <2>1, <2>4, <2>6, <2>7, IdleFacts, SetFacts DEF Accept, At, On, Job, Ret
  <1>4. /\ At(w) = "accept"
        /\ stage[c] = "backlog"
        /\ \A x \in Endpoint : stage'[x] = IF x = c THEN "pending" ELSE stage[x]
        /\ \E n \in Fd : /\ os[n] = Free
                         /\ \A m \in Fd : os'[m] = IF m = n THEN c ELSE os[m]
                         /\ \A x \in Endpoint : fd'[x] = IF x = c THEN n ELSE fd[x]
    BY <1>1, <1>2, <1>3, SetFacts DEF Accept, TypeOK, ThreadsAgree, UserAgrees,
       WorkerAgrees, At, On, Job, Ret, FreeFds, ClosePc, HandlerPc
  <1>5. UNCHANGED <<sent, wire, ended, connected, attached, event, area, eof, calls,
                   announced, past>>
    BY DEF Accept, peerVars, streamVars, loopVars, history
  <1>6. TypeOK'
    <2>1. os' \in [Fd -> Endpoint \union {Free}]
      BY <1>1, <1>2, <1>3, <1>4, SetFacts, BoundAssumption DEF Accept, TypeOK, Bounded,
         IInv, ThreadsAgree, UserAgrees, WorkerAgrees, At, On, Job, Ret, Owner, Stage,
         EventPlace, Mishap, HandlerPc, ClosePc, FreeFds
    <2>2. fd' \in [Endpoint -> Fd \union {Free}]
      BY <1>1, <1>2, <1>3, <1>4, SetFacts, BoundAssumption DEF Accept, TypeOK, Bounded,
         IInv, ThreadsAgree, UserAgrees, WorkerAgrees, At, On, Job, Ret, Owner, Stage,
         EventPlace, Mishap, HandlerPc, ClosePc, FreeFds
    <2>3. stage' \in [Endpoint -> Stage]
      BY <1>1, <1>2, <1>3, <1>4, SetFacts, BoundAssumption DEF Accept, TypeOK, Bounded,
         IInv, ThreadsAgree, UserAgrees, WorkerAgrees, At, On, Job, Ret, Owner, Stage,
         EventPlace, Mishap, HandlerPc, ClosePc, FreeFds
    <2>4. QED
      BY <1>1, <1>3, <1>5, <2>1, <2>2, <2>3 DEF TypeOK
  <1>7. ThreadsAgree'
    BY <1>1, <1>3, <1>4, <1>5, SetFacts DEF IInv, ThreadsTyped, ThreadsAgree,
       EarlyUntouched, Works, UserAgrees, WorkerAgrees, Early, HandlerPc, ClosePc
  <1>8. HandlersSerialised'
    BY <1>1, <1>3, <1>4, <1>5, SetFacts DEF IInv, ThreadsTyped, HandlersSerialised,
       ThreadsAgree, InHandler, UserAgrees, WorkerAgrees, HandlerPc, ClosePc
  <1>9. InOneTask'
    BY <1>1, <1>3, <1>4, <1>5, SetFacts DEF IInv, ThreadsTyped, InOneTask, ThreadsAgree,
       OpenedAlone, Registers, UserAgrees, WorkerAgrees, HandlerPc, ClosePc
  <1>10. EarlyUntouched'
    BY <1>1, <1>3, <1>4, <1>5, SetFacts DEF IInv, ThreadsTyped, EarlyUntouched,
       ThreadsAgree, HandlersSerialised, OpenedAlone, InHandler, Works, Registers,
       UserAgrees, WorkerAgrees, Early, HandlerPc, ClosePc
  <1>11. OpenedAlone'
    BY <1>1, <1>3, <1>4, <1>5, SetFacts DEF IInv, ThreadsTyped, OpenedAlone, ThreadsAgree,
       HandlersSerialised, EarlyUntouched, InOneTask, DestroyedAlone, InHandler, Works,
       Registers, Drops, UserAgrees, WorkerAgrees, Early, HandlerPc, ClosePc
  <1>12. DestroyedAlone'
    BY <1>1, <1>3, <1>4, <1>5, SetFacts DEF IInv, ThreadsTyped, DestroyedAlone,
       ThreadsAgree, EarlyUntouched, OpenedAlone, Works, Registers, Drops, UserAgrees,
       WorkerAgrees, Early, HandlerPc, ClosePc
  <1>13. NumbersKept'
    BY <1>1, <1>3, <1>4, <1>5, SetFacts DEF IInv, ValuesTyped, ThreadsTyped, NumbersKept,
       ThreadsAgree, EarlyUntouched, DestroyedAlone, ClosersAgree, Works, Drops, UserAgrees,
       WorkerAgrees, Early, HandlerPc, ClosePc
  <1>14. ClosersAgree'
    BY <1>1, <1>3, <1>4, <1>5, SetFacts DEF IInv, ThreadsTyped, ClosersAgree, ThreadsAgree,
       EarlyUntouched, DestroyedAlone, Works, Drops, UserAgrees, WorkerAgrees, Early,
       HandlerPc, ClosePc
  <1>15. OwnersAgree'
    BY <1>1, <1>3, <1>4, <1>5, SetFacts DEF IInv, ValuesTyped, ThreadsTyped, OwnersAgree,
       ThreadsAgree, EarlyUntouched, NumbersKept, ClosersAgree, Owner, Works, UserAgrees,
       WorkerAgrees, Early, HandlerPc, ClosePc
  <1>16. OneEnds'
    BY <1>1, <1>3, <1>4, <1>5, SetFacts DEF IInv, ThreadsTyped, OneEnds, ThreadsAgree, Ends,
       UserAgrees, WorkerAgrees, HandlerPc, ClosePc
  <1>17. EndsAnnounced'
    BY <1>1, <1>3, <1>4, <1>5, SetFacts DEF IInv, ValuesTyped, ThreadsTyped, EndsAnnounced,
       ThreadsAgree, EarlyUntouched, OneEnds, ClosersAgree, Works, Ends, UserAgrees,
       WorkerAgrees, Early, HandlerPc, ClosePc
  <1>18. DestroyedCloses'
    BY <1>1, <1>3, <1>4, <1>5, SetFacts DEF IInv, ThreadsTyped, DestroyedCloses,
       ThreadsAgree, EarlyUntouched, ClosersAgree, Works, Closes, UserAgrees, WorkerAgrees,
       Early, HandlerPc, ClosePc
  <1>19. StreamsGood'
    BY <1>1, <1>3, <1>4, <1>5, SetFacts DEF IInv, ThreadsTyped, StreamsGood, ThreadsAgree,
       HandlersSerialised, EarlyUntouched, InHandler, Works, UserAgrees, WorkerAgrees,
       Early, Blamed, HandlerPc, ClosePc
  <1>20. ReadinessKept'
    BY <1>1, <1>3, <1>4, <1>5, SetFacts DEF IInv, ValuesTyped, ThreadsTyped, ReadinessKept,
       ThreadsAgree, InOneTask, EarlyUntouched, OwnersAgree, ClosersAgree, Owner, Works,
       UserAgrees, WorkerAgrees, Early, Blamed, HandlerPc, ClosePc
  <1>21. Bounded' /\ NoneCut'
    BY <1>3, <1>5, SetFacts DEF IInv, Bounded, NoneCut, Blamed
  <1>22. SeenTo'
    BY <1>1, <1>2, <1>3, <1>4, <1>5, SetFacts DEF IInv, ThreadsTyped, ValuesTyped, SeenTo,
       Watched, Opens, Closing, Held, Accepts, Releases, Registers, Closes, ThreadsAgree,
       UserAgrees, WorkerAgrees, HandlerPc, ClosePc
  <1>23. QED
    BY <1>6, <1>7, <1>8, <1>9, <1>10, <1>11, <1>12, <1>13, <1>14, <1>15, <1>16, <1>17,
       <1>18, <1>19, <1>20, <1>21, <1>22 DEF IInv

LEMMA AcceptFailsInv ==
    ASSUME IInv, NEW w \in Worker, AcceptFails(w)
    PROVE  IInv'
  <1>1. TypeOK
    BY DEF IInv
  <1>2. ThreadsAgree
    BY DEF IInv
  <1>3. /\ w \in Actor
        /\ thread' \in [Actor -> Thread]
        /\ ThreadsTyped /\ ValuesTyped
        /\ \A b \in Actor : b # w => At(b)' = At(b) /\ On(b)' = On(b)
              /\ Job(b)' = Job(b) /\ Ret(b)' = Ret(b)
        /\ At(w)' = "idle"
        /\ On(w)' = Free
        /\ Job(w)' = Free
        /\ Ret(w)' = "idle"
    BY <1>1, <1>2, SetFacts, IdleFacts, GotoFacts, CloseFacts, TypedFacts DEF AcceptFails,
       TypeOK, ThreadsAgree, UserAgrees, WorkerAgrees, At, On, Job, Ret, Thread, Pc,
       HandlerPc, ClosePc, Endpoint
  <1>4. /\ At(w) = "accept"
        /\ \A x \in Endpoint : event'[x] = IF x = Acceptor THEN "none" ELSE event[x]
        /\ past' = past \union {"refused"}
        /\ \/ stage' = stage /\ wire' = wire /\ ended' = ended
           \/ \E c \in Conn : /\ stage[c] = "backlog"
                              /\ \A x \in Endpoint : stage'[x] = IF x = c THEN "absent" ELSE stage[x]
                              /\ \A x \in Conn : wire'[x] = IF x = c THEN 0 ELSE wire[x]
                              /\ \A x \in Conn : ended'[x] <=> (x # c /\ ended[x])
    BY <1>1, <1>2, <1>3, SetFacts DEF AcceptFails, TypeOK, ThreadsAgree, UserAgrees,
       WorkerAgrees, At, On, Job, Ret, ClosePc, HandlerPc
  <1>5. UNCHANGED <<os, sent, fd, connected, attached, area, eof, calls, announced>>
    BY DEF AcceptFails, streamVars
  <1>6. TypeOK'
    <2>1. event' \in [Endpoint -> EventPlace]
      BY <1>1, <1>2, <1>3, <1>4, SetFacts, BoundAssumption DEF AcceptFails, TypeOK, Bounded,
         IInv, ThreadsAgree, UserAgrees, WorkerAgrees, At, On, Job, Ret, Stage, EventPlace,
         Mishap, HandlerPc, ClosePc
    <2>2. past' \subseteq Mishap
      BY <1>1, <1>2, <1>3, <1>4, SetFacts, BoundAssumption DEF AcceptFails, TypeOK, Bounded,
         IInv, ThreadsAgree, UserAgrees, WorkerAgrees, At, On, Job, Ret, Stage, EventPlace,
         Mishap, HandlerPc, ClosePc
    <2>3. stage' \in [Endpoint -> Stage]
      BY <1>1, <1>2, <1>3, <1>4, SetFacts, BoundAssumption DEF AcceptFails, TypeOK, Bounded,
         IInv, ThreadsAgree, UserAgrees, WorkerAgrees, At, On, Job, Ret, Stage, EventPlace,
         Mishap, HandlerPc, ClosePc
    <2>4. wire' \in [Conn -> 0..MaxData]
      BY <1>1, <1>2, <1>3, <1>4, SetFacts, BoundAssumption DEF AcceptFails, TypeOK, Bounded,
         IInv, ThreadsAgree, UserAgrees, WorkerAgrees, At, On, Job, Ret, Stage, EventPlace,
         Mishap, HandlerPc, ClosePc
    <2>5. ended' \in [Conn -> BOOLEAN]
      BY <1>1 DEF AcceptFails, TypeOK
    <2>6. QED
      BY <1>1, <1>3, <1>5, <2>1, <2>2, <2>3, <2>4, <2>5 DEF TypeOK
  <1>7. Bounded'
    BY <1>1, <1>3, <1>4, <1>5, SetFacts DEF IInv, ValuesTyped, ThreadsTyped, Bounded
  <1>8. ThreadsAgree'
    BY <1>1, <1>3, <1>4, <1>5, SetFacts DEF IInv, ThreadsTyped, ThreadsAgree,
       EarlyUntouched, Works, UserAgrees, WorkerAgrees, Early, HandlerPc, ClosePc
  <1>9. HandlersSerialised'
    BY <1>1, <1>3, <1>4, <1>5, SetFacts DEF IInv, ThreadsTyped, HandlersSerialised,
       ThreadsAgree, InHandler, UserAgrees, WorkerAgrees, HandlerPc, ClosePc
  <1>10. InOneTask'
    BY <1>1, <1>3, <1>4, <1>5, SetFacts DEF IInv, ThreadsTyped, InOneTask, ThreadsAgree,
       OpenedAlone, Registers, UserAgrees, WorkerAgrees, HandlerPc, ClosePc
  <1>11. EarlyUntouched'
    BY <1>1, <1>3, <1>4, <1>5, SetFacts DEF IInv, ThreadsTyped, EarlyUntouched,
       ThreadsAgree, HandlersSerialised, OpenedAlone, InHandler, Works, Registers,
       UserAgrees, WorkerAgrees, Early, HandlerPc, ClosePc
  <1>12. OpenedAlone'
    BY <1>1, <1>3, <1>4, <1>5, SetFacts DEF IInv, ThreadsTyped, OpenedAlone, ThreadsAgree,
       HandlersSerialised, EarlyUntouched, InOneTask, DestroyedAlone, InHandler, Works,
       Registers, Drops, UserAgrees, WorkerAgrees, Early, HandlerPc, ClosePc
  <1>13. DestroyedAlone'
    BY <1>1, <1>3, <1>4, <1>5, SetFacts DEF IInv, ThreadsTyped, DestroyedAlone,
       ThreadsAgree, EarlyUntouched, OpenedAlone, Works, Registers, Drops, UserAgrees,
       WorkerAgrees, Early, HandlerPc, ClosePc
  <1>14. NumbersKept'
    BY <1>1, <1>3, <1>4, <1>5, SetFacts DEF IInv, ValuesTyped, ThreadsTyped, NumbersKept,
       ThreadsAgree, EarlyUntouched, DestroyedAlone, ClosersAgree, Works, Drops, UserAgrees,
       WorkerAgrees, Early, HandlerPc, ClosePc
  <1>15. ClosersAgree'
    BY <1>1, <1>3, <1>4, <1>5, SetFacts DEF IInv, ThreadsTyped, ClosersAgree, ThreadsAgree,
       EarlyUntouched, DestroyedAlone, Works, Drops, UserAgrees, WorkerAgrees, Early,
       HandlerPc, ClosePc
  <1>16. OwnersAgree'
    BY <1>1, <1>3, <1>4, <1>5, SetFacts DEF IInv, ValuesTyped, ThreadsTyped, OwnersAgree,
       ThreadsAgree, EarlyUntouched, NumbersKept, ClosersAgree, Owner, Works, UserAgrees,
       WorkerAgrees, Early, HandlerPc, ClosePc
  <1>17. OneEnds'
    BY <1>1, <1>3, <1>4, <1>5, SetFacts DEF IInv, ThreadsTyped, OneEnds, ThreadsAgree, Ends,
       UserAgrees, WorkerAgrees, HandlerPc, ClosePc
  <1>18. EndsAnnounced'
    BY <1>1, <1>3, <1>4, <1>5, SetFacts DEF IInv, ValuesTyped, ThreadsTyped, EndsAnnounced,
       ThreadsAgree, EarlyUntouched, OneEnds, ClosersAgree, Works, Ends, UserAgrees,
       WorkerAgrees, Early, HandlerPc, ClosePc
  <1>19. DestroyedCloses'
    BY <1>1, <1>3, <1>4, <1>5, SetFacts DEF IInv, ThreadsTyped, DestroyedCloses,
       ThreadsAgree, EarlyUntouched, ClosersAgree, Works, Closes, UserAgrees, WorkerAgrees,
       Early, HandlerPc, ClosePc
  <1>20. StreamsGood'
    BY <1>1, <1>3, <1>4, <1>5, SetFacts DEF IInv, ThreadsTyped, StreamsGood, ThreadsAgree,
       HandlersSerialised, EarlyUntouched, InHandler, Works, UserAgrees, WorkerAgrees,
       Early, Blamed, HandlerPc, ClosePc
  <1>21. ReadinessKept'
    BY <1>1, <1>3, <1>4, <1>5, SetFacts DEF IInv, ValuesTyped, ThreadsTyped, ReadinessKept,
       ThreadsAgree, InOneTask, EarlyUntouched, OwnersAgree, ClosersAgree, Owner, Works,
       UserAgrees, WorkerAgrees, Early, Blamed, HandlerPc, ClosePc
  <1>22. NoneCut'
    BY <1>1, <1>3, <1>4, <1>5, SetFacts DEF IInv, ValuesTyped, ThreadsTyped, NoneCut,
       ThreadsAgree, StreamsGood, ReadinessKept, OwnersAgree, Owner, UserAgrees,
       WorkerAgrees, Blamed, HandlerPc, ClosePc
  <1>23. SeenTo'
    BY <1>1, <1>2, <1>3, <1>4, <1>5, SetFacts DEF IInv, ThreadsTyped, ValuesTyped, SeenTo,
       Watched, Opens, Closing, Held, Accepts, Releases, Registers, Closes, ThreadsAgree,
       UserAgrees, WorkerAgrees, HandlerPc, ClosePc
  <1>24. QED
    BY <1>6, <1>7, <1>8, <1>9, <1>10, <1>11, <1>12, <1>13, <1>14, <1>15, <1>16, <1>17,
       <1>18, <1>19, <1>20, <1>21, <1>22, <1>23 DEF IInv

LEMMA OpenInv ==
    ASSUME IInv, NEW w \in Worker, Open(w)
    PROVE  IInv'
  <1>1. TypeOK
    BY DEF IInv
  <1>2. ThreadsAgree
    BY DEF IInv
  <1>3. /\ w \in Actor
        /\ thread' \in [Actor -> Thread]
        /\ ThreadsTyped /\ ValuesTyped
        /\ \A b \in Actor : b # w => At(b)' = At(b) /\ On(b)' = On(b)
              /\ Job(b)' = Job(b) /\ Ret(b)' = Ret(b)
        /\ On(w)' = On(w)
        /\ Job(w)' = Job(w)
        /\ \/ At(w)' = "register" /\ Ret(w)' = Ret(w)
           \/ At(w)' = "close" /\ Ret(w)' = "register"
    BY <1>1, <1>2, SetFacts, IdleFacts, GotoFacts, CloseFacts, TypedFacts DEF Open, TypeOK,
       ThreadsAgree, UserAgrees, WorkerAgrees, At, On, Job, Ret, Thread, Pc, HandlerPc,
       ClosePc, Endpoint
  <1>4. /\ At(w) = "accepted"
        /\ \A x \in Endpoint : stage'[x] = IF x = On(w) THEN "open" ELSE stage[x]
        /\ \A x \in Endpoint : connected'[x] <=> x = On(w) \/ connected[x]
    BY <1>1, <1>2, <1>3, SetFacts DEF Open, TypeOK, ThreadsAgree, UserAgrees, WorkerAgrees,
       At, On, Job, Ret, ClosePc, HandlerPc
  <1>5. UNCHANGED <<os, sent, wire, ended, fd, attached, event, area, eof, calls,
                   announced, past>>
    BY DEF Open, peerVars, streamVars, loopVars, history
  <1>6. TypeOK'
    <2>1. stage' \in [Endpoint -> Stage]
      BY <1>1, <1>2, <1>3, <1>4, SetFacts, BoundAssumption DEF Open, TypeOK, Bounded, IInv,
         ThreadsAgree, UserAgrees, WorkerAgrees, At, On, Job, Ret, Stage, EventPlace,
         Mishap, HandlerPc, ClosePc
    <2>2. connected' \in [Endpoint -> BOOLEAN]
      BY <1>1, <1>2, <1>3, <1>4, SetFacts, BoundAssumption DEF Open, TypeOK, Bounded, IInv,
         ThreadsAgree, UserAgrees, WorkerAgrees, At, On, Job, Ret, Stage, EventPlace,
         Mishap, HandlerPc, ClosePc
    <2>3. QED
      BY <1>1, <1>3, <1>5, <2>1, <2>2 DEF TypeOK
  <1>7. ThreadsAgree'
    BY <1>1, <1>3, <1>4, <1>5, SetFacts DEF IInv, ThreadsTyped, ThreadsAgree,
       EarlyUntouched, Works, UserAgrees, WorkerAgrees, Early, HandlerPc, ClosePc
  <1>8. HandlersSerialised'
    BY <1>1, <1>3, <1>4, <1>5, SetFacts DEF IInv, ThreadsTyped, HandlersSerialised,
       ThreadsAgree, InHandler, UserAgrees, WorkerAgrees, HandlerPc, ClosePc
  <1>9. InOneTask'
    BY <1>1, <1>3, <1>4, <1>5, SetFacts DEF IInv, ThreadsTyped, InOneTask, ThreadsAgree,
       OpenedAlone, Registers, UserAgrees, WorkerAgrees, HandlerPc, ClosePc
  <1>10. EarlyUntouched'
    BY <1>1, <1>3, <1>4, <1>5, SetFacts DEF IInv, ThreadsTyped, EarlyUntouched,
       ThreadsAgree, HandlersSerialised, OpenedAlone, InHandler, Works, Registers,
       UserAgrees, WorkerAgrees, Early, HandlerPc, ClosePc
  <1>11. OpenedAlone'
    BY <1>1, <1>3, <1>4, <1>5, SetFacts DEF IInv, ThreadsTyped, OpenedAlone, ThreadsAgree,
       HandlersSerialised, EarlyUntouched, InOneTask, DestroyedAlone, InHandler, Works,
       Registers, Drops, UserAgrees, WorkerAgrees, Early, HandlerPc, ClosePc
  <1>12. DestroyedAlone'
    BY <1>1, <1>3, <1>4, <1>5, SetFacts DEF IInv, ThreadsTyped, DestroyedAlone,
       ThreadsAgree, EarlyUntouched, OpenedAlone, Works, Registers, Drops, UserAgrees,
       WorkerAgrees, Early, HandlerPc, ClosePc
  <1>13. NumbersKept'
    BY <1>1, <1>3, <1>4, <1>5, SetFacts DEF IInv, ValuesTyped, ThreadsTyped, NumbersKept,
       ThreadsAgree, EarlyUntouched, DestroyedAlone, ClosersAgree, Works, Drops, UserAgrees,
       WorkerAgrees, Early, HandlerPc, ClosePc
  <1>14. ClosersAgree'
    BY <1>1, <1>3, <1>4, <1>5, SetFacts DEF IInv, ThreadsTyped, ClosersAgree, ThreadsAgree,
       EarlyUntouched, DestroyedAlone, Works, Drops, UserAgrees, WorkerAgrees, Early,
       HandlerPc, ClosePc
  <1>15. OwnersAgree'
    BY <1>1, <1>3, <1>4, <1>5, SetFacts DEF IInv, ValuesTyped, ThreadsTyped, OwnersAgree,
       ThreadsAgree, EarlyUntouched, NumbersKept, ClosersAgree, Owner, Works, UserAgrees,
       WorkerAgrees, Early, HandlerPc, ClosePc
  <1>16. OneEnds'
    BY <1>1, <1>3, <1>4, <1>5, SetFacts DEF IInv, ThreadsTyped, OneEnds, ThreadsAgree, Ends,
       UserAgrees, WorkerAgrees, HandlerPc, ClosePc
  <1>17. EndsAnnounced'
    BY <1>1, <1>3, <1>4, <1>5, SetFacts DEF IInv, ValuesTyped, ThreadsTyped, EndsAnnounced,
       ThreadsAgree, EarlyUntouched, OneEnds, ClosersAgree, Works, Ends, UserAgrees,
       WorkerAgrees, Early, HandlerPc, ClosePc
  <1>18. DestroyedCloses'
    BY <1>1, <1>3, <1>4, <1>5, SetFacts DEF IInv, ThreadsTyped, DestroyedCloses,
       ThreadsAgree, EarlyUntouched, ClosersAgree, Works, Closes, UserAgrees, WorkerAgrees,
       Early, HandlerPc, ClosePc
  <1>19. StreamsGood'
    BY <1>1, <1>3, <1>4, <1>5, SetFacts DEF IInv, ThreadsTyped, StreamsGood, ThreadsAgree,
       HandlersSerialised, EarlyUntouched, InHandler, Works, UserAgrees, WorkerAgrees,
       Early, Blamed, HandlerPc, ClosePc
  <1>20. ReadinessKept'
    BY <1>1, <1>3, <1>4, <1>5, SetFacts DEF IInv, ValuesTyped, ThreadsTyped, ReadinessKept,
       ThreadsAgree, InOneTask, EarlyUntouched, OwnersAgree, ClosersAgree, Owner, Works,
       UserAgrees, WorkerAgrees, Early, Blamed, HandlerPc, ClosePc
  <1>21. Bounded' /\ NoneCut'
    BY <1>3, <1>5, SetFacts DEF IInv, Bounded, NoneCut, Blamed
  <1>22. SeenTo'
    BY <1>1, <1>2, <1>3, <1>4, <1>5, SetFacts DEF IInv, ThreadsTyped, ValuesTyped, SeenTo,
       Watched, Opens, Closing, Held, Accepts, Releases, Registers, Closes, ThreadsAgree,
       UserAgrees, WorkerAgrees, HandlerPc, ClosePc
  <1>23. QED
    BY <1>6, <1>7, <1>8, <1>9, <1>10, <1>11, <1>12, <1>13, <1>14, <1>15, <1>16, <1>17,
       <1>18, <1>19, <1>20, <1>21, <1>22 DEF IInv

LEMMA RegisterInv ==
    ASSUME IInv, NEW w \in Worker, Register(w)
    PROVE  IInv'
  <1>1. TypeOK
    BY DEF IInv
  <1>2. ThreadsAgree
    BY DEF IInv
  <1>3. /\ w \in Actor
        /\ thread' \in [Actor -> Thread]
        /\ ThreadsTyped /\ ValuesTyped
        /\ \A b \in Actor : b # w => At(b)' = At(b) /\ On(b)' = On(b)
              /\ Job(b)' = Job(b) /\ Ret(b)' = Ret(b)
        /\ At(w)' = "check"
        /\ On(w)' = On(w)
        /\ Job(w)' = Job(w)
        /\ Ret(w)' = Ret(w)
    BY <1>1, <1>2, SetFacts, IdleFacts, GotoFacts, CloseFacts, TypedFacts DEF Register,
       TypeOK, ThreadsAgree, UserAgrees, WorkerAgrees, At, On, Job, Ret, Thread, Pc,
       HandlerPc, ClosePc, Endpoint
  <1>4. /\ At(w) = "register"
        /\ \A x \in Endpoint : attached'[x] <=> x = On(w) \/ attached[x]
        /\ \A x \in Endpoint : event'[x] = IF x = On(w) THEN "listed" ELSE event[x]
    BY <1>1, <1>2, <1>3, SetFacts DEF Register, TypeOK, ThreadsAgree, UserAgrees,
       WorkerAgrees, At, On, Job, Ret, ClosePc, HandlerPc
  <1>5. UNCHANGED <<os, stage, sent, wire, ended, fd, connected, area, eof, calls,
                   announced, past>>
    BY DEF Register, socketVars, peerVars, streamVars, history
  <1>6. TypeOK'
    <2>1. attached' \in [Endpoint -> BOOLEAN]
      BY <1>1, <1>2, <1>3, <1>4, SetFacts, BoundAssumption DEF Register, TypeOK, Bounded,
         IInv, ThreadsAgree, UserAgrees, WorkerAgrees, At, On, Job, Ret, Stage, EventPlace,
         Mishap, HandlerPc, ClosePc
    <2>2. event' \in [Endpoint -> EventPlace]
      BY <1>1, <1>2, <1>3, <1>4, SetFacts, BoundAssumption DEF Register, TypeOK, Bounded,
         IInv, ThreadsAgree, UserAgrees, WorkerAgrees, At, On, Job, Ret, Stage, EventPlace,
         Mishap, HandlerPc, ClosePc
    <2>3. QED
      BY <1>1, <1>3, <1>5, <2>1, <2>2 DEF TypeOK
  <1>7. ThreadsAgree'
    BY <1>1, <1>3, <1>4, <1>5, SetFacts DEF IInv, ThreadsTyped, ThreadsAgree,
       EarlyUntouched, Works, UserAgrees, WorkerAgrees, Early, HandlerPc, ClosePc
  <1>8. HandlersSerialised'
    BY <1>1, <1>3, <1>4, <1>5, SetFacts DEF IInv, ThreadsTyped, HandlersSerialised,
       ThreadsAgree, InHandler, UserAgrees, WorkerAgrees, HandlerPc, ClosePc
  <1>9. InOneTask'
    BY <1>1, <1>3, <1>4, <1>5, SetFacts DEF IInv, ThreadsTyped, InOneTask, ThreadsAgree,
       OpenedAlone, Registers, UserAgrees, WorkerAgrees, HandlerPc, ClosePc
  <1>10. EarlyUntouched'
    BY <1>1, <1>3, <1>4, <1>5, SetFacts DEF IInv, ThreadsTyped, EarlyUntouched,
       ThreadsAgree, HandlersSerialised, OpenedAlone, InHandler, Works, Registers,
       UserAgrees, WorkerAgrees, Early, HandlerPc, ClosePc
  <1>11. OpenedAlone'
    BY <1>1, <1>3, <1>4, <1>5, SetFacts DEF IInv, ThreadsTyped, OpenedAlone, ThreadsAgree,
       HandlersSerialised, EarlyUntouched, InOneTask, DestroyedAlone, InHandler, Works,
       Registers, Drops, UserAgrees, WorkerAgrees, Early, HandlerPc, ClosePc
  <1>12. DestroyedAlone'
    BY <1>1, <1>3, <1>4, <1>5, SetFacts DEF IInv, ThreadsTyped, DestroyedAlone,
       ThreadsAgree, EarlyUntouched, OpenedAlone, Works, Registers, Drops, UserAgrees,
       WorkerAgrees, Early, HandlerPc, ClosePc
  <1>13. NumbersKept'
    BY <1>1, <1>3, <1>4, <1>5, SetFacts DEF IInv, ValuesTyped, ThreadsTyped, NumbersKept,
       ThreadsAgree, EarlyUntouched, DestroyedAlone, ClosersAgree, Works, Drops, UserAgrees,
       WorkerAgrees, Early, HandlerPc, ClosePc
  <1>14. ClosersAgree'
    BY <1>1, <1>3, <1>4, <1>5, SetFacts DEF IInv, ThreadsTyped, ClosersAgree, ThreadsAgree,
       EarlyUntouched, DestroyedAlone, Works, Drops, UserAgrees, WorkerAgrees, Early,
       HandlerPc, ClosePc
  <1>15. OwnersAgree'
    BY <1>1, <1>3, <1>4, <1>5, SetFacts DEF IInv, ValuesTyped, ThreadsTyped, OwnersAgree,
       ThreadsAgree, EarlyUntouched, NumbersKept, ClosersAgree, Owner, Works, UserAgrees,
       WorkerAgrees, Early, HandlerPc, ClosePc
  <1>16. OneEnds'
    BY <1>1, <1>3, <1>4, <1>5, SetFacts DEF IInv, ThreadsTyped, OneEnds, ThreadsAgree, Ends,
       UserAgrees, WorkerAgrees, HandlerPc, ClosePc
  <1>17. EndsAnnounced'
    BY <1>1, <1>3, <1>4, <1>5, SetFacts DEF IInv, ValuesTyped, ThreadsTyped, EndsAnnounced,
       ThreadsAgree, EarlyUntouched, OneEnds, ClosersAgree, Works, Ends, UserAgrees,
       WorkerAgrees, Early, HandlerPc, ClosePc
  <1>18. DestroyedCloses'
    BY <1>1, <1>3, <1>4, <1>5, SetFacts DEF IInv, ThreadsTyped, DestroyedCloses,
       ThreadsAgree, EarlyUntouched, ClosersAgree, Works, Closes, UserAgrees, WorkerAgrees,
       Early, HandlerPc, ClosePc
  <1>19. StreamsGood'
    BY <1>1, <1>3, <1>4, <1>5, SetFacts DEF IInv, ThreadsTyped, StreamsGood, ThreadsAgree,
       HandlersSerialised, EarlyUntouched, InHandler, Works, UserAgrees, WorkerAgrees,
       Early, Blamed, HandlerPc, ClosePc
  <1>20. ReadinessKept'
    BY <1>1, <1>3, <1>4, <1>5, SetFacts DEF IInv, ValuesTyped, ThreadsTyped, ReadinessKept,
       ThreadsAgree, InOneTask, EarlyUntouched, OwnersAgree, ClosersAgree, Owner, Works,
       UserAgrees, WorkerAgrees, Early, Blamed, HandlerPc, ClosePc
  <1>21. Bounded' /\ NoneCut'
    BY <1>3, <1>5, SetFacts DEF IInv, Bounded, NoneCut, Blamed
  <1>22. SeenTo'
    BY <1>1, <1>2, <1>3, <1>4, <1>5, SetFacts DEF IInv, ThreadsTyped, ValuesTyped, SeenTo,
       Watched, Opens, Closing, Held, Accepts, Releases, Registers, Closes, ThreadsAgree,
       UserAgrees, WorkerAgrees, HandlerPc, ClosePc
  <1>23. QED
    BY <1>6, <1>7, <1>8, <1>9, <1>10, <1>11, <1>12, <1>13, <1>14, <1>15, <1>16, <1>17,
       <1>18, <1>19, <1>20, <1>21, <1>22 DEF IInv

LEMMA PeekInv ==
    ASSUME IInv, NEW w \in Worker, Peek(w)
    PROVE  IInv'
  <1>1. TypeOK
    BY DEF IInv
  <1>2. ThreadsAgree
    BY DEF IInv
  <1>3. /\ w \in Actor
        /\ thread' \in [Actor -> Thread]
        /\ ThreadsTyped /\ ValuesTyped
        /\ \A b \in Actor : b # w => At(b)' = At(b) /\ On(b)' = On(b)
              /\ Job(b)' = Job(b) /\ Ret(b)' = Ret(b)
        /\ At(w)' = "received"
        /\ On(w)' = On(w)
        /\ Job(w)' = Job(w)
        /\ Ret(w)' = Ret(w)
    BY <1>1, <1>2, SetFacts, IdleFacts, GotoFacts, CloseFacts, TypedFacts DEF Peek, TypeOK,
       ThreadsAgree, UserAgrees, WorkerAgrees, At, On, Job, Ret, Thread, Pc, HandlerPc,
       ClosePc, Endpoint
  <1>4. /\ At(w) = "peek"
        /\ \/ area' = area /\ wire' = wire /\ past' = past
           \/ /\ Owner(On(w)) \in Conn
              /\ \A x \in Conn : area'[x] = IF x = On(w) THEN wire[Owner(On(w))] ELSE area[x]
              /\ \A x \in Conn : wire'[x] = IF x = Owner(On(w)) THEN 0 ELSE wire[x]
              /\ past' = IF Owner(On(w)) = On(w) THEN past ELSE past \union {"stray"}
    BY <1>1, <1>2, <1>3, SetFacts DEF Peek, TypeOK, ThreadsAgree, UserAgrees, WorkerAgrees,
       At, On, Job, Ret, Receive, HasData, ClosePc, HandlerPc
  <1>5. UNCHANGED <<os, stage, sent, ended, fd, connected, attached, event, eof, calls,
                   announced>>
    BY DEF Peek, socketVars, loopVars, Receive
  <1>6. TypeOK'
    <2>1. area' \in [Conn -> 0..MaxData]
      <3>1. CASE area[On(w)] > 0 /\ UNCHANGED <<area, wire, past>>
        BY <1>1, <3>1 DEF TypeOK
      <3>2. CASE area[On(w)] = 0 /\ Receive(On(w))
        BY <1>1, <3>2, BoundAssumption DEF TypeOK, HasData, Receive, Mishap
      <3>3. QED
        BY <3>1, <3>2 DEF Peek
    <2>2. wire' \in [Conn -> 0..MaxData]
      <3>1. CASE area[On(w)] > 0 /\ UNCHANGED <<area, wire, past>>
        BY <1>1, <3>1 DEF TypeOK
      <3>2. CASE area[On(w)] = 0 /\ Receive(On(w))
        BY <1>1, <3>2, BoundAssumption DEF TypeOK, HasData, Receive, Mishap
      <3>3. QED
        BY <3>1, <3>2 DEF Peek
    <2>3. past' \subseteq Mishap
      <3>1. CASE area[On(w)] > 0 /\ UNCHANGED <<area, wire, past>>
        BY <1>1, <3>1 DEF TypeOK
      <3>2. CASE area[On(w)] = 0 /\ Receive(On(w))
        BY <1>1, <3>2, BoundAssumption DEF TypeOK, HasData, Receive, Mishap
      <3>3. QED
        BY <3>1, <3>2 DEF Peek
    <2>4. QED
      BY <1>1, <1>3, <1>5, <2>1, <2>2, <2>3 DEF TypeOK
  <1>7. Bounded'
    BY <1>1, <1>3, <1>4, <1>5, SetFacts DEF IInv, ValuesTyped, ThreadsTyped, Bounded, Owner
  <1>8. ThreadsAgree'
    BY <1>1, <1>3, <1>4, <1>5, SetFacts DEF IInv, ThreadsTyped, ThreadsAgree,
       EarlyUntouched, Owner, Works, UserAgrees, WorkerAgrees, Early, HandlerPc, ClosePc
  <1>9. HandlersSerialised'
    BY <1>1, <1>3, <1>4, <1>5, SetFacts DEF IInv, ThreadsTyped, HandlersSerialised,
       ThreadsAgree, Owner, InHandler, UserAgrees, WorkerAgrees, HandlerPc, ClosePc
  <1>10. InOneTask'
    BY <1>1, <1>3, <1>4, <1>5, SetFacts DEF IInv, ThreadsTyped, InOneTask, ThreadsAgree,
       OpenedAlone, Owner, Registers, UserAgrees, WorkerAgrees, HandlerPc, ClosePc
  <1>11. EarlyUntouched'
    BY <1>1, <1>3, <1>4, <1>5, SetFacts DEF IInv, ThreadsTyped, EarlyUntouched,
       ThreadsAgree, HandlersSerialised, OpenedAlone, Owner, InHandler, Works, Registers,
       UserAgrees, WorkerAgrees, Early, HandlerPc, ClosePc
  <1>12. OpenedAlone'
    BY <1>1, <1>3, <1>4, <1>5, SetFacts DEF IInv, ThreadsTyped, OpenedAlone, ThreadsAgree,
       HandlersSerialised, EarlyUntouched, InOneTask, DestroyedAlone, Owner, InHandler,
       Works, Registers, Drops, UserAgrees, WorkerAgrees, Early, HandlerPc, ClosePc
  <1>13. DestroyedAlone'
    BY <1>1, <1>3, <1>4, <1>5, SetFacts DEF IInv, ThreadsTyped, DestroyedAlone,
       ThreadsAgree, EarlyUntouched, OpenedAlone, Owner, Works, Registers, Drops,
       UserAgrees, WorkerAgrees, Early, HandlerPc, ClosePc
  <1>14. NumbersKept'
    BY <1>1, <1>3, <1>4, <1>5, SetFacts DEF IInv, ValuesTyped, ThreadsTyped, NumbersKept,
       ThreadsAgree, EarlyUntouched, DestroyedAlone, ClosersAgree, Owner, Works, Drops,
       UserAgrees, WorkerAgrees, Early, HandlerPc, ClosePc
  <1>15. ClosersAgree'
    BY <1>1, <1>3, <1>4, <1>5, SetFacts DEF IInv, ThreadsTyped, ClosersAgree, ThreadsAgree,
       EarlyUntouched, DestroyedAlone, Owner, Works, Drops, UserAgrees, WorkerAgrees, Early,
       HandlerPc, ClosePc
  <1>16. OwnersAgree'
    BY <1>1, <1>3, <1>4, <1>5, SetFacts DEF IInv, ValuesTyped, ThreadsTyped, OwnersAgree,
       ThreadsAgree, EarlyUntouched, NumbersKept, ClosersAgree, Owner, Works, UserAgrees,
       WorkerAgrees, Early, HandlerPc, ClosePc
  <1>17. OneEnds'
    BY <1>1, <1>3, <1>4, <1>5, SetFacts DEF IInv, ThreadsTyped, OneEnds, ThreadsAgree,
       Owner, Ends, UserAgrees, WorkerAgrees, HandlerPc, ClosePc
  <1>18. EndsAnnounced'
    BY <1>1, <1>3, <1>4, <1>5, SetFacts DEF IInv, ValuesTyped, ThreadsTyped, EndsAnnounced,
       ThreadsAgree, EarlyUntouched, OneEnds, ClosersAgree, Owner, Works, Ends, UserAgrees,
       WorkerAgrees, Early, HandlerPc, ClosePc
  <1>19. DestroyedCloses'
    BY <1>1, <1>3, <1>4, <1>5, SetFacts DEF IInv, ThreadsTyped, DestroyedCloses,
       ThreadsAgree, EarlyUntouched, ClosersAgree, Owner, Works, Closes, UserAgrees,
       WorkerAgrees, Early, HandlerPc, ClosePc
  <1>20. StreamsGood'
    BY <1>1, <1>3, <1>4, <1>5, SetFacts DEF IInv, ThreadsTyped, StreamsGood, ThreadsAgree,
       HandlersSerialised, EarlyUntouched, Owner, InHandler, Works, UserAgrees,
       WorkerAgrees, Early, Blamed, HandlerPc, ClosePc
  <1>21. ReadinessKept'
    BY <1>1, <1>3, <1>4, <1>5, SetFacts DEF IInv, ValuesTyped, ThreadsTyped, ReadinessKept,
       ThreadsAgree, InOneTask, EarlyUntouched, OwnersAgree, ClosersAgree, Owner, Works,
       UserAgrees, WorkerAgrees, Early, Blamed, HandlerPc, ClosePc
  <1>22. NoneCut'
    BY <1>1, <1>3, <1>4, <1>5, SetFacts DEF IInv, ValuesTyped, ThreadsTyped, NoneCut,
       ThreadsAgree, StreamsGood, ReadinessKept, OwnersAgree, Owner, UserAgrees,
       WorkerAgrees, Blamed, HandlerPc, ClosePc
  <1>23. SeenTo'
    BY <1>1, <1>2, <1>3, <1>4, <1>5, SetFacts DEF IInv, ThreadsTyped, ValuesTyped, SeenTo,
       Watched, Opens, Closing, Held, Accepts, Releases, Registers, Closes, ThreadsAgree,
       UserAgrees, WorkerAgrees, HandlerPc, ClosePc
  <1>24. QED
    BY <1>6, <1>7, <1>8, <1>9, <1>10, <1>11, <1>12, <1>13, <1>14, <1>15, <1>16, <1>17,
       <1>18, <1>19, <1>20, <1>21, <1>22, <1>23 DEF IInv

LEMMA PeekFailsInv ==
    ASSUME IInv, NEW w \in Worker, PeekFails(w)
    PROVE  IInv'
  <1>1. TypeOK
    BY DEF IInv
  <1>2. ThreadsAgree
    BY DEF IInv
  <1>3. /\ w \in Actor
        /\ thread' \in [Actor -> Thread]
        /\ ThreadsTyped /\ ValuesTyped
        /\ \A b \in Actor : b # w => At(b)' = At(b) /\ On(b)' = On(b)
              /\ Job(b)' = Job(b) /\ Ret(b)' = Ret(b)
        /\ At(w)' = "close"
        /\ On(w)' = On(w)
        /\ Job(w)' = Job(w)
        /\ Ret(w)' = "check"
    BY <1>1, <1>2, SetFacts, IdleFacts, GotoFacts, CloseFacts, TypedFacts DEF PeekFails,
       TypeOK, ThreadsAgree, UserAgrees, WorkerAgrees, At, On, Job, Ret, Thread, Pc,
       HandlerPc, ClosePc, Endpoint
  <1>4. /\ At(w) = "peek"
        /\ eof[On(w)] \/ (area[On(w)] = 0 /\ ~ HasData(Owner(On(w)))
              /\ (Owner(On(w)) \in Conn => ended[Owner(On(w))]))
        /\ \A x \in Conn : eof'[x] <=> x = On(w) \/ eof[x]
        /\ past' = past \union (IF eof[On(w)] \/ Owner(On(w)) = On(w) THEN {} ELSE {"stray"})
                   \union (IF ended[On(w)] THEN {} ELSE {"cut"})
    BY <1>1, <1>2, <1>3, SetFacts DEF PeekFails, TypeOK, ThreadsAgree, UserAgrees,
       WorkerAgrees, At, On, Job, Ret, HasData, AtEnd, ClosePc, HandlerPc
  <1>5. UNCHANGED <<os, stage, sent, wire, ended, fd, connected, attached, event, area,
                   calls, announced>>
    BY DEF PeekFails, socketVars, peerVars, loopVars
  <1>6. TypeOK'
    <2>1. eof' \in [Conn -> BOOLEAN]
      BY <1>1, <1>2, <1>3, <1>4, SetFacts, BoundAssumption DEF PeekFails, TypeOK, Bounded,
         IInv, ThreadsAgree, UserAgrees, WorkerAgrees, At, On, Job, Ret, Owner, HasData,
         Stage, EventPlace, Mishap, HandlerPc, ClosePc
    <2>2. past' \subseteq Mishap
      BY <1>1, <1>2, <1>3, <1>4, SetFacts, BoundAssumption DEF PeekFails, TypeOK, Bounded,
         IInv, ThreadsAgree, UserAgrees, WorkerAgrees, At, On, Job, Ret, Owner, HasData,
         Stage, EventPlace, Mishap, HandlerPc, ClosePc
    <2>3. QED
      BY <1>1, <1>3, <1>5, <2>1, <2>2 DEF TypeOK
  <1>7. ThreadsAgree'
    BY <1>1, <1>3, <1>4, <1>5, SetFacts DEF IInv, ThreadsTyped, ThreadsAgree,
       EarlyUntouched, Owner, HasData, Works, UserAgrees, WorkerAgrees, Early, HandlerPc,
       ClosePc
  <1>8. HandlersSerialised'
    BY <1>1, <1>3, <1>4, <1>5, SetFacts DEF IInv, ThreadsTyped, HandlersSerialised,
       ThreadsAgree, Owner, HasData, InHandler, UserAgrees, WorkerAgrees, HandlerPc, ClosePc
  <1>9. InOneTask'
    BY <1>1, <1>3, <1>4, <1>5, SetFacts DEF IInv, ThreadsTyped, InOneTask, ThreadsAgree,
       OpenedAlone, Owner, HasData, Registers, UserAgrees, WorkerAgrees, HandlerPc, ClosePc
  <1>10. EarlyUntouched'
    BY <1>1, <1>3, <1>4, <1>5, SetFacts DEF IInv, ThreadsTyped, EarlyUntouched,
       ThreadsAgree, HandlersSerialised, OpenedAlone, Owner, HasData, InHandler, Works,
       Registers, UserAgrees, WorkerAgrees, Early, HandlerPc, ClosePc
  <1>11. OpenedAlone'
    BY <1>1, <1>3, <1>4, <1>5, SetFacts DEF IInv, ThreadsTyped, OpenedAlone, ThreadsAgree,
       HandlersSerialised, EarlyUntouched, InOneTask, DestroyedAlone, Owner, HasData,
       InHandler, Works, Registers, Drops, UserAgrees, WorkerAgrees, Early, HandlerPc,
       ClosePc
  <1>12. DestroyedAlone'
    BY <1>1, <1>3, <1>4, <1>5, SetFacts DEF IInv, ThreadsTyped, DestroyedAlone,
       ThreadsAgree, EarlyUntouched, OpenedAlone, Owner, HasData, Works, Registers, Drops,
       UserAgrees, WorkerAgrees, Early, HandlerPc, ClosePc
  <1>13. NumbersKept'
    BY <1>1, <1>3, <1>4, <1>5, SetFacts DEF IInv, ValuesTyped, ThreadsTyped, NumbersKept,
       ThreadsAgree, EarlyUntouched, DestroyedAlone, ClosersAgree, Owner, HasData, Works,
       Drops, UserAgrees, WorkerAgrees, Early, HandlerPc, ClosePc
  <1>14. ClosersAgree'
    BY <1>1, <1>3, <1>4, <1>5, SetFacts DEF IInv, ThreadsTyped, ClosersAgree, ThreadsAgree,
       EarlyUntouched, DestroyedAlone, Owner, HasData, Works, Drops, UserAgrees,
       WorkerAgrees, Early, HandlerPc, ClosePc
  <1>15. OwnersAgree'
    BY <1>1, <1>3, <1>4, <1>5, SetFacts DEF IInv, ValuesTyped, ThreadsTyped, OwnersAgree,
       ThreadsAgree, EarlyUntouched, NumbersKept, ClosersAgree, Owner, HasData, Works,
       UserAgrees, WorkerAgrees, Early, HandlerPc, ClosePc
  <1>16. OneEnds'
    BY <1>1, <1>3, <1>4, <1>5, SetFacts DEF IInv, ThreadsTyped, OneEnds, ThreadsAgree,
       Owner, HasData, Ends, UserAgrees, WorkerAgrees, HandlerPc, ClosePc
  <1>17. EndsAnnounced'
    BY <1>1, <1>3, <1>4, <1>5, SetFacts DEF IInv, ValuesTyped, ThreadsTyped, EndsAnnounced,
       ThreadsAgree, EarlyUntouched, OneEnds, ClosersAgree, Owner, HasData, Works, Ends,
       UserAgrees, WorkerAgrees, Early, HandlerPc, ClosePc
  <1>18. DestroyedCloses'
    BY <1>1, <1>3, <1>4, <1>5, SetFacts DEF IInv, ThreadsTyped, DestroyedCloses,
       ThreadsAgree, EarlyUntouched, ClosersAgree, Owner, HasData, Works, Closes,
       UserAgrees, WorkerAgrees, Early, HandlerPc, ClosePc
  <1>19. StreamsGood'
    BY <1>1, <1>3, <1>4, <1>5, SetFacts DEF IInv, ThreadsTyped, StreamsGood, ThreadsAgree,
       HandlersSerialised, EarlyUntouched, OwnersAgree, Owner, HasData, InHandler, Works,
       UserAgrees, WorkerAgrees, Early, Blamed, HandlerPc, ClosePc
  <1>20. ReadinessKept'
    BY <1>1, <1>3, <1>4, <1>5, SetFacts DEF IInv, ValuesTyped, ThreadsTyped, ReadinessKept,
       ThreadsAgree, InOneTask, EarlyUntouched, OwnersAgree, ClosersAgree, Owner, HasData,
       Works, UserAgrees, WorkerAgrees, Early, Blamed, HandlerPc, ClosePc
  <1>21. NoneCut'
    BY <1>1, <1>3, <1>4, <1>5, SetFacts DEF IInv, ValuesTyped, ThreadsTyped, NoneCut,
       ThreadsAgree, StreamsGood, ReadinessKept, OwnersAgree, Owner, HasData, UserAgrees,
       WorkerAgrees, Blamed, HandlerPc, ClosePc
  <1>22. Bounded'
    BY <1>3, <1>5, SetFacts DEF IInv, Bounded
  <1>23. SeenTo'
    BY <1>1, <1>2, <1>3, <1>4, <1>5, SetFacts DEF IInv, ThreadsTyped, ValuesTyped, SeenTo,
       Watched, Opens, Closing, Held, Accepts, Releases, Registers, Closes, ThreadsAgree,
       UserAgrees, WorkerAgrees, HandlerPc, ClosePc
  <1>24. QED
    BY <1>6, <1>7, <1>8, <1>9, <1>10, <1>11, <1>12, <1>13, <1>14, <1>15, <1>16, <1>17,
       <1>18, <1>19, <1>20, <1>21, <1>22, <1>23 DEF IInv

LEMMA HandlerReadsInv ==
    ASSUME IInv, NEW w \in Worker, HandlerReads(w)
    PROVE  IInv'
  <1>1. TypeOK
    BY DEF IInv
  <1>2. ThreadsAgree
    BY DEF IInv
  <1>3. /\ thread' = thread /\ ThreadsTyped /\ ValuesTyped
        /\ \A b \in Actor : At(b)' = At(b) /\ On(b)' = On(b) /\ Job(b)' = Job(b)
              /\ Ret(b)' = Ret(b)
    BY <1>1, TypedFacts DEF HandlerReads, threadVars, At, On, Job, Ret
  <1>4. /\ At(w) = "received"
        /\ area[On(w)] > 0
        /\ \A x \in Conn : area'[x] = IF x = On(w) THEN area[On(w)] - 1 ELSE area[x]
    BY <1>1, <1>2, <1>3, SetFacts DEF HandlerReads, TypeOK, ThreadsAgree, UserAgrees,
       WorkerAgrees, At, On, Job, Ret, ClosePc, HandlerPc
  <1>5. UNCHANGED <<os, stage, sent, wire, ended, fd, connected, attached, event, eof,
                   calls, announced, past>>
    BY DEF HandlerReads, socketVars, peerVars, loopVars, threadVars, history
  <1>6. TypeOK'
    <2>1. area' \in [Conn -> 0..MaxData]
      BY <1>1, <1>2, <1>3, <1>4, SetFacts, BoundAssumption DEF HandlerReads, TypeOK,
         Bounded, IInv, ThreadsAgree, UserAgrees, WorkerAgrees, At, On, Job, Ret, Stage,
         EventPlace, Mishap, HandlerPc, ClosePc
    <2>2. QED
      BY <1>1, <1>3, <1>5, <2>1 DEF TypeOK
  <1>7. Bounded'
    BY <1>1, <1>3, <1>4, <1>5, SetFacts DEF IInv, ValuesTyped, ThreadsTyped, Bounded
  <1>8. ThreadsAgree' /\ HandlersSerialised' /\ InOneTask' /\ EarlyUntouched'
           /\ OpenedAlone' /\ DestroyedAlone' /\ NumbersKept' /\ ClosersAgree'
           /\ OwnersAgree' /\ OneEnds' /\ EndsAnnounced' /\ DestroyedCloses' /\ StreamsGood'
           /\ ReadinessKept' /\ NoneCut'
    BY <1>3, <1>5, SetFacts DEF IInv, ThreadsAgree, HandlersSerialised, InOneTask,
       EarlyUntouched, OpenedAlone, DestroyedAlone, NumbersKept, ClosersAgree, OwnersAgree,
       OneEnds, EndsAnnounced, DestroyedCloses, StreamsGood, ReadinessKept, NoneCut,
       Owner, InHandler, Works, Closes, Ends, Registers, Drops, UserAgrees, WorkerAgrees,
       Early, Blamed, HandlerPc, ClosePc
  <1>9. SeenTo'
    BY <1>1, <1>2, <1>3, <1>4, <1>5, SetFacts DEF IInv, ThreadsTyped, ValuesTyped, SeenTo,
       Watched, Opens, Closing, Held, Accepts, Releases, Registers, Closes, ThreadsAgree,
       UserAgrees, WorkerAgrees, HandlerPc, ClosePc
  <1>10. QED
    BY <1>6, <1>7, <1>8, <1>9 DEF IInv

LEMMA HandlerReadsOnInv ==
    ASSUME IInv, NEW w \in Worker, HandlerReadsOn(w)
    PROVE  IInv'
  <1>1. TypeOK
    BY DEF IInv
  <1>2. ThreadsAgree
    BY DEF IInv
  <1>3. /\ w \in Actor
        /\ thread' \in [Actor -> Thread]
        /\ ThreadsTyped /\ ValuesTyped
        /\ \A b \in Actor : b # w => At(b)' = At(b) /\ On(b)' = On(b)
              /\ Job(b)' = Job(b) /\ Ret(b)' = Ret(b)
        /\ At(w)' = "recv"
        /\ On(w)' = On(w)
        /\ Job(w)' = Job(w)
        /\ Ret(w)' = Ret(w)
    BY <1>1, <1>2, SetFacts, IdleFacts, GotoFacts, CloseFacts, TypedFacts DEF
       HandlerReadsOn, TypeOK, ThreadsAgree, UserAgrees, WorkerAgrees, At, On, Job, Ret,
       Thread, Pc, HandlerPc, ClosePc, Endpoint
  <1>4. /\ At(w) = "received"
    BY <1>1, <1>2, <1>3, SetFacts DEF HandlerReadsOn, TypeOK, ThreadsAgree, UserAgrees,
       WorkerAgrees, At, On, Job, Ret, ClosePc, HandlerPc
  <1>5. UNCHANGED <<os, stage, sent, wire, ended, fd, connected, attached, event, area,
                   eof, calls, announced, past>>
    BY DEF HandlerReadsOn, socketVars, peerVars, streamVars, loopVars, history
  <1>6. TypeOK'
    <2>1. QED
      BY <1>1, <1>3, <1>5 DEF TypeOK
  <1>7. ThreadsAgree'
    BY <1>1, <1>3, <1>4, <1>5, SetFacts DEF IInv, ThreadsTyped, ThreadsAgree,
       EarlyUntouched, Works, UserAgrees, WorkerAgrees, Early, HandlerPc, ClosePc
  <1>8. HandlersSerialised'
    BY <1>1, <1>3, <1>4, <1>5, SetFacts DEF IInv, ThreadsTyped, HandlersSerialised,
       ThreadsAgree, InHandler, UserAgrees, WorkerAgrees, HandlerPc, ClosePc
  <1>9. InOneTask'
    BY <1>1, <1>3, <1>4, <1>5, SetFacts DEF IInv, ThreadsTyped, InOneTask, ThreadsAgree,
       OpenedAlone, Registers, UserAgrees, WorkerAgrees, HandlerPc, ClosePc
  <1>10. EarlyUntouched'
    BY <1>1, <1>3, <1>4, <1>5, SetFacts DEF IInv, ThreadsTyped, EarlyUntouched,
       ThreadsAgree, HandlersSerialised, OpenedAlone, InHandler, Works, Registers,
       UserAgrees, WorkerAgrees, Early, HandlerPc, ClosePc
  <1>11. OpenedAlone'
    BY <1>1, <1>3, <1>4, <1>5, SetFacts DEF IInv, ThreadsTyped, OpenedAlone, ThreadsAgree,
       HandlersSerialised, EarlyUntouched, InOneTask, DestroyedAlone, InHandler, Works,
       Registers, Drops, UserAgrees, WorkerAgrees, Early, HandlerPc, ClosePc
  <1>12. DestroyedAlone'
    BY <1>1, <1>3, <1>4, <1>5, SetFacts DEF IInv, ThreadsTyped, DestroyedAlone,
       ThreadsAgree, EarlyUntouched, OpenedAlone, Works, Registers, Drops, UserAgrees,
       WorkerAgrees, Early, HandlerPc, ClosePc
  <1>13. NumbersKept'
    BY <1>1, <1>3, <1>4, <1>5, SetFacts DEF IInv, ValuesTyped, ThreadsTyped, NumbersKept,
       ThreadsAgree, EarlyUntouched, DestroyedAlone, ClosersAgree, Works, Drops, UserAgrees,
       WorkerAgrees, Early, HandlerPc, ClosePc
  <1>14. ClosersAgree'
    BY <1>1, <1>3, <1>4, <1>5, SetFacts DEF IInv, ThreadsTyped, ClosersAgree, ThreadsAgree,
       EarlyUntouched, DestroyedAlone, Works, Drops, UserAgrees, WorkerAgrees, Early,
       HandlerPc, ClosePc
  <1>15. OwnersAgree'
    BY <1>1, <1>3, <1>4, <1>5, SetFacts DEF IInv, ValuesTyped, ThreadsTyped, OwnersAgree,
       ThreadsAgree, EarlyUntouched, NumbersKept, ClosersAgree, Owner, Works, UserAgrees,
       WorkerAgrees, Early, HandlerPc, ClosePc
  <1>16. OneEnds'
    BY <1>1, <1>3, <1>4, <1>5, SetFacts DEF IInv, ThreadsTyped, OneEnds, ThreadsAgree, Ends,
       UserAgrees, WorkerAgrees, HandlerPc, ClosePc
  <1>17. EndsAnnounced'
    BY <1>1, <1>3, <1>4, <1>5, SetFacts DEF IInv, ValuesTyped, ThreadsTyped, EndsAnnounced,
       ThreadsAgree, EarlyUntouched, OneEnds, ClosersAgree, Works, Ends, UserAgrees,
       WorkerAgrees, Early, HandlerPc, ClosePc
  <1>18. DestroyedCloses'
    BY <1>1, <1>3, <1>4, <1>5, SetFacts DEF IInv, ThreadsTyped, DestroyedCloses,
       ThreadsAgree, EarlyUntouched, ClosersAgree, Works, Closes, UserAgrees, WorkerAgrees,
       Early, HandlerPc, ClosePc
  <1>19. StreamsGood'
    BY <1>1, <1>3, <1>4, <1>5, SetFacts DEF IInv, ThreadsTyped, StreamsGood, ThreadsAgree,
       HandlersSerialised, EarlyUntouched, InHandler, Works, UserAgrees, WorkerAgrees,
       Early, Blamed, HandlerPc, ClosePc
  <1>20. ReadinessKept'
    BY <1>1, <1>3, <1>4, <1>5, SetFacts DEF IInv, ValuesTyped, ThreadsTyped, ReadinessKept,
       ThreadsAgree, InOneTask, EarlyUntouched, OwnersAgree, ClosersAgree, Owner, Works,
       UserAgrees, WorkerAgrees, Early, Blamed, HandlerPc, ClosePc
  <1>21. Bounded' /\ NoneCut'
    BY <1>3, <1>5, SetFacts DEF IInv, Bounded, NoneCut, Blamed
  <1>22. SeenTo'
    BY <1>1, <1>2, <1>3, <1>4, <1>5, SetFacts DEF IInv, ThreadsTyped, ValuesTyped, SeenTo,
       Watched, Opens, Closing, Held, Accepts, Releases, Registers, Closes, ThreadsAgree,
       UserAgrees, WorkerAgrees, HandlerPc, ClosePc
  <1>23. QED
    BY <1>6, <1>7, <1>8, <1>9, <1>10, <1>11, <1>12, <1>13, <1>14, <1>15, <1>16, <1>17,
       <1>18, <1>19, <1>20, <1>21, <1>22 DEF IInv

LEMMA RecvInv ==
    ASSUME IInv, NEW w \in Worker, Recv(w)
    PROVE  IInv'
  <1>1. TypeOK
    BY DEF IInv
  <1>2. ThreadsAgree
    BY DEF IInv
  <1>3. /\ w \in Actor
        /\ thread' \in [Actor -> Thread]
        /\ ThreadsTyped /\ ValuesTyped
        /\ \A b \in Actor : b # w => At(b)' = At(b) /\ On(b)' = On(b)
              /\ Job(b)' = Job(b) /\ Ret(b)' = Ret(b)
        /\ At(w)' = "received"
        /\ On(w)' = On(w)
        /\ Job(w)' = Job(w)
        /\ Ret(w)' = Ret(w)
    BY <1>1, <1>2, SetFacts, IdleFacts, GotoFacts, CloseFacts, TypedFacts DEF Recv, TypeOK,
       ThreadsAgree, UserAgrees, WorkerAgrees, At, On, Job, Ret, Thread, Pc, HandlerPc,
       ClosePc, Endpoint
  <1>4. /\ At(w) = "recv"
        /\ \/ /\ area' = area /\ wire' = wire /\ past' = past
              /\ Owner(On(w)) \in Conn => ended[Owner(On(w))]
              /\ \A x \in Conn : eof'[x] <=> x = On(w) \/ eof[x]
           \/ /\ Owner(On(w)) \in Conn /\ eof' = eof
              /\ \A x \in Conn : area'[x] = IF x = On(w) THEN wire[Owner(On(w))] ELSE area[x]
              /\ \A x \in Conn : wire'[x] = IF x = Owner(On(w)) THEN 0 ELSE wire[x]
              /\ past' = IF Owner(On(w)) = On(w) THEN past ELSE past \union {"stray"}
    BY <1>1, <1>2, <1>3, SetFacts DEF Recv, TypeOK, ThreadsAgree, UserAgrees, WorkerAgrees,
       At, On, Job, Ret, Receive, HasData, AtEnd, ClosePc, HandlerPc
  <1>5. UNCHANGED <<os, stage, sent, ended, fd, connected, attached, event, calls,
                   announced>>
    BY DEF Recv, socketVars, loopVars, Receive
  <1>6. TypeOK'
    <2>1. area' \in [Conn -> 0..MaxData]
      <3>1. CASE UNCHANGED <<area, wire, past>>
        BY <1>1, <3>1 DEF TypeOK
      <3>2. CASE Receive(On(w))
        BY <1>1, <3>2, BoundAssumption DEF TypeOK, HasData, Receive, Mishap
      <3>3. QED
        BY <3>1, <3>2 DEF Recv
    <2>2. wire' \in [Conn -> 0..MaxData]
      <3>1. CASE UNCHANGED <<area, wire, past>>
        BY <1>1, <3>1 DEF TypeOK
      <3>2. CASE Receive(On(w))
        BY <1>1, <3>2, BoundAssumption DEF TypeOK, HasData, Receive, Mishap
      <3>3. QED
        BY <3>1, <3>2 DEF Recv
    <2>3. past' \subseteq Mishap
      <3>1. CASE UNCHANGED <<area, wire, past>>
        BY <1>1, <3>1 DEF TypeOK
      <3>2. CASE Receive(On(w))
        BY <1>1, <3>2, BoundAssumption DEF TypeOK, HasData, Receive, Mishap
      <3>3. QED
        BY <3>1, <3>2 DEF Recv
    <2>4. eof' \in [Conn -> BOOLEAN]
      BY <1>1 DEF Recv, TypeOK
    <2>5. QED
      BY <1>1, <1>3, <1>5, <2>1, <2>2, <2>3, <2>4 DEF TypeOK
  <1>7. Bounded'
    BY <1>1, <1>3, <1>4, <1>5, SetFacts DEF IInv, ValuesTyped, ThreadsTyped, Bounded, Owner
  <1>8. ThreadsAgree'
    BY <1>1, <1>3, <1>4, <1>5, SetFacts DEF IInv, ThreadsTyped, ThreadsAgree,
       EarlyUntouched, Owner, Works, UserAgrees, WorkerAgrees, Early, HandlerPc, ClosePc
  <1>9. HandlersSerialised'
    BY <1>1, <1>3, <1>4, <1>5, SetFacts DEF IInv, ThreadsTyped, HandlersSerialised,
       ThreadsAgree, Owner, InHandler, UserAgrees, WorkerAgrees, HandlerPc, ClosePc
  <1>10. InOneTask'
    BY <1>1, <1>3, <1>4, <1>5, SetFacts DEF IInv, ThreadsTyped, InOneTask, ThreadsAgree,
       OpenedAlone, Owner, Registers, UserAgrees, WorkerAgrees, HandlerPc, ClosePc
  <1>11. EarlyUntouched'
    BY <1>1, <1>3, <1>4, <1>5, SetFacts DEF IInv, ThreadsTyped, EarlyUntouched,
       ThreadsAgree, HandlersSerialised, OpenedAlone, Owner, InHandler, Works, Registers,
       UserAgrees, WorkerAgrees, Early, HandlerPc, ClosePc
  <1>12. OpenedAlone'
    BY <1>1, <1>3, <1>4, <1>5, SetFacts DEF IInv, ThreadsTyped, OpenedAlone, ThreadsAgree,
       HandlersSerialised, EarlyUntouched, InOneTask, DestroyedAlone, Owner, InHandler,
       Works, Registers, Drops, UserAgrees, WorkerAgrees, Early, HandlerPc, ClosePc
  <1>13. DestroyedAlone'
    BY <1>1, <1>3, <1>4, <1>5, SetFacts DEF IInv, ThreadsTyped, DestroyedAlone,
       ThreadsAgree, EarlyUntouched, OpenedAlone, Owner, Works, Registers, Drops,
       UserAgrees, WorkerAgrees, Early, HandlerPc, ClosePc
  <1>14. NumbersKept'
    BY <1>1, <1>3, <1>4, <1>5, SetFacts DEF IInv, ValuesTyped, ThreadsTyped, NumbersKept,
       ThreadsAgree, EarlyUntouched, DestroyedAlone, ClosersAgree, Owner, Works, Drops,
       UserAgrees, WorkerAgrees, Early, HandlerPc, ClosePc
  <1>15. ClosersAgree'
    BY <1>1, <1>3, <1>4, <1>5, SetFacts DEF IInv, ThreadsTyped, ClosersAgree, ThreadsAgree,
       EarlyUntouched, DestroyedAlone, Owner, Works, Drops, UserAgrees, WorkerAgrees, Early,
       HandlerPc, ClosePc
  <1>16. OwnersAgree'
    BY <1>1, <1>3, <1>4, <1>5, SetFacts DEF IInv, ValuesTyped, ThreadsTyped, OwnersAgree,
       ThreadsAgree, EarlyUntouched, NumbersKept, ClosersAgree, Owner, Works, UserAgrees,
       WorkerAgrees, Early, HandlerPc, ClosePc
  <1>17. OneEnds'
    BY <1>1, <1>3, <1>4, <1>5, SetFacts DEF IInv, ThreadsTyped, OneEnds, ThreadsAgree,
       Owner, Ends, UserAgrees, WorkerAgrees, HandlerPc, ClosePc
  <1>18. EndsAnnounced'
    BY <1>1, <1>3, <1>4, <1>5, SetFacts DEF IInv, ValuesTyped, ThreadsTyped, EndsAnnounced,
       ThreadsAgree, EarlyUntouched, OneEnds, ClosersAgree, Owner, Works, Ends, UserAgrees,
       WorkerAgrees, Early, HandlerPc, ClosePc
  <1>19. DestroyedCloses'
    BY <1>1, <1>3, <1>4, <1>5, SetFacts DEF IInv, ThreadsTyped, DestroyedCloses,
       ThreadsAgree, EarlyUntouched, ClosersAgree, Owner, Works, Closes, UserAgrees,
       WorkerAgrees, Early, HandlerPc, ClosePc
  <1>20. StreamsGood'
    BY <1>1, <1>3, <1>4, <1>5, SetFacts DEF IInv, ThreadsTyped, StreamsGood, ThreadsAgree,
       HandlersSerialised, EarlyUntouched, OwnersAgree, Owner, InHandler, Works,
       UserAgrees, WorkerAgrees, Early, Blamed, HandlerPc, ClosePc
  <1>21. ReadinessKept'
    BY <1>1, <1>3, <1>4, <1>5, SetFacts DEF IInv, ValuesTyped, ThreadsTyped, ReadinessKept,
       ThreadsAgree, InOneTask, EarlyUntouched, OwnersAgree, ClosersAgree, Owner, Works,
       UserAgrees, WorkerAgrees, Early, Blamed, HandlerPc, ClosePc
  <1>22. NoneCut'
    BY <1>1, <1>3, <1>4, <1>5, SetFacts DEF IInv, ValuesTyped, ThreadsTyped, NoneCut,
       ThreadsAgree, StreamsGood, ReadinessKept, OwnersAgree, Owner, UserAgrees,
       WorkerAgrees, Blamed, HandlerPc, ClosePc
  <1>23. SeenTo'
    BY <1>1, <1>2, <1>3, <1>4, <1>5, SetFacts DEF IInv, ThreadsTyped, ValuesTyped, SeenTo,
       Watched, Opens, Closing, Held, Accepts, Releases, Registers, Closes, ThreadsAgree,
       UserAgrees, WorkerAgrees, HandlerPc, ClosePc
  <1>24. QED
    BY <1>6, <1>7, <1>8, <1>9, <1>10, <1>11, <1>12, <1>13, <1>14, <1>15, <1>16, <1>17,
       <1>18, <1>19, <1>20, <1>21, <1>22, <1>23 DEF IInv

LEMMA HandlerClosesInv ==
    ASSUME IInv, NEW w \in Worker, HandlerCloses(w)
    PROVE  IInv'
  <1>1. TypeOK
    BY DEF IInv
  <1>2. ThreadsAgree
    BY DEF IInv
  <1>3. /\ w \in Actor
        /\ thread' \in [Actor -> Thread]
        /\ ThreadsTyped /\ ValuesTyped
        /\ \A b \in Actor : b # w => At(b)' = At(b) /\ On(b)' = On(b)
              /\ Job(b)' = Job(b) /\ Ret(b)' = Ret(b)
        /\ At(w)' = "close"
        /\ On(w)' = On(w)
        /\ Job(w)' = Job(w)
        /\ Ret(w)' = "check"
    BY <1>1, <1>2, SetFacts, IdleFacts, GotoFacts, CloseFacts, TypedFacts DEF HandlerCloses,
       TypeOK, ThreadsAgree, UserAgrees, WorkerAgrees, At, On, Job, Ret, Thread, Pc,
       HandlerPc, ClosePc, Endpoint
  <1>4. /\ At(w) = "received"
    BY <1>1, <1>2, <1>3, SetFacts DEF HandlerCloses, TypeOK, ThreadsAgree, UserAgrees,
       WorkerAgrees, At, On, Job, Ret, ClosePc, HandlerPc
  <1>5. UNCHANGED <<os, stage, sent, wire, ended, fd, connected, attached, event, area,
                   eof, calls, announced, past>>
    BY DEF HandlerCloses, socketVars, peerVars, streamVars, loopVars, history
  <1>6. TypeOK'
    <2>1. QED
      BY <1>1, <1>3, <1>5 DEF TypeOK
  <1>7. ThreadsAgree'
    BY <1>1, <1>3, <1>4, <1>5, SetFacts DEF IInv, ThreadsTyped, ThreadsAgree,
       EarlyUntouched, Works, UserAgrees, WorkerAgrees, Early, HandlerPc, ClosePc
  <1>8. HandlersSerialised'
    BY <1>1, <1>3, <1>4, <1>5, SetFacts DEF IInv, ThreadsTyped, HandlersSerialised,
       ThreadsAgree, InHandler, UserAgrees, WorkerAgrees, HandlerPc, ClosePc
  <1>9. InOneTask'
    BY <1>1, <1>3, <1>4, <1>5, SetFacts DEF IInv, ThreadsTyped, InOneTask, ThreadsAgree,
       OpenedAlone, Registers, UserAgrees, WorkerAgrees, HandlerPc, ClosePc
  <1>10. EarlyUntouched'
    BY <1>1, <1>3, <1>4, <1>5, SetFacts DEF IInv, ThreadsTyped, EarlyUntouched,
       ThreadsAgree, HandlersSerialised, OpenedAlone, InHandler, Works, Registers,
       UserAgrees, WorkerAgrees, Early, HandlerPc, ClosePc
  <1>11. OpenedAlone'
    BY <1>1, <1>3, <1>4, <1>5, SetFacts DEF IInv, ThreadsTyped, OpenedAlone, ThreadsAgree,
       HandlersSerialised, EarlyUntouched, InOneTask, DestroyedAlone, InHandler, Works,
       Registers, Drops, UserAgrees, WorkerAgrees, Early, HandlerPc, ClosePc
  <1>12. DestroyedAlone'
    BY <1>1, <1>3, <1>4, <1>5, SetFacts DEF IInv, ThreadsTyped, DestroyedAlone,
       ThreadsAgree, EarlyUntouched, OpenedAlone, Works, Registers, Drops, UserAgrees,
       WorkerAgrees, Early, HandlerPc, ClosePc
  <1>13. NumbersKept'
    BY <1>1, <1>3, <1>4, <1>5, SetFacts DEF IInv, ValuesTyped, ThreadsTyped, NumbersKept,
       ThreadsAgree, EarlyUntouched, DestroyedAlone, ClosersAgree, Works, Drops, UserAgrees,
       WorkerAgrees, Early, HandlerPc, ClosePc
  <1>14. ClosersAgree'
    BY <1>1, <1>3, <1>4, <1>5, SetFacts DEF IInv, ThreadsTyped, ClosersAgree, ThreadsAgree,
       EarlyUntouched, DestroyedAlone, Works, Drops, UserAgrees, WorkerAgrees, Early,
       HandlerPc, ClosePc
  <1>15. OwnersAgree'
    BY <1>1, <1>3, <1>4, <1>5, SetFacts DEF IInv, ValuesTyped, ThreadsTyped, OwnersAgree,
       ThreadsAgree, EarlyUntouched, NumbersKept, ClosersAgree, Owner, Works, UserAgrees,
       WorkerAgrees, Early, HandlerPc, ClosePc
  <1>16. OneEnds'
    BY <1>1, <1>3, <1>4, <1>5, SetFacts DEF IInv, ThreadsTyped, OneEnds, ThreadsAgree, Ends,
       UserAgrees, WorkerAgrees, HandlerPc, ClosePc
  <1>17. EndsAnnounced'
    BY <1>1, <1>3, <1>4, <1>5, SetFacts DEF IInv, ValuesTyped, ThreadsTyped, EndsAnnounced,
       ThreadsAgree, EarlyUntouched, OneEnds, ClosersAgree, Works, Ends, UserAgrees,
       WorkerAgrees, Early, HandlerPc, ClosePc
  <1>18. DestroyedCloses'
    BY <1>1, <1>3, <1>4, <1>5, SetFacts DEF IInv, ThreadsTyped, DestroyedCloses,
       ThreadsAgree, EarlyUntouched, ClosersAgree, Works, Closes, UserAgrees, WorkerAgrees,
       Early, HandlerPc, ClosePc
  <1>19. StreamsGood'
    BY <1>1, <1>3, <1>4, <1>5, SetFacts DEF IInv, ThreadsTyped, StreamsGood, ThreadsAgree,
       HandlersSerialised, EarlyUntouched, InHandler, Works, UserAgrees, WorkerAgrees,
       Early, Blamed, HandlerPc, ClosePc
  <1>20. ReadinessKept'
    BY <1>1, <1>3, <1>4, <1>5, SetFacts DEF IInv, ValuesTyped, ThreadsTyped, ReadinessKept,
       ThreadsAgree, InOneTask, EarlyUntouched, OwnersAgree, ClosersAgree, Owner, Works,
       UserAgrees, WorkerAgrees, Early, Blamed, HandlerPc, ClosePc
  <1>21. Bounded' /\ NoneCut'
    BY <1>3, <1>5, SetFacts DEF IInv, Bounded, NoneCut, Blamed
  <1>22. SeenTo'
    BY <1>1, <1>2, <1>3, <1>4, <1>5, SetFacts DEF IInv, ThreadsTyped, ValuesTyped, SeenTo,
       Watched, Opens, Closing, Held, Accepts, Releases, Registers, Closes, ThreadsAgree,
       UserAgrees, WorkerAgrees, HandlerPc, ClosePc
  <1>23. QED
    BY <1>6, <1>7, <1>8, <1>9, <1>10, <1>11, <1>12, <1>13, <1>14, <1>15, <1>16, <1>17,
       <1>18, <1>19, <1>20, <1>21, <1>22 DEF IInv

LEMMA HandlerReturnsInv ==
    ASSUME IInv, NEW w \in Worker, HandlerReturns(w)
    PROVE  IInv'
  <1>1. TypeOK
    BY DEF IInv
  <1>2. ThreadsAgree
    BY DEF IInv
  <1>3. /\ w \in Actor
        /\ thread' \in [Actor -> Thread]
        /\ ThreadsTyped /\ ValuesTyped
        /\ \A b \in Actor : b # w => At(b)' = At(b) /\ On(b)' = On(b)
              /\ Job(b)' = Job(b) /\ Ret(b)' = Ret(b)
        /\ At(w)' = "check"
        /\ On(w)' = On(w)
        /\ Job(w)' = Job(w)
        /\ Ret(w)' = Ret(w)
    BY <1>1, <1>2, SetFacts, IdleFacts, GotoFacts, CloseFacts, TypedFacts DEF
       HandlerReturns, TypeOK, ThreadsAgree, UserAgrees, WorkerAgrees, At, On, Job, Ret,
       Thread, Pc, HandlerPc, ClosePc, Endpoint
  <1>4. /\ At(w) = "received"
    BY <1>1, <1>2, <1>3, SetFacts DEF HandlerReturns, TypeOK, ThreadsAgree, UserAgrees,
       WorkerAgrees, At, On, Job, Ret, ClosePc, HandlerPc
  <1>5. UNCHANGED <<os, stage, sent, wire, ended, fd, connected, attached, event, area,
                   eof, calls, announced, past>>
    BY DEF HandlerReturns, socketVars, peerVars, streamVars, loopVars, history
  <1>6. TypeOK'
    <2>1. QED
      BY <1>1, <1>3, <1>5 DEF TypeOK
  <1>7. ThreadsAgree'
    BY <1>1, <1>3, <1>4, <1>5, SetFacts DEF IInv, ThreadsTyped, ThreadsAgree,
       EarlyUntouched, Works, UserAgrees, WorkerAgrees, Early, HandlerPc, ClosePc
  <1>8. HandlersSerialised'
    BY <1>1, <1>3, <1>4, <1>5, SetFacts DEF IInv, ThreadsTyped, HandlersSerialised,
       ThreadsAgree, InHandler, UserAgrees, WorkerAgrees, HandlerPc, ClosePc
  <1>9. InOneTask'
    BY <1>1, <1>3, <1>4, <1>5, SetFacts DEF IInv, ThreadsTyped, InOneTask, ThreadsAgree,
       OpenedAlone, Registers, UserAgrees, WorkerAgrees, HandlerPc, ClosePc
  <1>10. EarlyUntouched'
    BY <1>1, <1>3, <1>4, <1>5, SetFacts DEF IInv, ThreadsTyped, EarlyUntouched,
       ThreadsAgree, HandlersSerialised, OpenedAlone, InHandler, Works, Registers,
       UserAgrees, WorkerAgrees, Early, HandlerPc, ClosePc
  <1>11. OpenedAlone'
    BY <1>1, <1>3, <1>4, <1>5, SetFacts DEF IInv, ThreadsTyped, OpenedAlone, ThreadsAgree,
       HandlersSerialised, EarlyUntouched, InOneTask, DestroyedAlone, InHandler, Works,
       Registers, Drops, UserAgrees, WorkerAgrees, Early, HandlerPc, ClosePc
  <1>12. DestroyedAlone'
    BY <1>1, <1>3, <1>4, <1>5, SetFacts DEF IInv, ThreadsTyped, DestroyedAlone,
       ThreadsAgree, EarlyUntouched, OpenedAlone, Works, Registers, Drops, UserAgrees,
       WorkerAgrees, Early, HandlerPc, ClosePc
  <1>13. NumbersKept'
    BY <1>1, <1>3, <1>4, <1>5, SetFacts DEF IInv, ValuesTyped, ThreadsTyped, NumbersKept,
       ThreadsAgree, EarlyUntouched, DestroyedAlone, ClosersAgree, Works, Drops, UserAgrees,
       WorkerAgrees, Early, HandlerPc, ClosePc
  <1>14. ClosersAgree'
    BY <1>1, <1>3, <1>4, <1>5, SetFacts DEF IInv, ThreadsTyped, ClosersAgree, ThreadsAgree,
       EarlyUntouched, DestroyedAlone, Works, Drops, UserAgrees, WorkerAgrees, Early,
       HandlerPc, ClosePc
  <1>15. OwnersAgree'
    BY <1>1, <1>3, <1>4, <1>5, SetFacts DEF IInv, ValuesTyped, ThreadsTyped, OwnersAgree,
       ThreadsAgree, EarlyUntouched, NumbersKept, ClosersAgree, Owner, Works, UserAgrees,
       WorkerAgrees, Early, HandlerPc, ClosePc
  <1>16. OneEnds'
    BY <1>1, <1>3, <1>4, <1>5, SetFacts DEF IInv, ThreadsTyped, OneEnds, ThreadsAgree, Ends,
       UserAgrees, WorkerAgrees, HandlerPc, ClosePc
  <1>17. EndsAnnounced'
    BY <1>1, <1>3, <1>4, <1>5, SetFacts DEF IInv, ValuesTyped, ThreadsTyped, EndsAnnounced,
       ThreadsAgree, EarlyUntouched, OneEnds, ClosersAgree, Works, Ends, UserAgrees,
       WorkerAgrees, Early, HandlerPc, ClosePc
  <1>18. DestroyedCloses'
    BY <1>1, <1>3, <1>4, <1>5, SetFacts DEF IInv, ThreadsTyped, DestroyedCloses,
       ThreadsAgree, EarlyUntouched, ClosersAgree, Works, Closes, UserAgrees, WorkerAgrees,
       Early, HandlerPc, ClosePc
  <1>19. StreamsGood'
    BY <1>1, <1>3, <1>4, <1>5, SetFacts DEF IInv, ThreadsTyped, StreamsGood, ThreadsAgree,
       HandlersSerialised, EarlyUntouched, InHandler, Works, UserAgrees, WorkerAgrees,
       Early, Blamed, HandlerPc, ClosePc
  <1>20. ReadinessKept'
    BY <1>1, <1>3, <1>4, <1>5, SetFacts DEF IInv, ValuesTyped, ThreadsTyped, ReadinessKept,
       ThreadsAgree, InOneTask, EarlyUntouched, OwnersAgree, ClosersAgree, Owner, Works,
       UserAgrees, WorkerAgrees, Early, Blamed, HandlerPc, ClosePc
  <1>21. Bounded' /\ NoneCut'
    BY <1>3, <1>5, SetFacts DEF IInv, Bounded, NoneCut, Blamed
  <1>22. SeenTo'
    BY <1>1, <1>2, <1>3, <1>4, <1>5, SetFacts DEF IInv, ThreadsTyped, ValuesTyped, SeenTo,
       Watched, Opens, Closing, Held, Accepts, Releases, Registers, Closes, ThreadsAgree,
       UserAgrees, WorkerAgrees, HandlerPc, ClosePc
  <1>23. QED
    BY <1>6, <1>7, <1>8, <1>9, <1>10, <1>11, <1>12, <1>13, <1>14, <1>15, <1>16, <1>17,
       <1>18, <1>19, <1>20, <1>21, <1>22 DEF IInv

LEMMA UserClosesInv ==
    ASSUME IInv, NEW u \in User, NEW e \in Endpoint, UserCloses(u, e)
    PROVE  IInv'
  <1>1. TypeOK
    BY DEF IInv
  <1>2. ThreadsAgree
    BY DEF IInv
  <1>3. /\ u \in Actor
        /\ thread' \in [Actor -> Thread]
        /\ ThreadsTyped /\ ValuesTyped
        /\ \A b \in Actor : b # u => At(b)' = At(b) /\ On(b)' = On(b)
              /\ Job(b)' = Job(b) /\ Ret(b)' = Ret(b)
        /\ At(u)' = "close"
        /\ On(u)' = e
        /\ Ret(u)' = "idle"
    <2>1. /\ u \in Actor /\ ThreadsTyped /\ ValuesTyped
          /\ thread \in [Actor -> Thread] /\ Idle \in Thread
      BY <1>1, SetFacts, IdleFacts, TypedFacts DEF TypeOK
    <2>2. thread[u] \in Thread
      BY <2>1
    <2>3. thread' = [thread EXCEPT ![u] = thread'[u]]
      BY <2>1, <2>2 DEF UserCloses, CallClose
    <2>4. /\ thread'[u].pc = "close"
          /\ thread'[u].on = e
          /\ thread'[u].job = Free
          /\ thread'[u].ret = "idle"
      BY <2>1, <2>2, IdleFacts DEF UserCloses, CallClose, Idle, Thread, Job, At
    <2>5. thread'[u] \in Thread
      BY <1>1, <1>2, <2>1, <2>2, IdleFacts, SetFacts DEF UserCloses, CallClose, MayCall,
         Thread, Pc, ClosePc, HandlerPc, Idle, Job, At, ThreadsAgree, WorkerAgrees, Endpoint
    <2>6. \A b \in Actor : b # u => thread'[b] = thread[b]
      BY <2>1, <2>3
    <2>7. thread' \in [Actor -> Thread]
      BY <2>1, <2>3, <2>5
    <2>8. At(u) \in Pc /\ Job(u) \in Endpoint \union {Free}
      BY <2>1 DEF ThreadsTyped
    <2>9. QED
      BY <1>2, <2>1, <2>4, <2>6, <2>7, IdleFacts, SetFacts DEF UserCloses, MayCall, At, On,
         Job, Ret, ThreadsAgree, UserAgrees
  <1>4. /\ At(u) = "idle"
        /\ stage[e] = "open"
        /\ ~ Opening(e)
        /\ calls' = calls + 1 /\ calls < MaxCalls
    BY <1>1, <1>2, <1>3, SetFacts DEF UserCloses, TypeOK, ThreadsAgree, UserAgrees,
       WorkerAgrees, At, On, Job, Ret, MayCall, CallClose, ClosePc, HandlerPc
  <1>5. UNCHANGED <<os, stage, sent, wire, ended, fd, connected, attached, event, area,
                   eof, announced, past>>
    BY DEF UserCloses, socketVars, peerVars, streamVars, loopVars, history, CallClose
  <1>6. TypeOK'
    <2>1. calls' \in 0..MaxCalls
      BY <1>1, <1>2, <1>3, <1>4, SetFacts, BoundAssumption DEF UserCloses, TypeOK, Bounded,
         IInv, ThreadsAgree, UserAgrees, WorkerAgrees, At, On, Job, Ret, Stage, EventPlace,
         Mishap, HandlerPc, ClosePc, CallClose, MayCall
    <2>2. QED
      BY <1>1, <1>3, <1>5, <2>1 DEF TypeOK
  <1>7. ThreadsAgree'
    BY <1>1, <1>3, <1>4, <1>5, SetFacts DEF IInv, ThreadsTyped, ThreadsAgree,
       EarlyUntouched, InHandler, Opening, Works, UserAgrees, WorkerAgrees, Early,
       HandlerPc, ClosePc
  <1>8. HandlersSerialised'
    BY <1>1, <1>3, <1>4, <1>5, SetFacts DEF IInv, ThreadsTyped, HandlersSerialised,
       ThreadsAgree, InHandler, Opening, UserAgrees, WorkerAgrees, HandlerPc, ClosePc
  <1>9. InOneTask'
    BY <1>1, <1>3, <1>4, <1>5, SetFacts DEF IInv, ThreadsTyped, InOneTask, ThreadsAgree,
       OpenedAlone, InHandler, Opening, Registers, UserAgrees, WorkerAgrees, HandlerPc,
       ClosePc
  <1>10. EarlyUntouched'
    BY <1>1, <1>3, <1>4, <1>5, SetFacts DEF IInv, ThreadsTyped, EarlyUntouched,
       ThreadsAgree, HandlersSerialised, OpenedAlone, InHandler, Opening, Works, Registers,
       UserAgrees, WorkerAgrees, Early, HandlerPc, ClosePc
  <1>11. OpenedAlone'
    <2>1. \A v \in Worker : On(v) = e => ~ Registers(v)
      BY <1>4 DEF Opening, Registers, InHandler, HandlerPc, Ret
    <2>2. \A v \in Worker : v # u /\ Registers(v)' = Registers(v)
      BY <1>3, SetFacts DEF Registers
    <2>3. QED
      BY <1>3, <1>5, <2>1, <2>2, SetFacts DEF IInv, OpenedAlone
  <1>12. DestroyedAlone'
    BY <1>1, <1>3, <1>4, <1>5, SetFacts DEF IInv, ThreadsTyped, DestroyedAlone,
       ThreadsAgree, EarlyUntouched, OpenedAlone, InHandler, Opening, Works, Registers,
       Drops, UserAgrees, WorkerAgrees, Early, HandlerPc, ClosePc
  <1>13. NumbersKept'
    BY <1>1, <1>3, <1>4, <1>5, SetFacts DEF IInv, ValuesTyped, ThreadsTyped, NumbersKept,
       ThreadsAgree, EarlyUntouched, DestroyedAlone, ClosersAgree, InHandler, Opening,
       Works, Drops, UserAgrees, WorkerAgrees, Early, HandlerPc, ClosePc
  <1>14. ClosersAgree'
    BY <1>1, <1>3, <1>4, <1>5, SetFacts DEF IInv, ThreadsTyped, ClosersAgree, ThreadsAgree,
       EarlyUntouched, DestroyedAlone, InHandler, Opening, Works, Drops, UserAgrees,
       WorkerAgrees, Early, HandlerPc, ClosePc
  <1>15. OwnersAgree'
    BY <1>1, <1>3, <1>4, <1>5, SetFacts DEF IInv, ValuesTyped, ThreadsTyped, OwnersAgree,
       ThreadsAgree, EarlyUntouched, NumbersKept, ClosersAgree, Owner, InHandler, Opening,
       Works, UserAgrees, WorkerAgrees, Early, HandlerPc, ClosePc
  <1>16. OneEnds'
    BY <1>1, <1>3, <1>4, <1>5, SetFacts DEF IInv, ThreadsTyped, OneEnds, ThreadsAgree,
       InHandler, Opening, Ends, UserAgrees, WorkerAgrees, HandlerPc, ClosePc
  <1>17. EndsAnnounced'
    BY <1>1, <1>3, <1>4, <1>5, SetFacts DEF IInv, ValuesTyped, ThreadsTyped, EndsAnnounced,
       ThreadsAgree, EarlyUntouched, OneEnds, ClosersAgree, InHandler, Opening, Works, Ends,
       UserAgrees, WorkerAgrees, Early, HandlerPc, ClosePc
  <1>18. DestroyedCloses'
    BY <1>1, <1>3, <1>4, <1>5, SetFacts DEF IInv, ThreadsTyped, DestroyedCloses,
       ThreadsAgree, EarlyUntouched, ClosersAgree, InHandler, Opening, Works, Closes,
       UserAgrees, WorkerAgrees, Early, HandlerPc, ClosePc
  <1>19. StreamsGood'
    BY <1>1, <1>3, <1>4, <1>5, SetFacts DEF IInv, ThreadsTyped, StreamsGood, ThreadsAgree,
       HandlersSerialised, EarlyUntouched, InHandler, Opening, Works, UserAgrees,
       WorkerAgrees, Early, Blamed, HandlerPc, ClosePc
  <1>20. ReadinessKept'
    BY <1>1, <1>3, <1>4, <1>5, SetFacts DEF IInv, ValuesTyped, ThreadsTyped, ReadinessKept,
       ThreadsAgree, InOneTask, EarlyUntouched, OwnersAgree, ClosersAgree, Owner, InHandler,
       Opening, Works, UserAgrees, WorkerAgrees, Early, Blamed, HandlerPc, ClosePc
  <1>21. Bounded' /\ NoneCut'
    BY <1>3, <1>5, SetFacts DEF IInv, Bounded, NoneCut, Blamed
  <1>22. SeenTo'
    BY <1>1, <1>2, <1>3, <1>4, <1>5, SetFacts DEF IInv, ThreadsTyped, ValuesTyped, SeenTo,
       Watched, Opens, Closing, Held, Accepts, Releases, Registers, Closes, ThreadsAgree,
       UserAgrees, WorkerAgrees, HandlerPc, ClosePc
  <1>23. QED
    BY <1>6, <1>7, <1>8, <1>9, <1>10, <1>11, <1>12, <1>13, <1>14, <1>15, <1>16, <1>17,
       <1>18, <1>19, <1>20, <1>21, <1>22 DEF IInv

LEMMA UserDestroysInv ==
    ASSUME IInv, NEW u \in User, NEW e \in Endpoint, UserDestroys(u, e)
    PROVE  IInv'
  <1>1. TypeOK
    BY DEF IInv
  <1>2. ThreadsAgree
    BY DEF IInv
  <1>3. /\ u \in Actor
        /\ thread' \in [Actor -> Thread]
        /\ ThreadsTyped /\ ValuesTyped
        /\ \A b \in Actor : b # u => At(b)' = At(b) /\ On(b)' = On(b)
              /\ Job(b)' = Job(b) /\ Ret(b)' = Ret(b)
        /\ At(u)' = "close"
        /\ On(u)' = e
        /\ Ret(u)' = "drop"
    <2>1. /\ u \in Actor /\ ThreadsTyped /\ ValuesTyped
          /\ thread \in [Actor -> Thread] /\ Idle \in Thread
      BY <1>1, SetFacts, IdleFacts, TypedFacts DEF TypeOK
    <2>2. thread[u] \in Thread
      BY <2>1
    <2>3. thread' = [thread EXCEPT ![u] = thread'[u]]
      BY <2>1, <2>2 DEF UserDestroys, CallClose
    <2>4. /\ thread'[u].pc = "close"
          /\ thread'[u].on = e
          /\ thread'[u].job = Free
          /\ thread'[u].ret = "drop"
      BY <2>1, <2>2, IdleFacts DEF UserDestroys, CallClose, Idle, Thread, Job, At
    <2>5. thread'[u] \in Thread
      BY <1>1, <1>2, <2>1, <2>2, IdleFacts, SetFacts DEF UserDestroys, CallClose, MayCall,
         Thread, Pc, ClosePc, HandlerPc, Idle, Job, At, ThreadsAgree, WorkerAgrees, Endpoint
    <2>6. \A b \in Actor : b # u => thread'[b] = thread[b]
      BY <2>1, <2>3
    <2>7. thread' \in [Actor -> Thread]
      BY <2>1, <2>3, <2>5
    <2>8. At(u) \in Pc /\ Job(u) \in Endpoint \union {Free}
      BY <2>1 DEF ThreadsTyped
    <2>9. QED
      BY <1>2, <2>1, <2>4, <2>6, <2>7, IdleFacts, SetFacts DEF UserDestroys, MayCall, At,
         On, Job, Ret, ThreadsAgree, UserAgrees
  <1>4. /\ At(u) = "idle"
        /\ stage[e] = "open"
        /\ ~ Opening(e)
        /\ MayLock(u)
        /\ \A v \in User : On(v) # e
        /\ calls' = calls + 1 /\ calls < MaxCalls
        /\ \A x \in Endpoint : attached'[x] <=> x # e /\ attached[x]
        /\ \A x \in Endpoint : stage'[x] = IF x = e THEN "destroyed" ELSE stage[x]
    BY <1>1, <1>2, <1>3, SetFacts DEF UserDestroys, TypeOK, ThreadsAgree, UserAgrees,
       WorkerAgrees, At, On, Job, Ret, MayCall, CallClose, ClosePc, HandlerPc
  <1>5. UNCHANGED <<os, sent, wire, ended, fd, connected, event, area, eof, announced, past>>
    BY DEF UserDestroys, peerVars, streamVars, history, CallClose
  <1>6. TypeOK'
    <2>1. calls' \in 0..MaxCalls
      BY <1>1, <1>2, <1>3, <1>4, SetFacts, BoundAssumption DEF UserDestroys, TypeOK,
         Bounded, IInv, ThreadsAgree, UserAgrees, WorkerAgrees, At, On, Job, Ret, Stage,
         EventPlace, Mishap, HandlerPc, ClosePc, CallClose, MayCall
    <2>2. attached' \in [Endpoint -> BOOLEAN]
      BY <1>1, <1>2, <1>3, <1>4, SetFacts, BoundAssumption DEF UserDestroys, TypeOK,
         Bounded, IInv, ThreadsAgree, UserAgrees, WorkerAgrees, At, On, Job, Ret, Stage,
         EventPlace, Mishap, HandlerPc, ClosePc, CallClose, MayCall
    <2>3. stage' \in [Endpoint -> Stage]
      BY <1>1, <1>2, <1>3, <1>4, SetFacts, BoundAssumption DEF UserDestroys, TypeOK,
         Bounded, IInv, ThreadsAgree, UserAgrees, WorkerAgrees, At, On, Job, Ret, Stage,
         EventPlace, Mishap, HandlerPc, ClosePc, CallClose, MayCall
    <2>4. QED
      BY <1>1, <1>3, <1>5, <2>1, <2>2, <2>3 DEF TypeOK
  <1>7. ThreadsAgree'
    BY <1>1, <1>3, <1>4, <1>5, SetFacts DEF IInv, ThreadsTyped, ThreadsAgree,
       EarlyUntouched, InHandler, MayLock, Opening, Works, UserAgrees, WorkerAgrees, Early,
       HandlerPc, ClosePc
  <1>8. HandlersSerialised'
    BY <1>1, <1>3, <1>4, <1>5, SetFacts DEF IInv, ThreadsTyped, HandlersSerialised,
       ThreadsAgree, InHandler, MayLock, Opening, UserAgrees, WorkerAgrees, HandlerPc,
       ClosePc
  <1>9. InOneTask'
    BY <1>1, <1>3, <1>4, <1>5, SetFacts DEF IInv, ThreadsTyped, InOneTask, ThreadsAgree,
       OpenedAlone, InHandler, MayLock, Opening, Registers, UserAgrees, WorkerAgrees,
       HandlerPc, ClosePc
  <1>10. EarlyUntouched'
    BY <1>1, <1>3, <1>4, <1>5, SetFacts DEF IInv, ThreadsTyped, EarlyUntouched,
       ThreadsAgree, HandlersSerialised, OpenedAlone, InHandler, MayLock, Opening, Works,
       Registers, UserAgrees, WorkerAgrees, Early, HandlerPc, ClosePc
  <1>11. OpenedAlone'
    BY <1>1, <1>3, <1>4, <1>5, SetFacts DEF IInv, ThreadsTyped, OpenedAlone, ThreadsAgree,
       HandlersSerialised, EarlyUntouched, InOneTask, DestroyedAlone, InHandler, MayLock,
       Opening, Works, Registers, Drops, UserAgrees, WorkerAgrees, Early, HandlerPc, ClosePc
  <1>12. DestroyedAlone'
    BY <1>1, <1>3, <1>4, <1>5, SetFacts DEF IInv, ThreadsTyped, DestroyedAlone,
       ThreadsAgree, EarlyUntouched, OpenedAlone, InHandler, MayLock, Opening, Works,
       Registers, Drops, UserAgrees, WorkerAgrees, Early, HandlerPc, ClosePc
  <1>13. NumbersKept'
    BY <1>1, <1>3, <1>4, <1>5, SetFacts DEF IInv, ValuesTyped, ThreadsTyped, NumbersKept,
       ThreadsAgree, EarlyUntouched, DestroyedAlone, ClosersAgree, InHandler, MayLock,
       Opening, Works, Drops, UserAgrees, WorkerAgrees, Early, HandlerPc, ClosePc
  <1>14. ClosersAgree'
    BY <1>1, <1>3, <1>4, <1>5, SetFacts DEF IInv, ThreadsTyped, ClosersAgree, ThreadsAgree,
       EarlyUntouched, DestroyedAlone, InHandler, MayLock, Opening, Works, Drops,
       UserAgrees, WorkerAgrees, Early, HandlerPc, ClosePc
  <1>15. OwnersAgree'
    BY <1>1, <1>3, <1>4, <1>5, SetFacts DEF IInv, ValuesTyped, ThreadsTyped, OwnersAgree,
       ThreadsAgree, EarlyUntouched, NumbersKept, ClosersAgree, Owner, InHandler, MayLock,
       Opening, Works, UserAgrees, WorkerAgrees, Early, HandlerPc, ClosePc
  <1>16. OneEnds'
    BY <1>1, <1>3, <1>4, <1>5, SetFacts DEF IInv, ThreadsTyped, OneEnds, ThreadsAgree,
       InHandler, MayLock, Opening, Ends, UserAgrees, WorkerAgrees, HandlerPc, ClosePc
  <1>17. EndsAnnounced'
    BY <1>1, <1>3, <1>4, <1>5, SetFacts DEF IInv, ValuesTyped, ThreadsTyped, EndsAnnounced,
       ThreadsAgree, EarlyUntouched, OneEnds, ClosersAgree, InHandler, MayLock, Opening,
       Works, Ends, UserAgrees, WorkerAgrees, Early, HandlerPc, ClosePc
  <1>18. DestroyedCloses'
    BY <1>1, <1>3, <1>4, <1>5, SetFacts DEF IInv, ThreadsTyped, DestroyedCloses,
       ThreadsAgree, EarlyUntouched, ClosersAgree, InHandler, MayLock, Opening, Works,
       Closes, UserAgrees, WorkerAgrees, Early, HandlerPc, ClosePc
  <1>19. StreamsGood'
    BY <1>1, <1>3, <1>4, <1>5, SetFacts DEF IInv, ThreadsTyped, StreamsGood, ThreadsAgree,
       HandlersSerialised, EarlyUntouched, InHandler, MayLock, Opening, Works, UserAgrees,
       WorkerAgrees, Early, Blamed, HandlerPc, ClosePc
  <1>20. ReadinessKept'
    BY <1>1, <1>3, <1>4, <1>5, SetFacts DEF IInv, ValuesTyped, ThreadsTyped, ReadinessKept,
       ThreadsAgree, InOneTask, EarlyUntouched, OwnersAgree, ClosersAgree, Owner, InHandler,
       MayLock, Opening, Works, UserAgrees, WorkerAgrees, Early, Blamed, HandlerPc, ClosePc
  <1>21. Bounded' /\ NoneCut'
    BY <1>3, <1>5, SetFacts DEF IInv, Bounded, NoneCut, Blamed
  <1>22. SeenTo'
    BY <1>1, <1>2, <1>3, <1>4, <1>5, SetFacts DEF IInv, ThreadsTyped, ValuesTyped, SeenTo,
       Watched, Opens, Closing, Held, Accepts, Releases, Registers, Closes, ThreadsAgree,
       UserAgrees, WorkerAgrees, HandlerPc, ClosePc
  <1>23. QED
    BY <1>6, <1>7, <1>8, <1>9, <1>10, <1>11, <1>12, <1>13, <1>14, <1>15, <1>16, <1>17,
       <1>18, <1>19, <1>20, <1>21, <1>22 DEF IInv

LEMMA CloseInv ==
    ASSUME IInv, NEW a \in Actor, Close(a)
    PROVE  IInv'
  <1>1. TypeOK
    BY DEF IInv
  <1>2. ThreadsAgree
    BY DEF IInv
  <1>3. /\ a \in Actor
        /\ thread' \in [Actor -> Thread]
        /\ ThreadsTyped /\ ValuesTyped
        /\ \A b \in Actor : b # a => At(b)' = At(b) /\ On(b)' = On(b)
              /\ Job(b)' = Job(b) /\ Ret(b)' = Ret(b)
        /\ IF connected[On(a)] THEN (At(a)' = "clear" /\ On(a)' = On(a)
              /\ Job(a)' = Job(a) /\ Ret(a)' = Ret(a))
           ELSE IF Ret(a) = "idle"
                THEN At(a)' = "idle" /\ On(a)' = Free /\ Job(a)' = Free /\ Ret(a)' = "idle"
                ELSE At(a)' = Ret(a) /\ On(a)' = On(a) /\ Job(a)' = Job(a) /\ Ret(a)' = Ret(a)
    BY <1>1, <1>2, SetFacts, IdleFacts, GotoFacts, CloseFacts, TypedFacts DEF Close, TypeOK,
       ThreadsAgree, UserAgrees, WorkerAgrees, At, On, Job, Ret, Thread, Pc, HandlerPc,
       ClosePc, Endpoint
  <1>4. /\ At(a) = "close"
    BY <1>1, <1>2, <1>3, SetFacts DEF Close, TypeOK, ThreadsAgree, UserAgrees, WorkerAgrees,
       At, On, Job, Ret, ClosePc, HandlerPc
  <1>5. UNCHANGED <<os, stage, sent, wire, ended, fd, connected, attached, event, area,
                   eof, calls, announced, past>>
    BY DEF Close, socketVars, peerVars, streamVars, loopVars, history
  <1>6. TypeOK'
    <2>1. QED
      BY <1>1, <1>3, <1>5 DEF TypeOK
  <1>7. ThreadsAgree'
    BY <1>1, <1>3, <1>4, <1>5, SetFacts DEF IInv, ThreadsTyped, ThreadsAgree,
       EarlyUntouched, Works, UserAgrees, WorkerAgrees, Early, HandlerPc, ClosePc
  <1>8. HandlersSerialised'
    BY <1>1, <1>3, <1>4, <1>5, SetFacts DEF IInv, ThreadsTyped, HandlersSerialised,
       ThreadsAgree, InHandler, UserAgrees, WorkerAgrees, HandlerPc, ClosePc
  <1>9. InOneTask'
    BY <1>1, <1>3, <1>4, <1>5, SetFacts DEF IInv, ThreadsTyped, InOneTask, ThreadsAgree,
       OpenedAlone, Registers, UserAgrees, WorkerAgrees, HandlerPc, ClosePc
  <1>10. EarlyUntouched'
    BY <1>1, <1>3, <1>4, <1>5, SetFacts DEF IInv, ThreadsTyped, EarlyUntouched,
       ThreadsAgree, HandlersSerialised, OpenedAlone, InHandler, Works, Registers,
       UserAgrees, WorkerAgrees, Early, HandlerPc, ClosePc
  <1>11. OpenedAlone'
    BY <1>1, <1>3, <1>4, <1>5, SetFacts DEF IInv, ThreadsTyped, OpenedAlone, ThreadsAgree,
       HandlersSerialised, EarlyUntouched, InOneTask, DestroyedAlone, InHandler, Works,
       Registers, Drops, UserAgrees, WorkerAgrees, Early, HandlerPc, ClosePc
  <1>12. DestroyedAlone'
    BY <1>1, <1>3, <1>4, <1>5, SetFacts DEF IInv, ThreadsTyped, DestroyedAlone,
       ThreadsAgree, EarlyUntouched, OpenedAlone, Works, Registers, Drops, UserAgrees,
       WorkerAgrees, Early, HandlerPc, ClosePc
  <1>13. NumbersKept'
    BY <1>1, <1>3, <1>4, <1>5, SetFacts DEF IInv, ValuesTyped, ThreadsTyped, NumbersKept,
       ThreadsAgree, EarlyUntouched, DestroyedAlone, ClosersAgree, Works, Drops, UserAgrees,
       WorkerAgrees, Early, HandlerPc, ClosePc
  <1>14. ClosersAgree'
    BY <1>1, <1>3, <1>4, <1>5, SetFacts DEF IInv, ThreadsTyped, ClosersAgree, ThreadsAgree,
       EarlyUntouched, DestroyedAlone, Works, Drops, UserAgrees, WorkerAgrees, Early,
       HandlerPc, ClosePc
  <1>15. OwnersAgree'
    BY <1>1, <1>3, <1>4, <1>5, SetFacts DEF IInv, ValuesTyped, ThreadsTyped, OwnersAgree,
       ThreadsAgree, EarlyUntouched, NumbersKept, ClosersAgree, Owner, Works, UserAgrees,
       WorkerAgrees, Early, HandlerPc, ClosePc
  <1>16. OneEnds'
    BY <1>1, <1>3, <1>4, <1>5, SetFacts DEF IInv, ThreadsTyped, OneEnds, ThreadsAgree, Ends,
       UserAgrees, WorkerAgrees, HandlerPc, ClosePc
  <1>17. EndsAnnounced'
    BY <1>1, <1>3, <1>4, <1>5, SetFacts DEF IInv, ValuesTyped, ThreadsTyped, EndsAnnounced,
       ThreadsAgree, EarlyUntouched, OneEnds, ClosersAgree, Works, Ends, UserAgrees,
       WorkerAgrees, Early, HandlerPc, ClosePc
  <1>18. DestroyedCloses'
    BY <1>1, <1>3, <1>4, <1>5, SetFacts DEF IInv, ThreadsTyped, DestroyedCloses,
       ThreadsAgree, EarlyUntouched, ClosersAgree, Works, Closes, UserAgrees, WorkerAgrees,
       Early, HandlerPc, ClosePc
  <1>19. StreamsGood'
    BY <1>1, <1>3, <1>4, <1>5, SetFacts DEF IInv, ThreadsTyped, StreamsGood, ThreadsAgree,
       HandlersSerialised, EarlyUntouched, InHandler, Works, UserAgrees, WorkerAgrees,
       Early, Blamed, HandlerPc, ClosePc
  <1>20. ReadinessKept'
    BY <1>1, <1>3, <1>4, <1>5, SetFacts DEF IInv, ValuesTyped, ThreadsTyped, ReadinessKept,
       ThreadsAgree, InOneTask, EarlyUntouched, OwnersAgree, ClosersAgree, Owner, Works,
       UserAgrees, WorkerAgrees, Early, Blamed, HandlerPc, ClosePc
  <1>21. Bounded' /\ NoneCut'
    BY <1>3, <1>5, SetFacts DEF IInv, Bounded, NoneCut, Blamed
  <1>22. SeenTo'
    BY <1>1, <1>2, <1>3, <1>4, <1>5, SetFacts DEF IInv, ThreadsTyped, ValuesTyped, SeenTo,
       Watched, Opens, Closing, Held, Accepts, Releases, Registers, Closes, ThreadsAgree,
       UserAgrees, WorkerAgrees, HandlerPc, ClosePc
  <1>23. QED
    BY <1>6, <1>7, <1>8, <1>9, <1>10, <1>11, <1>12, <1>13, <1>14, <1>15, <1>16, <1>17,
       <1>18, <1>19, <1>20, <1>21, <1>22 DEF IInv

LEMMA ClearInv ==
    ASSUME IInv, NEW a \in Actor, Clear(a)
    PROVE  IInv'
  <1>1. TypeOK
    BY DEF IInv
  <1>2. ThreadsAgree
    BY DEF IInv
  <1>3. /\ a \in Actor
        /\ thread' \in [Actor -> Thread]
        /\ ThreadsTyped /\ ValuesTyped
        /\ \A b \in Actor : b # a => At(b)' = At(b) /\ On(b)' = On(b)
              /\ Job(b)' = Job(b) /\ Ret(b)' = Ret(b)
        /\ At(a)' = "detach"
        /\ On(a)' = On(a)
        /\ Job(a)' = Job(a)
        /\ Ret(a)' = Ret(a)
    BY <1>1, <1>2, SetFacts, IdleFacts, GotoFacts, CloseFacts, TypedFacts DEF Clear, TypeOK,
       ThreadsAgree, UserAgrees, WorkerAgrees, At, On, Job, Ret, Thread, Pc, HandlerPc,
       ClosePc, Endpoint
  <1>4. /\ At(a) = "clear"
        /\ \A x \in Endpoint : connected'[x] <=> x # On(a) /\ connected[x]
        /\ past' = IF Racing(a) THEN past \union {"raced"} ELSE past
    BY <1>1, <1>2, <1>3, SetFacts DEF Clear, TypeOK, ThreadsAgree, UserAgrees, WorkerAgrees,
       At, On, Job, Ret, ClosePc, HandlerPc
  <1>5. UNCHANGED <<os, stage, sent, wire, ended, fd, attached, event, area, eof, calls,
                   announced>>
    BY DEF Clear, socketVars, peerVars, streamVars, loopVars
  <1>6. TypeOK'
    <2>1. connected' \in [Endpoint -> BOOLEAN]
      BY <1>1, <1>2, <1>3, <1>4, SetFacts, BoundAssumption DEF Clear, TypeOK, Bounded, IInv,
         ThreadsAgree, UserAgrees, WorkerAgrees, At, On, Job, Ret, Stage, EventPlace,
         Mishap, HandlerPc, ClosePc
    <2>2. past' \subseteq Mishap
      BY <1>1, <1>2, <1>3, <1>4, SetFacts, BoundAssumption DEF Clear, TypeOK, Bounded, IInv,
         ThreadsAgree, UserAgrees, WorkerAgrees, At, On, Job, Ret, Stage, EventPlace,
         Mishap, HandlerPc, ClosePc
    <2>3. QED
      BY <1>1, <1>3, <1>5, <2>1, <2>2 DEF TypeOK
  <1>7. ThreadsAgree'
    BY <1>1, <1>3, <1>4, <1>5, SetFacts DEF IInv, ThreadsTyped, ThreadsAgree,
       EarlyUntouched, Racing, Works, UserAgrees, WorkerAgrees, Early, HandlerPc, ClosePc
  <1>8. HandlersSerialised'
    BY <1>1, <1>3, <1>4, <1>5, SetFacts DEF IInv, ThreadsTyped, HandlersSerialised,
       ThreadsAgree, InHandler, Racing, UserAgrees, WorkerAgrees, HandlerPc, ClosePc
  <1>9. InOneTask'
    BY <1>1, <1>3, <1>4, <1>5, SetFacts DEF IInv, ThreadsTyped, InOneTask, ThreadsAgree,
       OpenedAlone, Racing, Registers, UserAgrees, WorkerAgrees, HandlerPc, ClosePc
  <1>10. EarlyUntouched'
    BY <1>1, <1>3, <1>4, <1>5, SetFacts DEF IInv, ThreadsTyped, EarlyUntouched,
       ThreadsAgree, HandlersSerialised, OpenedAlone, InHandler, Racing, Works, Registers,
       UserAgrees, WorkerAgrees, Early, HandlerPc, ClosePc
  <1>11. OpenedAlone'
    BY <1>1, <1>3, <1>4, <1>5, SetFacts DEF IInv, ThreadsTyped, OpenedAlone, ThreadsAgree,
       HandlersSerialised, EarlyUntouched, InOneTask, DestroyedAlone, InHandler, Racing,
       Works, Registers, Drops, UserAgrees, WorkerAgrees, Early, HandlerPc, ClosePc
  <1>12. DestroyedAlone'
    BY <1>1, <1>3, <1>4, <1>5, SetFacts DEF IInv, ThreadsTyped, DestroyedAlone,
       ThreadsAgree, EarlyUntouched, OpenedAlone, Racing, Works, Registers, Drops,
       UserAgrees, WorkerAgrees, Early, HandlerPc, ClosePc
  <1>13. NumbersKept'
    BY <1>1, <1>3, <1>4, <1>5, SetFacts DEF IInv, ValuesTyped, ThreadsTyped, NumbersKept,
       ThreadsAgree, EarlyUntouched, DestroyedAlone, ClosersAgree, Racing, Works, Drops,
       UserAgrees, WorkerAgrees, Early, HandlerPc, ClosePc
  <1>14. ClosersAgree'
    BY <1>1, <1>3, <1>4, <1>5, SetFacts DEF IInv, ThreadsTyped, ClosersAgree, ThreadsAgree,
       EarlyUntouched, DestroyedAlone, Racing, Works, Drops, UserAgrees, WorkerAgrees,
       Early, HandlerPc, ClosePc
  <1>15. OwnersAgree'
    BY <1>1, <1>3, <1>4, <1>5, SetFacts DEF IInv, ValuesTyped, ThreadsTyped, OwnersAgree,
       ThreadsAgree, EarlyUntouched, NumbersKept, ClosersAgree, Owner, Racing, Works,
       UserAgrees, WorkerAgrees, Early, HandlerPc, ClosePc
  <1>16. OneEnds'
    BY <1>1, <1>3, <1>4, <1>5, SetFacts DEF IInv, ThreadsTyped, OneEnds, ThreadsAgree,
       Racing, Ends, UserAgrees, WorkerAgrees, HandlerPc, ClosePc
  <1>17. EndsAnnounced'
    BY <1>1, <1>3, <1>4, <1>5, SetFacts DEF IInv, ValuesTyped, ThreadsTyped, EndsAnnounced,
       ThreadsAgree, EarlyUntouched, OneEnds, ClosersAgree, Racing, Works, Ends, UserAgrees,
       WorkerAgrees, Early, HandlerPc, ClosePc
  <1>18. DestroyedCloses'
    BY <1>1, <1>3, <1>4, <1>5, SetFacts DEF IInv, ThreadsTyped, DestroyedCloses,
       ThreadsAgree, EarlyUntouched, ClosersAgree, Racing, Works, Closes, UserAgrees,
       WorkerAgrees, Early, HandlerPc, ClosePc
  <1>19. StreamsGood'
    BY <1>1, <1>3, <1>4, <1>5, SetFacts DEF IInv, ThreadsTyped, StreamsGood, ThreadsAgree,
       HandlersSerialised, EarlyUntouched, InHandler, Racing, Works, UserAgrees,
       WorkerAgrees, Early, Blamed, HandlerPc, ClosePc
  <1>20. ReadinessKept'
    BY <1>1, <1>3, <1>4, <1>5, SetFacts DEF IInv, ValuesTyped, ThreadsTyped, ReadinessKept,
       ThreadsAgree, InOneTask, EarlyUntouched, OwnersAgree, ClosersAgree, Owner, Racing,
       Works, UserAgrees, WorkerAgrees, Early, Blamed, HandlerPc, ClosePc
  <1>21. NoneCut'
    BY <1>1, <1>3, <1>4, <1>5, SetFacts DEF IInv, ValuesTyped, ThreadsTyped, NoneCut,
       ThreadsAgree, StreamsGood, ReadinessKept, OwnersAgree, Owner, Racing, UserAgrees,
       WorkerAgrees, Blamed, HandlerPc, ClosePc
  <1>22. Bounded'
    BY <1>3, <1>5, SetFacts DEF IInv, Bounded
  <1>23. SeenTo'
    BY <1>1, <1>2, <1>3, <1>4, <1>5, SetFacts DEF IInv, ThreadsTyped, ValuesTyped, SeenTo,
       Watched, Opens, Closing, Held, Accepts, Releases, Registers, Closes, ThreadsAgree,
       UserAgrees, WorkerAgrees, HandlerPc, ClosePc
  <1>24. QED
    BY <1>6, <1>7, <1>8, <1>9, <1>10, <1>11, <1>12, <1>13, <1>14, <1>15, <1>16, <1>17,
       <1>18, <1>19, <1>20, <1>21, <1>22, <1>23 DEF IInv

LEMMA DetachInv ==
    ASSUME IInv, NEW a \in Actor, Detach(a)
    PROVE  IInv'
  <1>1. TypeOK
    BY DEF IInv
  <1>2. ThreadsAgree
    BY DEF IInv
  <1>3. /\ a \in Actor
        /\ thread' \in [Actor -> Thread]
        /\ ThreadsTyped /\ ValuesTyped
        /\ \A b \in Actor : b # a => At(b)' = At(b) /\ On(b)' = On(b)
              /\ Job(b)' = Job(b) /\ Ret(b)' = Ret(b)
        /\ At(a)' = "shut"
        /\ On(a)' = On(a)
        /\ Job(a)' = Job(a)
        /\ Ret(a)' = Ret(a)
    BY <1>1, <1>2, SetFacts, IdleFacts, GotoFacts, CloseFacts, TypedFacts DEF Detach,
       TypeOK, ThreadsAgree, UserAgrees, WorkerAgrees, At, On, Job, Ret, Thread, Pc,
       HandlerPc, ClosePc, Endpoint
  <1>4. /\ At(a) = "detach"
        /\ MayLock(a)
        /\ \A x \in Endpoint : attached'[x] <=> x # On(a) /\ attached[x]
    BY <1>1, <1>2, <1>3, SetFacts DEF Detach, TypeOK, ThreadsAgree, UserAgrees,
       WorkerAgrees, At, On, Job, Ret, ClosePc, HandlerPc
  <1>5. UNCHANGED <<os, stage, sent, wire, ended, fd, connected, event, area, eof, calls,
                   announced, past>>
    BY DEF Detach, socketVars, peerVars, streamVars, history
  <1>6. TypeOK'
    <2>1. attached' \in [Endpoint -> BOOLEAN]
      BY <1>1, <1>2, <1>3, <1>4, SetFacts, BoundAssumption DEF Detach, TypeOK, Bounded,
         IInv, ThreadsAgree, UserAgrees, WorkerAgrees, At, On, Job, Ret, Stage, EventPlace,
         Mishap, HandlerPc, ClosePc
    <2>2. QED
      BY <1>1, <1>3, <1>5, <2>1 DEF TypeOK
  <1>7. ThreadsAgree'
    BY <1>1, <1>3, <1>4, <1>5, SetFacts DEF IInv, ThreadsTyped, ThreadsAgree,
       EarlyUntouched, InHandler, MayLock, Works, UserAgrees, WorkerAgrees, Early,
       HandlerPc, ClosePc
  <1>8. HandlersSerialised'
    BY <1>1, <1>3, <1>4, <1>5, SetFacts DEF IInv, ThreadsTyped, HandlersSerialised,
       ThreadsAgree, InHandler, MayLock, UserAgrees, WorkerAgrees, HandlerPc, ClosePc
  <1>9. InOneTask'
    BY <1>1, <1>3, <1>4, <1>5, SetFacts DEF IInv, ThreadsTyped, InOneTask, ThreadsAgree,
       OpenedAlone, InHandler, MayLock, Registers, UserAgrees, WorkerAgrees, HandlerPc,
       ClosePc
  <1>10. EarlyUntouched'
    BY <1>1, <1>3, <1>4, <1>5, SetFacts DEF IInv, ThreadsTyped, EarlyUntouched,
       ThreadsAgree, HandlersSerialised, OpenedAlone, InHandler, MayLock, Works, Registers,
       UserAgrees, WorkerAgrees, Early, HandlerPc, ClosePc
  <1>11. OpenedAlone'
    BY <1>1, <1>3, <1>4, <1>5, SetFacts DEF IInv, ThreadsTyped, OpenedAlone, ThreadsAgree,
       HandlersSerialised, EarlyUntouched, InOneTask, DestroyedAlone, InHandler, MayLock,
       Works, Registers, Drops, UserAgrees, WorkerAgrees, Early, HandlerPc, ClosePc
  <1>12. DestroyedAlone'
    BY <1>1, <1>3, <1>4, <1>5, SetFacts DEF IInv, ThreadsTyped, DestroyedAlone,
       ThreadsAgree, EarlyUntouched, OpenedAlone, InHandler, MayLock, Works, Registers,
       Drops, UserAgrees, WorkerAgrees, Early, HandlerPc, ClosePc
  <1>13. NumbersKept'
    BY <1>1, <1>3, <1>4, <1>5, SetFacts DEF IInv, ValuesTyped, ThreadsTyped, NumbersKept,
       ThreadsAgree, EarlyUntouched, DestroyedAlone, ClosersAgree, InHandler, MayLock,
       Works, Drops, UserAgrees, WorkerAgrees, Early, HandlerPc, ClosePc
  <1>14. ClosersAgree'
    BY <1>1, <1>3, <1>4, <1>5, SetFacts DEF IInv, ThreadsTyped, ClosersAgree, ThreadsAgree,
       EarlyUntouched, DestroyedAlone, InHandler, MayLock, Works, Drops, UserAgrees,
       WorkerAgrees, Early, HandlerPc, ClosePc
  <1>15. OwnersAgree'
    BY <1>1, <1>3, <1>4, <1>5, SetFacts DEF IInv, ValuesTyped, ThreadsTyped, OwnersAgree,
       ThreadsAgree, EarlyUntouched, NumbersKept, ClosersAgree, Owner, InHandler, MayLock,
       Works, UserAgrees, WorkerAgrees, Early, HandlerPc, ClosePc
  <1>16. OneEnds'
    BY <1>1, <1>3, <1>4, <1>5, SetFacts DEF IInv, ThreadsTyped, OneEnds, ThreadsAgree,
       InHandler, MayLock, Ends, UserAgrees, WorkerAgrees, HandlerPc, ClosePc
  <1>17. EndsAnnounced'
    BY <1>1, <1>3, <1>4, <1>5, SetFacts DEF IInv, ValuesTyped, ThreadsTyped, EndsAnnounced,
       ThreadsAgree, EarlyUntouched, OneEnds, ClosersAgree, InHandler, MayLock, Works, Ends,
       UserAgrees, WorkerAgrees, Early, HandlerPc, ClosePc
  <1>18. DestroyedCloses'
    BY <1>1, <1>3, <1>4, <1>5, SetFacts DEF IInv, ThreadsTyped, DestroyedCloses,
       ThreadsAgree, EarlyUntouched, ClosersAgree, InHandler, MayLock, Works, Closes,
       UserAgrees, WorkerAgrees, Early, HandlerPc, ClosePc
  <1>19. StreamsGood'
    BY <1>1, <1>3, <1>4, <1>5, SetFacts DEF IInv, ThreadsTyped, StreamsGood, ThreadsAgree,
       HandlersSerialised, EarlyUntouched, InHandler, MayLock, Works, UserAgrees,
       WorkerAgrees, Early, Blamed, HandlerPc, ClosePc
  <1>20. ReadinessKept'
    BY <1>1, <1>3, <1>4, <1>5, SetFacts DEF IInv, ValuesTyped, ThreadsTyped, ReadinessKept,
       ThreadsAgree, InOneTask, EarlyUntouched, OwnersAgree, ClosersAgree, Owner, InHandler,
       MayLock, Works, UserAgrees, WorkerAgrees, Early, Blamed, HandlerPc, ClosePc
  <1>21. Bounded' /\ NoneCut'
    BY <1>3, <1>5, SetFacts DEF IInv, Bounded, NoneCut, Blamed
  <1>22. SeenTo'
    BY <1>1, <1>2, <1>3, <1>4, <1>5, SetFacts DEF IInv, ThreadsTyped, ValuesTyped, SeenTo,
       Watched, Opens, Closing, Held, Accepts, Releases, Registers, Closes, ThreadsAgree,
       UserAgrees, WorkerAgrees, HandlerPc, ClosePc
  <1>23. QED
    BY <1>6, <1>7, <1>8, <1>9, <1>10, <1>11, <1>12, <1>13, <1>14, <1>15, <1>16, <1>17,
       <1>18, <1>19, <1>20, <1>21, <1>22 DEF IInv

LEMMA ShutInv ==
    ASSUME IInv, NEW a \in Actor, Shut(a)
    PROVE  IInv'
  <1>1. TypeOK
    BY DEF IInv
  <1>2. ThreadsAgree
    BY DEF IInv
  <1>3. /\ a \in Actor
        /\ thread' \in [Actor -> Thread]
        /\ ThreadsTyped /\ ValuesTyped
        /\ \A b \in Actor : b # a => At(b)' = At(b) /\ On(b)' = On(b)
              /\ Job(b)' = Job(b) /\ Ret(b)' = Ret(b)
        /\ IF On(a) # Acceptor THEN (At(a)' = "announce" /\ On(a)' = On(a)
              /\ Job(a)' = Job(a) /\ Ret(a)' = Ret(a))
           ELSE IF Ret(a) = "idle"
                THEN At(a)' = "idle" /\ On(a)' = Free /\ Job(a)' = Free /\ Ret(a)' = "idle"
                ELSE At(a)' = Ret(a) /\ On(a)' = On(a) /\ Job(a)' = Job(a) /\ Ret(a)' = Ret(a)
    BY <1>1, <1>2, SetFacts, IdleFacts, GotoFacts, CloseFacts, TypedFacts DEF Shut, TypeOK,
       ThreadsAgree, UserAgrees, WorkerAgrees, At, On, Job, Ret, Thread, Pc, HandlerPc,
       ClosePc, Endpoint
  <1>4. /\ At(a) = "shut"
        /\ \A n \in Fd : os'[n] = IF n = fd[On(a)] THEN Free ELSE os[n]
        /\ \A x \in Conn : wire'[x] = IF Owner(On(a)) = x THEN 0 ELSE wire[x]
        /\ \A x \in Conn : ended'[x] <=> (Owner(On(a)) # x /\ ended[x])
        /\ past' = IF Owner(On(a)) \in {On(a), Free} THEN past ELSE past \union {"foreign"}
    BY <1>1, <1>2, <1>3, SetFacts DEF Shut, TypeOK, ThreadsAgree, UserAgrees, WorkerAgrees,
       At, On, Job, Ret, Release, ClosePc, HandlerPc
  <1>5. UNCHANGED <<stage, sent, fd, connected, attached, event, area, eof, calls, announced>>
    BY DEF Shut, streamVars, loopVars, Release
  <1>6. TypeOK'
    <2>1. os' \in [Fd -> Endpoint \union {Free}]
      BY <1>1, <1>2, <1>3, <1>4, SetFacts, BoundAssumption DEF Shut, TypeOK, Bounded, IInv,
         ThreadsAgree, UserAgrees, WorkerAgrees, At, On, Job, Ret, Release, Owner, Stage,
         EventPlace, Mishap, HandlerPc, ClosePc
    <2>2. wire' \in [Conn -> 0..MaxData]
      BY <1>1, <1>2, <1>3, <1>4, SetFacts, BoundAssumption DEF Shut, TypeOK, Bounded, IInv,
         ThreadsAgree, UserAgrees, WorkerAgrees, At, On, Job, Ret, Release, Owner, Stage,
         EventPlace, Mishap, HandlerPc, ClosePc
    <2>3. ended' \in [Conn -> BOOLEAN]
      BY <1>1, <1>2, <1>3, <1>4, SetFacts, BoundAssumption DEF Shut, TypeOK, Bounded, IInv,
         ThreadsAgree, UserAgrees, WorkerAgrees, At, On, Job, Ret, Release, Owner, Stage,
         EventPlace, Mishap, HandlerPc, ClosePc
    <2>4. past' \subseteq Mishap
      BY <1>1, <1>2, <1>3, <1>4, SetFacts, BoundAssumption DEF Shut, TypeOK, Bounded, IInv,
         ThreadsAgree, UserAgrees, WorkerAgrees, At, On, Job, Ret, Release, Owner, Stage,
         EventPlace, Mishap, HandlerPc, ClosePc
    <2>5. QED
      BY <1>1, <1>3, <1>5, <2>1, <2>2, <2>3, <2>4 DEF TypeOK
  <1>7. Bounded'
    BY <1>1, <1>3, <1>4, <1>5, SetFacts DEF IInv, ValuesTyped, ThreadsTyped, Bounded, Owner
  <1>8. ThreadsAgree'
    BY <1>1, <1>3, <1>4, <1>5, SetFacts DEF IInv, ThreadsTyped, ThreadsAgree,
       EarlyUntouched, Owner, Works, UserAgrees, WorkerAgrees, Early, HandlerPc, ClosePc
  <1>9. HandlersSerialised'
    BY <1>1, <1>3, <1>4, <1>5, SetFacts DEF IInv, ThreadsTyped, HandlersSerialised,
       ThreadsAgree, Owner, InHandler, UserAgrees, WorkerAgrees, HandlerPc, ClosePc
  <1>10. InOneTask'
    BY <1>1, <1>3, <1>4, <1>5, SetFacts DEF IInv, ThreadsTyped, InOneTask, ThreadsAgree,
       OpenedAlone, Owner, Registers, UserAgrees, WorkerAgrees, HandlerPc, ClosePc
  <1>11. EarlyUntouched'
    BY <1>1, <1>3, <1>4, <1>5, SetFacts DEF IInv, ThreadsTyped, EarlyUntouched,
       ThreadsAgree, HandlersSerialised, OpenedAlone, Owner, InHandler, Works, Registers,
       UserAgrees, WorkerAgrees, Early, HandlerPc, ClosePc
  <1>12. OpenedAlone'
    BY <1>1, <1>3, <1>4, <1>5, SetFacts DEF IInv, ThreadsTyped, OpenedAlone, ThreadsAgree,
       HandlersSerialised, EarlyUntouched, InOneTask, DestroyedAlone, Owner, InHandler,
       Works, Registers, Drops, UserAgrees, WorkerAgrees, Early, HandlerPc, ClosePc
  <1>13. DestroyedAlone'
    BY <1>1, <1>3, <1>4, <1>5, SetFacts DEF IInv, ThreadsTyped, DestroyedAlone,
       ThreadsAgree, EarlyUntouched, OpenedAlone, Owner, Works, Registers, Drops,
       UserAgrees, WorkerAgrees, Early, HandlerPc, ClosePc
  <1>14. NumbersKept'
    BY <1>1, <1>3, <1>4, <1>5, SetFacts DEF IInv, ValuesTyped, ThreadsTyped, NumbersKept,
       ThreadsAgree, EarlyUntouched, DestroyedAlone, ClosersAgree, Owner, Works, Drops,
       UserAgrees, WorkerAgrees, Early, HandlerPc, ClosePc
  <1>15. ClosersAgree'
    BY <1>1, <1>3, <1>4, <1>5, SetFacts DEF IInv, ThreadsTyped, ClosersAgree, ThreadsAgree,
       EarlyUntouched, DestroyedAlone, Owner, Works, Drops, UserAgrees, WorkerAgrees, Early,
       HandlerPc, ClosePc
  <1>16. OwnersAgree'
    BY <1>1, <1>3, <1>4, <1>5, SetFacts DEF IInv, ValuesTyped, ThreadsTyped, OwnersAgree,
       ThreadsAgree, EarlyUntouched, NumbersKept, ClosersAgree, Owner, Works, UserAgrees,
       WorkerAgrees, Early, HandlerPc, ClosePc
  <1>17. OneEnds'
    BY <1>1, <1>3, <1>4, <1>5, SetFacts DEF IInv, ThreadsTyped, OneEnds, ThreadsAgree,
       Owner, Ends, UserAgrees, WorkerAgrees, HandlerPc, ClosePc
  <1>18. EndsAnnounced'
    BY <1>1, <1>3, <1>4, <1>5, SetFacts DEF IInv, ValuesTyped, ThreadsTyped, EndsAnnounced,
       ThreadsAgree, EarlyUntouched, OneEnds, ClosersAgree, Owner, Works, Ends, UserAgrees,
       WorkerAgrees, Early, HandlerPc, ClosePc
  <1>19. DestroyedCloses'
    BY <1>1, <1>3, <1>4, <1>5, SetFacts DEF IInv, ThreadsTyped, DestroyedCloses,
       ThreadsAgree, EarlyUntouched, ClosersAgree, Owner, Works, Closes, UserAgrees,
       WorkerAgrees, Early, HandlerPc, ClosePc
  <1>20. StreamsGood'
    BY <1>1, <1>3, <1>4, <1>5, SetFacts DEF IInv, ThreadsTyped, StreamsGood, ThreadsAgree,
       HandlersSerialised, EarlyUntouched, ClosersAgree, Owner, InHandler, Works,
       UserAgrees, WorkerAgrees, Early, Blamed, HandlerPc, ClosePc
  <1>21. ReadinessKept'
    BY <1>1, <1>3, <1>4, <1>5, SetFacts DEF IInv, ValuesTyped, ThreadsTyped, ReadinessKept,
       ThreadsAgree, InOneTask, EarlyUntouched, OwnersAgree, ClosersAgree, Owner, Works,
       UserAgrees, WorkerAgrees, Early, Blamed, HandlerPc, ClosePc
  <1>22. NoneCut'
    BY <1>1, <1>3, <1>4, <1>5, SetFacts DEF IInv, ValuesTyped, ThreadsTyped, NoneCut,
       ThreadsAgree, StreamsGood, ReadinessKept, OwnersAgree, Owner, UserAgrees,
       WorkerAgrees, Blamed, HandlerPc, ClosePc
  <1>23. SeenTo'
    <2>1. ~ connected[On(a)] /\ On(a) \in Endpoint
      BY <1>1, <1>2, <1>3, <1>4, SetFacts DEF IInv, ClosersAgree, ThreadsAgree, UserAgrees,
         WorkerAgrees, ClosePc, ThreadsTyped
    <2>2. \A e \in Endpoint : Held(e)' => Held(e) /\ e # On(a)
      <3>1. \A n \in Fd : os'[n] # Free => os'[n] = os[n] /\ n # fd[On(a)]
        BY <1>4
      <3>2. \A n \in Fd, e \in Endpoint : os[n] = e => fd[e] = n
        BY DEF IInv, NumbersKept
      <3>3. QED
        BY <3>1, <3>2, SetFacts DEF Held
    <2>3. \A e \in Endpoint :
             /\ Watched(e) => Watched(e)'
             /\ Opens(e) => Opens(e)'
             /\ e # On(a) /\ Closing(e) => Closing(e)'
             /\ Accepts(e) => Accepts(e)'
             /\ e # On(a) /\ Releases(e) => Releases(e)'
      BY <1>1, <1>2, <1>3, <1>4, <1>5, SetFacts DEF IInv, ThreadsTyped, ValuesTyped, SeenTo,
         Watched, Opens, Closing, Held, Accepts, Releases, Registers, Closes, ThreadsAgree,
         UserAgrees, WorkerAgrees, HandlerPc, ClosePc
    <2>4. "foreign" \notin past' => "foreign" \notin past
      BY <1>4
    <2>5. "refused" \notin past' => "refused" \notin past
      BY <1>4
    <2>6. QED
      BY <1>5, <2>1, <2>2, <2>3, <2>4, <2>5 DEF IInv, SeenTo
  <1>24. QED
    BY <1>6, <1>7, <1>8, <1>9, <1>10, <1>11, <1>12, <1>13, <1>14, <1>15, <1>16, <1>17,
       <1>18, <1>19, <1>20, <1>21, <1>22, <1>23 DEF IInv

LEMMA AnnounceInv ==
    ASSUME IInv, NEW a \in Actor, Announce(a)
    PROVE  IInv'
  <1>1. TypeOK
    BY DEF IInv
  <1>2. ThreadsAgree
    BY DEF IInv
  <1>3. /\ a \in Actor
        /\ thread' \in [Actor -> Thread]
        /\ ThreadsTyped /\ ValuesTyped
        /\ \A b \in Actor : b # a => At(b)' = At(b) /\ On(b)' = On(b)
              /\ Job(b)' = Job(b) /\ Ret(b)' = Ret(b)
        /\ IF Ret(a) = "idle" THEN (At(a)' = "idle" /\ On(a)' = Free /\ Job(a)' = Free
              /\ Ret(a)' = "idle")
                    ELSE (At(a)' = Ret(a) /\ On(a)' = On(a) /\ Job(a)' = Job(a) /\ Ret(a)' = Ret(a))
    BY <1>1, <1>2, SetFacts, IdleFacts, GotoFacts, CloseFacts, TypedFacts DEF Announce,
       TypeOK, ThreadsAgree, UserAgrees, WorkerAgrees, At, On, Job, Ret, Thread, Pc,
       HandlerPc, ClosePc, Endpoint
  <1>4. /\ At(a) = "announce"
        /\ MayLock(a)
        /\ \A x \in Conn : announced'[x] = IF x = On(a) THEN announced[On(a)] + 1
              ELSE announced[x]
    BY <1>1, <1>2, <1>3, SetFacts DEF Announce, TypeOK, ThreadsAgree, UserAgrees,
       WorkerAgrees, At, On, Job, Ret, ClosePc, HandlerPc
  <1>5. UNCHANGED <<os, stage, sent, wire, ended, fd, connected, attached, event, area,
                   eof, calls, past>>
    BY DEF Announce, socketVars, peerVars, streamVars, loopVars
  <1>6. TypeOK'
    <2>1. announced' \in [Conn -> Nat]
      <3>1. announced \in [Conn -> Nat]
        BY <1>1 DEF TypeOK
      <3>2. announced' = [c \in Conn |-> IF c = On(a) THEN announced[c] + 1 ELSE announced[c]]
        BY <3>1 DEF Announce
      <3>3. QED
        BY <3>1, <3>2
    <2>2. QED
      BY <1>1, <1>3, <1>5, <2>1 DEF TypeOK
  <1>7. ThreadsAgree'
    BY <1>1, <1>3, <1>4, <1>5, SetFacts DEF IInv, ThreadsTyped, ThreadsAgree,
       EarlyUntouched, InHandler, MayLock, Works, UserAgrees, WorkerAgrees, Early,
       HandlerPc, ClosePc
  <1>8. HandlersSerialised'
    BY <1>1, <1>3, <1>4, <1>5, SetFacts DEF IInv, ThreadsTyped, HandlersSerialised,
       ThreadsAgree, InHandler, MayLock, UserAgrees, WorkerAgrees, HandlerPc, ClosePc
  <1>9. InOneTask'
    BY <1>1, <1>3, <1>4, <1>5, SetFacts DEF IInv, ThreadsTyped, InOneTask, ThreadsAgree,
       OpenedAlone, InHandler, MayLock, Registers, UserAgrees, WorkerAgrees, HandlerPc,
       ClosePc
  <1>10. EarlyUntouched'
    BY <1>1, <1>3, <1>4, <1>5, SetFacts DEF IInv, ThreadsTyped, EarlyUntouched,
       ThreadsAgree, HandlersSerialised, OpenedAlone, InHandler, MayLock, Works, Registers,
       UserAgrees, WorkerAgrees, Early, HandlerPc, ClosePc
  <1>11. OpenedAlone'
    BY <1>1, <1>3, <1>4, <1>5, SetFacts DEF IInv, ThreadsTyped, OpenedAlone, ThreadsAgree,
       HandlersSerialised, EarlyUntouched, InOneTask, DestroyedAlone, InHandler, MayLock,
       Works, Registers, Drops, UserAgrees, WorkerAgrees, Early, HandlerPc, ClosePc
  <1>12. DestroyedAlone'
    BY <1>1, <1>3, <1>4, <1>5, SetFacts DEF IInv, ThreadsTyped, DestroyedAlone,
       ThreadsAgree, EarlyUntouched, OpenedAlone, InHandler, MayLock, Works, Registers,
       Drops, UserAgrees, WorkerAgrees, Early, HandlerPc, ClosePc
  <1>13. NumbersKept'
    BY <1>1, <1>3, <1>4, <1>5, SetFacts DEF IInv, ValuesTyped, ThreadsTyped, NumbersKept,
       ThreadsAgree, EarlyUntouched, DestroyedAlone, ClosersAgree, InHandler, MayLock,
       Works, Drops, UserAgrees, WorkerAgrees, Early, HandlerPc, ClosePc
  <1>14. ClosersAgree'
    BY <1>1, <1>3, <1>4, <1>5, SetFacts DEF IInv, ThreadsTyped, ClosersAgree, ThreadsAgree,
       EarlyUntouched, DestroyedAlone, InHandler, MayLock, Works, Drops, UserAgrees,
       WorkerAgrees, Early, HandlerPc, ClosePc
  <1>15. OwnersAgree'
    BY <1>1, <1>3, <1>4, <1>5, SetFacts DEF IInv, ValuesTyped, ThreadsTyped, OwnersAgree,
       ThreadsAgree, EarlyUntouched, NumbersKept, ClosersAgree, Owner, InHandler, MayLock,
       Works, UserAgrees, WorkerAgrees, Early, HandlerPc, ClosePc
  <1>16. OneEnds'
    BY <1>1, <1>3, <1>4, <1>5, SetFacts DEF IInv, ThreadsTyped, OneEnds, ThreadsAgree,
       InHandler, MayLock, Ends, UserAgrees, WorkerAgrees, HandlerPc, ClosePc
  <1>17. EndsAnnounced'
    BY <1>1, <1>3, <1>4, <1>5, SetFacts DEF IInv, ValuesTyped, ThreadsTyped, EndsAnnounced,
       ThreadsAgree, EarlyUntouched, OneEnds, ClosersAgree, InHandler, MayLock, Works, Ends,
       UserAgrees, WorkerAgrees, Early, HandlerPc, ClosePc
  <1>18. DestroyedCloses'
    BY <1>1, <1>3, <1>4, <1>5, SetFacts DEF IInv, ThreadsTyped, DestroyedCloses,
       ThreadsAgree, EarlyUntouched, ClosersAgree, InHandler, MayLock, Works, Closes,
       UserAgrees, WorkerAgrees, Early, HandlerPc, ClosePc
  <1>19. StreamsGood'
    BY <1>1, <1>3, <1>4, <1>5, SetFacts DEF IInv, ThreadsTyped, StreamsGood, ThreadsAgree,
       HandlersSerialised, EarlyUntouched, InHandler, MayLock, Works, UserAgrees,
       WorkerAgrees, Early, Blamed, HandlerPc, ClosePc
  <1>20. ReadinessKept'
    BY <1>1, <1>3, <1>4, <1>5, SetFacts DEF IInv, ValuesTyped, ThreadsTyped, ReadinessKept,
       ThreadsAgree, InOneTask, EarlyUntouched, OwnersAgree, ClosersAgree, Owner, InHandler,
       MayLock, Works, UserAgrees, WorkerAgrees, Early, Blamed, HandlerPc, ClosePc
  <1>21. Bounded' /\ NoneCut'
    BY <1>3, <1>5, SetFacts DEF IInv, Bounded, NoneCut, Blamed
  <1>22. SeenTo'
    <2>1. ~ connected[On(a)]
      BY <1>4 DEF IInv, ClosersAgree
    <2>2. QED
      BY <1>1, <1>2, <1>3, <1>4, <1>5, <2>1, SetFacts DEF IInv, ThreadsTyped, ValuesTyped, SeenTo,
         Watched, Opens, Closing, Held, Accepts, Releases, Registers, Closes, ThreadsAgree,
         UserAgrees, WorkerAgrees, HandlerPc, ClosePc
  <1>23. QED
    BY <1>6, <1>7, <1>8, <1>9, <1>10, <1>11, <1>12, <1>13, <1>14, <1>15, <1>16, <1>17,
       <1>18, <1>19, <1>20, <1>21, <1>22 DEF IInv

LEMMA DropInv ==
    ASSUME IInv, NEW u \in User, Drop(u)
    PROVE  IInv'
  <1>1. TypeOK
    BY DEF IInv
  <1>2. ThreadsAgree
    BY DEF IInv
  <1>3. /\ u \in Actor
        /\ thread' \in [Actor -> Thread]
        /\ ThreadsTyped /\ ValuesTyped
        /\ \A b \in Actor : b # u => At(b)' = At(b) /\ On(b)' = On(b)
              /\ Job(b)' = Job(b) /\ Ret(b)' = Ret(b)
        /\ At(u)' = "idle"
        /\ On(u)' = Free
        /\ Job(u)' = Free
        /\ Ret(u)' = "idle"
    BY <1>1, <1>2, SetFacts, IdleFacts, GotoFacts, CloseFacts, TypedFacts DEF Drop, TypeOK,
       ThreadsAgree, UserAgrees, WorkerAgrees, At, On, Job, Ret, Thread, Pc, HandlerPc,
       ClosePc, Endpoint
  <1>4. /\ At(u) = "drop"
        /\ \A n \in Fd : os'[n] = IF n = fd[On(u)] THEN Free ELSE os[n]
        /\ \A x \in Conn : wire'[x] = IF Owner(On(u)) = x THEN 0 ELSE wire[x]
        /\ \A x \in Conn : ended'[x] <=> (Owner(On(u)) # x /\ ended[x])
        /\ past' = IF Owner(On(u)) \in {On(u), Free} THEN past ELSE past \union {"foreign"}
        /\ \A x \in Endpoint : fd'[x] = IF x = On(u) THEN Free ELSE fd[x]
        /\ \A x \in Conn : area'[x] = IF x = On(u) THEN 0 ELSE area[x]
        /\ \A x \in Conn : eof'[x] <=> (x # On(u) /\ eof[x])
    BY <1>1, <1>2, <1>3, SetFacts DEF Drop, TypeOK, ThreadsAgree, UserAgrees, WorkerAgrees,
       At, On, Job, Ret, Release, ClosePc, HandlerPc
  <1>5. UNCHANGED <<stage, sent, connected, attached, event, calls, announced>>
    BY DEF Drop, loopVars, Release
  <1>6. TypeOK'
    <2>1. os' \in [Fd -> Endpoint \union {Free}]
      BY <1>1, <1>2, <1>3, <1>4, SetFacts, BoundAssumption DEF Drop, TypeOK, Bounded, IInv,
         ThreadsAgree, UserAgrees, WorkerAgrees, At, On, Job, Ret, Release, Owner, Stage,
         EventPlace, Mishap, HandlerPc, ClosePc
    <2>2. wire' \in [Conn -> 0..MaxData]
      BY <1>1, <1>2, <1>3, <1>4, SetFacts, BoundAssumption DEF Drop, TypeOK, Bounded, IInv,
         ThreadsAgree, UserAgrees, WorkerAgrees, At, On, Job, Ret, Release, Owner, Stage,
         EventPlace, Mishap, HandlerPc, ClosePc
    <2>3. ended' \in [Conn -> BOOLEAN]
      BY <1>1, <1>2, <1>3, <1>4, SetFacts, BoundAssumption DEF Drop, TypeOK, Bounded, IInv,
         ThreadsAgree, UserAgrees, WorkerAgrees, At, On, Job, Ret, Release, Owner, Stage,
         EventPlace, Mishap, HandlerPc, ClosePc
    <2>4. past' \subseteq Mishap
      BY <1>1, <1>2, <1>3, <1>4, SetFacts, BoundAssumption DEF Drop, TypeOK, Bounded, IInv,
         ThreadsAgree, UserAgrees, WorkerAgrees, At, On, Job, Ret, Release, Owner, Stage,
         EventPlace, Mishap, HandlerPc, ClosePc
    <2>5. fd' \in [Endpoint -> Fd \union {Free}]
      BY <1>1, <1>2, <1>3, <1>4, SetFacts, BoundAssumption DEF Drop, TypeOK, Bounded, IInv,
         ThreadsAgree, UserAgrees, WorkerAgrees, At, On, Job, Ret, Release, Owner, Stage,
         EventPlace, Mishap, HandlerPc, ClosePc
    <2>6. area' \in [Conn -> 0..MaxData]
      BY <1>1, <1>2, <1>3, <1>4, SetFacts, BoundAssumption DEF Drop, TypeOK, Bounded, IInv,
         ThreadsAgree, UserAgrees, WorkerAgrees, At, On, Job, Ret, Release, Owner, Stage,
         EventPlace, Mishap, HandlerPc, ClosePc
    <2>7. eof' \in [Conn -> BOOLEAN]
      BY <1>1, <1>2, <1>3, <1>4, SetFacts, BoundAssumption DEF Drop, TypeOK, Bounded, IInv,
         ThreadsAgree, UserAgrees, WorkerAgrees, At, On, Job, Ret, Release, Owner, Stage,
         EventPlace, Mishap, HandlerPc, ClosePc
    <2>8. QED
      BY <1>1, <1>3, <1>5, <2>1, <2>2, <2>3, <2>4, <2>5, <2>6, <2>7 DEF TypeOK
  <1>7. Bounded'
    BY <1>1, <1>3, <1>4, <1>5, SetFacts DEF IInv, ValuesTyped, ThreadsTyped, Bounded, Owner
  <1>8. ThreadsAgree'
    BY <1>1, <1>3, <1>4, <1>5, SetFacts DEF IInv, ThreadsTyped, ThreadsAgree,
       EarlyUntouched, Owner, Works, UserAgrees, WorkerAgrees, Early, HandlerPc, ClosePc
  <1>9. HandlersSerialised'
    BY <1>1, <1>3, <1>4, <1>5, SetFacts DEF IInv, ThreadsTyped, HandlersSerialised,
       ThreadsAgree, Owner, InHandler, UserAgrees, WorkerAgrees, HandlerPc, ClosePc
  <1>10. InOneTask'
    BY <1>1, <1>3, <1>4, <1>5, SetFacts DEF IInv, ThreadsTyped, InOneTask, ThreadsAgree,
       OpenedAlone, Owner, Registers, UserAgrees, WorkerAgrees, HandlerPc, ClosePc
  <1>11. EarlyUntouched'
    BY <1>1, <1>3, <1>4, <1>5, SetFacts DEF IInv, ThreadsTyped, EarlyUntouched,
       ThreadsAgree, HandlersSerialised, OpenedAlone, Owner, InHandler, Works, Registers,
       UserAgrees, WorkerAgrees, Early, HandlerPc, ClosePc
  <1>12. OpenedAlone'
    BY <1>1, <1>3, <1>4, <1>5, SetFacts DEF IInv, ThreadsTyped, OpenedAlone, ThreadsAgree,
       HandlersSerialised, EarlyUntouched, InOneTask, DestroyedAlone, Owner, InHandler,
       Works, Registers, Drops, UserAgrees, WorkerAgrees, Early, HandlerPc, ClosePc
  <1>13. DestroyedAlone'
    BY <1>1, <1>3, <1>4, <1>5, SetFacts DEF IInv, ThreadsTyped, DestroyedAlone,
       ThreadsAgree, EarlyUntouched, OpenedAlone, Owner, Works, Registers, Drops,
       UserAgrees, WorkerAgrees, Early, HandlerPc, ClosePc
  <1>14. NumbersKept'
    BY <1>1, <1>3, <1>4, <1>5, SetFacts DEF IInv, ValuesTyped, ThreadsTyped, NumbersKept,
       ThreadsAgree, EarlyUntouched, DestroyedAlone, ClosersAgree, Owner, Works, Drops,
       UserAgrees, WorkerAgrees, Early, HandlerPc, ClosePc
  <1>15. ClosersAgree'
    BY <1>1, <1>3, <1>4, <1>5, SetFacts DEF IInv, ThreadsTyped, ClosersAgree, ThreadsAgree,
       EarlyUntouched, DestroyedAlone, Owner, Works, Drops, UserAgrees, WorkerAgrees, Early,
       HandlerPc, ClosePc
  <1>16. OwnersAgree'
    BY <1>1, <1>3, <1>4, <1>5, SetFacts DEF IInv, ValuesTyped, ThreadsTyped, OwnersAgree,
       ThreadsAgree, EarlyUntouched, NumbersKept, ClosersAgree, Owner, Works, UserAgrees,
       WorkerAgrees, Early, HandlerPc, ClosePc
  <1>17. OneEnds'
    BY <1>1, <1>3, <1>4, <1>5, SetFacts DEF IInv, ThreadsTyped, OneEnds, ThreadsAgree,
       Owner, Ends, UserAgrees, WorkerAgrees, HandlerPc, ClosePc
  <1>18. EndsAnnounced'
    BY <1>1, <1>3, <1>4, <1>5, SetFacts DEF IInv, ValuesTyped, ThreadsTyped, EndsAnnounced,
       ThreadsAgree, EarlyUntouched, OneEnds, ClosersAgree, Owner, Works, Ends, UserAgrees,
       WorkerAgrees, Early, HandlerPc, ClosePc
  <1>19. DestroyedCloses'
    BY <1>1, <1>3, <1>4, <1>5, SetFacts DEF IInv, ThreadsTyped, DestroyedCloses,
       ThreadsAgree, EarlyUntouched, ClosersAgree, Owner, Works, Closes, UserAgrees,
       WorkerAgrees, Early, HandlerPc, ClosePc
  <1>20. StreamsGood'
    BY <1>1, <1>3, <1>4, <1>5, SetFacts DEF IInv, ThreadsTyped, StreamsGood, ThreadsAgree,
       HandlersSerialised, EarlyUntouched, Owner, InHandler, Works, UserAgrees,
       WorkerAgrees, Early, Blamed, HandlerPc, ClosePc
  <1>21. ReadinessKept'
    BY <1>1, <1>3, <1>4, <1>5, SetFacts DEF IInv, ValuesTyped, ThreadsTyped, ReadinessKept,
       ThreadsAgree, InOneTask, EarlyUntouched, OwnersAgree, ClosersAgree, Owner, Works,
       UserAgrees, WorkerAgrees, Early, Blamed, HandlerPc, ClosePc
  <1>22. NoneCut'
    BY <1>1, <1>3, <1>4, <1>5, SetFacts DEF IInv, ValuesTyped, ThreadsTyped, NoneCut,
       ThreadsAgree, StreamsGood, ReadinessKept, OwnersAgree, Owner, UserAgrees,
       WorkerAgrees, Blamed, HandlerPc, ClosePc
  <1>23. SeenTo'
    BY <1>1, <1>2, <1>3, <1>4, <1>5, SetFacts DEF IInv, ThreadsTyped, ValuesTyped, SeenTo,
       Watched, Opens, Closing, Held, Accepts, Releases, Registers, Closes, ThreadsAgree,
       UserAgrees, WorkerAgrees, HandlerPc, ClosePc
  <1>24. QED
    BY <1>6, <1>7, <1>8, <1>9, <1>10, <1>11, <1>12, <1>13, <1>14, <1>15, <1>16, <1>17,
       <1>18, <1>19, <1>20, <1>21, <1>22, <1>23 DEF IInv

-----------------------------------------------------------------------------
(* The invariant holds *)

LEMMA InitInv == Init => IInv
  <1> SUFFICES ASSUME Init PROVE IInv
    OBVIOUS
  <1>1. TypeOK
    BY IdleFacts, SetFacts, BoundAssumption DEF Init, TypeOK, Stage, EventPlace, Mishap,
       Endpoint, Fd
  <1>2. \A a \in Actor : At(a) = "idle" /\ On(a) = Free /\ Job(a) = Free /\ Ret(a) = "idle"
    BY IdleFacts DEF Init, At, On, Job, Ret
  <1>3. \A e \in Endpoint : /\ stage[e] = IF e = Acceptor THEN "open" ELSE "absent"
                            /\ fd[e] = IF e = Acceptor THEN 1 ELSE Free
                            /\ connected[e] <=> e = Acceptor
                            /\ attached[e] <=> e = Acceptor
                            /\ event[e] = IF e = Acceptor THEN "listed" ELSE "none"
    BY DEF Init
  <1>4. /\ \A c \in Conn : wire[c] = 0 /\ area[c] = 0 /\ announced[c] = 0 /\ ~ eof[c]
        /\ \A n \in Fd : os[n] = IF n = 1 THEN Acceptor ELSE Free
        /\ sent = 0 /\ past = {} /\ 1 \in Fd
    BY BoundAssumption DEF Init, Fd
  <1>5. Bounded /\ ThreadsAgree /\ HandlersSerialised /\ InOneTask
    BY <1>2, <1>4, SetFacts DEF Bounded, ThreadsAgree, UserAgrees, WorkerAgrees,
       HandlersSerialised, InHandler, InOneTask, HandlerPc, ClosePc
  <1>6. EarlyUntouched /\ OpenedAlone /\ DestroyedAlone /\ ClosersAgree
    BY <1>2, <1>3, <1>4, SetFacts DEF EarlyUntouched, OpenedAlone, DestroyedAlone,
       ClosersAgree, Early, Works, Registers, Drops, HandlerPc, ClosePc
  <1>7. NumbersKept
    BY <1>2, <1>3, <1>4, SetFacts DEF NumbersKept, Works, HandlerPc, ClosePc
  <1>8. OwnersAgree
    BY <1>2, <1>3, <1>4, SetFacts DEF OwnersAgree, Owner
  <1>9. OneEnds /\ EndsAnnounced /\ DestroyedCloses
    BY <1>2, <1>3, <1>4, SetFacts DEF OneEnds, EndsAnnounced, DestroyedCloses, Ends, Early
  <1>10. StreamsGood /\ ReadinessKept /\ NoneCut
    BY <1>2, <1>3, <1>4, SetFacts DEF StreamsGood, ReadinessKept, NoneCut
  <1>11. SeenTo
    BY <1>2, <1>3, <1>4, SetFacts DEF SeenTo, Watched, Held
  <1>12. QED
    BY <1>1, <1>5, <1>6, <1>7, <1>8, <1>9, <1>10, <1>11 DEF IInv

LEMMA StutterInv ==
    ASSUME IInv, UNCHANGED vars
    PROVE  IInv'
  <1>1. /\ UNCHANGED <<os, stage, sent, wire, ended, fd, connected, attached, event, area, eof>>
        /\ UNCHANGED <<thread, calls>>
        /\ UNCHANGED <<announced, past>>
    BY DEF vars, socketVars, peerVars, streamVars, loopVars, threadVars, history
  <1>2. TypeOK' /\ Bounded' /\ ThreadsAgree' /\ HandlersSerialised' /\ InOneTask'
    BY <1>1 DEF IInv, TypeOK, Bounded, ThreadsAgree, UserAgrees, WorkerAgrees,
       HandlersSerialised, InHandler, InOneTask, At, On, Job, Ret
  <1>3. EarlyUntouched' /\ OpenedAlone' /\ DestroyedAlone' /\ NumbersKept' /\ ClosersAgree'
    BY <1>1 DEF IInv, EarlyUntouched, OpenedAlone, DestroyedAlone, NumbersKept,
       ClosersAgree, Works, Registers, Drops, At, On, Job, Ret
  <1>4. OwnersAgree' /\ OneEnds' /\ EndsAnnounced' /\ DestroyedCloses'
    BY <1>1 DEF IInv, OwnersAgree, OneEnds, EndsAnnounced, DestroyedCloses, Owner, Ends,
       Closes, At, On, Job, Ret
  <1>5. StreamsGood' /\ ReadinessKept' /\ NoneCut'
    BY <1>1 DEF IInv, StreamsGood, ReadinessKept, NoneCut, Blamed, At, On, Job, Ret
  <1>6. SeenTo'
    BY <1>1 DEF IInv, SeenTo, Watched, Opens, Closing, Held, Accepts, Releases, Registers,
       Closes, At, On, Job, Ret
  <1>7. QED
    BY <1>2, <1>3, <1>4, <1>5, <1>6 DEF IInv

LEMMA NextInv ==
    ASSUME IInv, [Next]_vars
    PROVE  IInv'
  <1>1. ASSUME PeerNext PROVE IInv'
    BY <1>1, PeerConnectsInv, PeerSendsInv, PeerEndsInv DEF PeerNext
  <1>2. ASSUME NEW e \in Endpoint, RemoveBad(e) PROVE IInv'
    BY <1>2, RemoveBadInv
  <1>3. ASSUME NEW w \in Worker, TaskNext(w) PROVE IInv'
    BY <1>3, TriggerInv, PublishInv, CheckInv, ReAddInv DEF TaskNext
  <1>4. ASSUME NEW w \in Worker, AcceptNext(w) PROVE IInv'
    BY <1>4, AcceptInv, AcceptFailsInv, OpenInv, RegisterInv DEF AcceptNext
  <1>5. ASSUME NEW w \in Worker, ReceiveNext(w) PROVE IInv'
    BY <1>5, PeekInv, PeekFailsInv, HandlerReadsInv, HandlerReadsOnInv, RecvInv,
       HandlerClosesInv, HandlerReturnsInv DEF ReceiveNext
  <1>6. ASSUME NEW a \in Actor, CloseNext(a) PROVE IInv'
    BY <1>6, CloseInv, ClearInv, DetachInv, ShutInv, AnnounceInv DEF CloseNext
  <1>7. ASSUME NEW u \in User, UserNext(u) PROVE IInv'
    BY <1>7, UserClosesInv, UserDestroysInv, DropInv DEF UserNext
  <1>8. QED
    BY <1>1, <1>2, <1>3, <1>4, <1>5, <1>6, <1>7, StutterInv DEF Next

-----------------------------------------------------------------------------
(* What follows *)

\* Whatever peers, workers, handlers and users do, where the threads are, who is
\* inside a handler, which event is in whose task, whose a descriptor is and how
\* often an end was announced agree with each other.
THEOREM Invariant == Spec => []IInv
  <1>1. IInv /\ [Next]_vars => IInv'
    BY NextInv
  <1>2. QED
    BY InitInv, <1>1, PTL DEF Spec

\* The state of sockets, streams, events and threads always has its type.
THEOREM TypeCorrect == Spec => []TypeOK
  <1>1. IInv => TypeOK
    BY DEF IInv
  <1>2. QED
    BY Invariant, <1>1, PTL

\* As long as no number was closed twice, a connected endpoint has its own
\* descriptor, and no handler of received() ever reads from another's.
THEOREM OwnDescriptor == Spec => []ReadsOwn
  <1>1. IInv => ReadsOwn
    BY DEF IInv, OwnersAgree, ReadsOwn
  <1>2. QED
    BY Invariant, <1>1, PTL

\* Unless two threads are in close() at the same time, disconnected() is
\* published once for each connection that was opened, and no more than once.
THEOREM AnnouncedOnce == Spec => []DisconnectedOnce
  <1>1. ASSUME IInv PROVE DisconnectedOnce
    <2>1. SUFFICES ASSUME "raced" \notin past, NEW c \in Conn
                   PROVE  /\ announced[c] <= 1
                          /\ stage[c] = "destroyed"
                                /\ (\A a \in Actor : On(a) = c => At(a) \notin ClosePc)
                                => announced[c] = 1
      BY DEF DisconnectedOnce
    <2>2. announced[c] \in Nat /\ announced[c] <= 1
      BY <1>1, <2>1 DEF IInv, TypeOK, EndsAnnounced
    <2>3. ASSUME stage[c] = "destroyed", \A a \in Actor : On(a) = c => At(a) \notin ClosePc
          PROVE  announced[c] = 1
      <3>1. ~ connected[c]
        BY <1>1, <2>3, SetFacts DEF IInv, DestroyedCloses, Closes
      <3>2. ~ \E a \in Actor : Ends(a, c)
        BY <2>3 DEF Ends, ClosePc
      <3>3. announced[c] # 0
        BY <1>1, <2>1, <2>3, <3>1, <3>2 DEF IInv, EndsAnnounced, Early
      <3>4. QED
        BY <2>2, <3>3
    <2>4. QED
      BY <2>2, <2>3
  <1>2. QED
    BY Invariant, <1>1, PTL

\* Until a number is closed twice, no handler is called for nothing: its first read
\* does not block, and the library closes no connection whose peer has not.
THEOREM CalledForACause == Spec => []CalledForCause
  <1>1. ASSUME IInv PROVE CalledForCause
    <2>1. SUFFICES ASSUME "foreign" \notin past
                   PROVE  /\ \A w \in Worker : At(w) = "peek" =>
                                \/ area[On(w)] > 0 \/ HasData(Owner(On(w)))
                                \/ AtEnd(Owner(On(w)))
                          /\ "cut" \notin past
      BY DEF CalledForCause
    <2>2. "cut" \notin past
      BY <1>1, <2>1 DEF IInv, NoneCut, Blamed
    <2>3. ASSUME NEW w \in Worker, At(w) = "peek"
          PROVE  HasData(Owner(On(w))) \/ AtEnd(Owner(On(w)))
      <3>1. On(w) = Job(w) /\ On(w) \in Conn
        BY <1>1, <2>3 DEF IInv, ThreadsAgree, WorkerAgrees
      <3>2. Owner(On(w)) = On(w)
        BY <1>1, <2>1, <2>3 DEF IInv, OwnersAgree
      <3>3. wire[On(w)] > 0 \/ ended[On(w)]
        BY <1>1, <2>1, <2>3, <3>1 DEF IInv, ReadinessKept, Blamed
      <3>4. QED
        BY <3>1, <3>2, <3>3 DEF HasData, AtEnd
    <2>4. QED
      BY <2>2, <2>3
  <1>2. QED
    BY Invariant, <1>1, PTL

\* The safety part of EndIsServed: as long as no number was closed twice, nobody's
\* descriptor is forgotten.  The loop or a task has its event and its handler is
\* subscribed, the worker that accepts or opens it is on its way, or a thread is closing
\* it; of the acceptor as long as no accept() has failed.  However closing and opening,
\* publishing, registering again and removing bad descriptors interleave.
THEOREM NobodyForgotten ==
    Spec => []("foreign" \notin past =>
                  \A e \in Endpoint :
                      Held(e) /\ (e = Acceptor => "refused" \notin past)
                          => Watched(e) \/ Accepts(e) \/ Opens(e) \/ Closing(e))
  <1>1. IInv => ("foreign" \notin past =>
                   \A e \in Endpoint :
                      Held(e) /\ (e = Acceptor => "refused" \notin past)
                          => Watched(e) \/ Accepts(e) \/ Opens(e) \/ Closing(e))
    BY DEF IInv, SeenTo, Releases, Closing, Closes, ClosePc
  <1>2. QED
    BY Invariant, <1>1, PTL
=============================================================================
