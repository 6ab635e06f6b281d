--------------------------------- MODULE Tcp ---------------------------------
(***************************************************************************)
(* io/src/tcp.cpp and the sockets of io/src/posix/socket.cpp: an acceptor  *)
(* and the communicators of the connections it accepts, over the table of  *)
(* descriptors of the process.  Handlers run on worker threads and hold    *)
(* the mutex of the broker, user threads close and destroy.  A socket is   *)
(* a number in that table: close() gives the number back but keeps it, and *)
(* the destructor gives it back once more.                                 *)
(*                                                                         *)
(* The sockets that accept() returns are blocking ones: only the listening *)
(* socket and the connector's are set otherwise.  A handler that reads     *)
(* further than what has arrived waits in recv(), with the mutex.          *)
(*                                                                         *)
(* The event loop is reduced to what SelectMechanism promises (an event is *)
(* on the list, or in one task, or gone), the broker to what Broker        *)
(* promises (handlers are serialised, detach() waits for them).            *)
(***************************************************************************)
EXTENDS Integers

CONSTANTS
    Conn,       \* connections that peers make, each served by a communicator
    Acceptor,   \* the acceptor
    Worker,     \* worker threads of the loop
    User,       \* other threads, which close and destroy
    Free,       \* no descriptor, no owner
    MaxFd,      \* bound: size of the table of descriptors
    MaxData,    \* bound: units the peers send
    MaxCalls    \* bound: calls of close() and of destructors by users

ASSUME DistinctAssumption ==
    /\ Acceptor \notin Conn
    /\ Free \notin Conn \union {Acceptor} \union 1..MaxFd
    /\ Worker \intersect User = {}
ASSUME BoundAssumption == MaxFd \in Nat \ {0} /\ MaxData \in Nat /\ MaxCalls \in Nat

Endpoint == Conn \union {Acceptor}
Actor == Worker \union User
Fd == 1..MaxFd

VARIABLES
    os,         \* which endpoint each descriptor is open for
    stage,      \* how far a connection, or the acceptor, has come
    sent,       \* units the peers have sent
    wire,       \* units received by the kernel and not read
    ended,      \* the peer has closed its side
    fd,         \* basic_socket::_handle
    connected,  \* communicator::_connected, acceptor::_connected
    attached,   \* the ready handler is subscribed to the event's topic
    event,      \* where the event is
    area,       \* units in the get area of the stream buffer
    eof,        \* the input stream is no longer good
    thread,     \* where each thread is
    calls,      \* how many calls users have made
    announced,  \* history: notifications of disconnected()
    past        \* history: what has gone wrong, see Mishap

socketVars == <<os, fd, stage>>
peerVars == <<sent, wire, ended>>
streamVars == <<area, eof>>
loopVars == <<attached, event>>
threadVars == <<thread, calls>>
history == <<announced, past>>
vars == <<socketVars, peerVars, streamVars, loopVars, threadVars, connected, history>>

\* backlog: in the kernel's queue of the listening socket.
Stage == {"absent", "backlog", "pending", "open", "destroyed"}
EventPlace == {"none", "listed", "task"}
HandlerPc == {"peek", "received", "recv", "accept", "accepted", "register"}
ClosePc == {"close", "clear", "detach", "shut", "announce"}
Pc == {"idle", "publish", "check", "readd", "drop"} \union HandlerPc \union ClosePc

\* pc: the next statement; job: the event of the task a worker executes; on: the
\* endpoint an operation works on; ret: where close() returns to.
Thread == [pc : Pc, job : Endpoint \union {Free}, on : Endpoint \union {Free},
           ret : {"idle", "check", "register", "drop"}]
Idle == [pc |-> "idle", job |-> Free, on |-> Free, ret |-> "idle"]

\* foreign: a socket object closed a number that had become another's;
\* stray: a handler read from a descriptor that was not its own;
\* raced: two threads were in close() of one endpoint;
\* cut: the library closed a connection whose peer had not;
\* refused: accept() failed.
Mishap == {"foreign", "stray", "raced", "cut", "refused"}

Init ==
    /\ os = [n \in Fd |-> IF n = 1 THEN Acceptor ELSE Free]
    /\ stage = [e \in Endpoint |-> IF e = Acceptor THEN "open" ELSE "absent"]
    /\ sent = 0
    /\ wire = [c \in Conn |-> 0]
    /\ ended = [c \in Conn |-> FALSE]
    /\ fd = [e \in Endpoint |-> IF e = Acceptor THEN 1 ELSE Free]
    /\ connected = [e \in Endpoint |-> e = Acceptor]
    /\ attached = [e \in Endpoint |-> e = Acceptor]
    /\ event = [e \in Endpoint |-> IF e = Acceptor THEN "listed" ELSE "none"]
    /\ area = [c \in Conn |-> 0]
    /\ eof = [c \in Conn |-> FALSE]
    /\ thread = [a \in Actor |-> Idle]
    /\ calls = 0
    /\ announced = [c \in Conn |-> 0]
    /\ past = {}

-----------------------------------------------------------------------------
(* The mutex of the broker, the kernel *)

At(a) == thread[a].pc
On(a) == thread[a].on
Job(w) == thread[w].job

Goto(a, l) ==
    thread' = [thread EXCEPT ![a] = IF l = "idle" THEN Idle ELSE [@ EXCEPT !.pc = l]]
CloseAndThen(w, l) == thread' = [thread EXCEPT ![w].pc = "close", ![w].ret = l]

\* A worker is in a handler from the call to the return, closing included.
InHandler(w) == At(w) \in HandlerPc \union ClosePc
MayLock(a) == \A w \in Worker \ {a} : ~ InHandler(w)

Owner(e) == IF fd[e] = Free THEN Free ELSE os[fd[e]]
Established(c) == stage[c] = "backlog" \/ \E n \in Fd : os[n] = c
HasData(o) == o \in Conn /\ wire[o] > 0
Readable(o) ==
    \/ HasData(o)
    \/ o \in Conn /\ ended[o]
    \/ o = Acceptor /\ \E c \in Conn : stage[c] = "backlog"

\* ::close(): whoever has the number now loses it, and the kernel forgets the
\* connection with all that was not read.
Release(e) ==
    /\ os' = [os EXCEPT ![fd[e]] = Free]
    /\ wire' = [c \in Conn |-> IF Owner(e) = c THEN 0 ELSE wire[c]]
    /\ ended' = [c \in Conn |-> Owner(e) # c /\ ended[c]]
    /\ past' = IF Owner(e) \in {e, Free} THEN past ELSE past \union {"foreign"}
    /\ UNCHANGED <<stage, sent, loopVars, calls, connected, announced>>

-----------------------------------------------------------------------------
(* Peers *)

PeerConnects(c) ==
    /\ stage[c] = "absent"
    /\ \E n \in Fd : os[n] = Acceptor
    /\ stage' = [stage EXCEPT ![c] = "backlog"]
    /\ UNCHANGED <<os, fd, peerVars, streamVars, loopVars, threadVars, connected, history>>

PeerSends(c) ==
    /\ Established(c) /\ ~ ended[c]
    /\ sent < MaxData
    /\ sent' = sent + 1
    /\ wire' = [wire EXCEPT ![c] = @ + 1]
    /\ UNCHANGED <<socketVars, ended, streamVars, loopVars, threadVars, connected, history>>

PeerEnds(c) ==
    /\ Established(c) /\ ~ ended[c]
    /\ ended' = [ended EXCEPT ![c] = TRUE]
    /\ UNCHANGED <<socketVars, sent, wire, streamVars, loopVars, threadVars, connected, history>>

-----------------------------------------------------------------------------
(* Faulty variants of actions below, used to test the properties *)

\* Takes every event for ready when select() returns.
TriggerUnready(w, e) ==
    /\ At(w) = "idle"
    /\ event[e] = "listed" /\ Owner(e) # Free
    /\ event' = [event EXCEPT ![e] = "task"]
    /\ thread' = [thread EXCEPT ![w] = [Idle EXCEPT !.pc = "publish", !.job = e]]
    /\ UNCHANGED <<socketVars, peerVars, streamVars, attached, calls, connected, history>>

\* An event that was triggered is not put back.
ReAddNothing(w) ==
    /\ At(w) = "readd"
    /\ event' = [event EXCEPT ![Job(w)] = "none"]
    /\ Goto(w, "idle")
    /\ UNCHANGED <<socketVars, peerVars, streamVars, attached, calls, connected, history>>

\* Takes a unit that is not in the get area.
HandlerReadsBlindly(w) ==
    /\ At(w) = "received"
    /\ ~ eof[On(w)]
    /\ area' = [area EXCEPT ![On(w)] = @ - 1]
    /\ UNCHANGED <<socketVars, peerVars, eof, loopVars, threadVars, connected, history>>

\* Closes whatever has become of the flag.
CloseUntested(a) ==
    /\ At(a) = "close"
    /\ Goto(a, "clear")
    /\ UNCHANGED <<socketVars, peerVars, streamVars, loopVars, calls, connected, history>>

\* Does not wait for the handlers.
DetachUnlocked(a) ==
    /\ At(a) = "detach"
    /\ attached' = [attached EXCEPT ![On(a)] = FALSE]
    /\ Goto(a, "shut")
    /\ UNCHANGED <<socketVars, peerVars, streamVars, event, calls, connected, history>>

-----------------------------------------------------------------------------
(* The event loop and its tasks *)

Trigger(w, e) ==
    /\ At(w) = "idle"
    /\ event[e] = "listed" /\ Readable(Owner(e))
    /\ event' = [event EXCEPT ![e] = "task"]
    /\ thread' = [thread EXCEPT ![w] = [Idle EXCEPT !.pc = "publish", !.job = e]]
    /\ UNCHANGED <<socketVars, peerVars, streamVars, attached, calls, connected, history>>

\* select() fails with EBADF.
RemoveBad(e) ==
    /\ event[e] = "listed" /\ Owner(e) = Free
    /\ event' = [event EXCEPT ![e] = "none"]
    /\ UNCHANGED <<socketVars, peerVars, streamVars, attached, threadVars, connected, history>>

\* The worker publishes the event: the handler is called when it is still
\* subscribed, and first looks whether the endpoint is connected.
Publish(w) ==
    LET e == Job(w) IN
    /\ At(w) = "publish"
    /\ MayLock(w)
    /\ thread' = [thread EXCEPT ![w].on = e,
                     ![w].pc = IF ~ attached[e] \/ ~ connected[e] THEN "check"
                               ELSE IF e = Acceptor THEN "accept" ELSE "peek"]
    /\ attached' = [attached EXCEPT ![e] = @ /\ (e = Acceptor => connected[e])]
    /\ UNCHANGED <<socketVars, peerVars, streamVars, event, calls, connected, history>>

\* After the handler: are there still subscribers?
Check(w) ==
    /\ At(w) = "check"
    /\ MayLock(w)
    /\ IF attached[Job(w)]
       THEN Goto(w, "readd") /\ UNCHANGED event
       ELSE Goto(w, "idle") /\ event' = [event EXCEPT ![Job(w)] = "none"]
    /\ UNCHANGED <<socketVars, peerVars, streamVars, attached, calls, connected, history>>

ReAdd(w) ==
    /\ At(w) = "readd"
    /\ event' = [event EXCEPT ![Job(w)] = "listed"]
    /\ Goto(w, "idle")
    /\ UNCHANGED <<socketVars, peerVars, streamVars, attached, calls, connected, history>>

-----------------------------------------------------------------------------
(* on_ready_accept(), a handler of accepted(), communicator::open() *)

FreeFds == {n \in Fd : os[n] = Free}

Accept(w, c) ==
    /\ At(w) = "accept"
    /\ Owner(Acceptor) = Acceptor
    /\ stage[c] = "backlog"
    /\ \E n \in FreeFds :
          /\ \A m \in FreeFds : n <= m
          /\ fd' = [fd EXCEPT ![c] = n]
          /\ os' = [os EXCEPT ![n] = c]
    /\ stage' = [stage EXCEPT ![c] = "pending"]
    /\ thread' = [thread EXCEPT ![w].pc = "accepted", ![w].on = c]
    /\ UNCHANGED <<peerVars, streamVars, loopVars, calls, connected, history>>

\* accept() fails, for want of a descriptor, say, or the accepted peer turns out
\* to have gone.  The exception ends the task, and nobody puts the event back.
AcceptFails(w) ==
    /\ At(w) = "accept"
    /\ event' = [event EXCEPT ![Acceptor] = "none"]
    /\ past' = past \union {"refused"}
    /\ Goto(w, "idle")
    /\ \/ UNCHANGED <<stage, wire, ended>>
       \/ \E c \in Conn :
             /\ stage[c] = "backlog"
             /\ stage' = [stage EXCEPT ![c] = "absent"]
             /\ wire' = [wire EXCEPT ![c] = 0]
             /\ ended' = [ended EXCEPT ![c] = FALSE]
    /\ UNCHANGED <<os, fd, sent, streamVars, attached, calls, connected, announced>>

\* The handler of accepted() takes the connection and opens a communicator,
\* which publishes connected(); a handler of that may close the communicator.
Open(w) ==
    /\ At(w) = "accepted"
    /\ stage' = [stage EXCEPT ![On(w)] = "open"]
    /\ connected' = [connected EXCEPT ![On(w)] = TRUE]
    /\ Goto(w, "register") \/ CloseAndThen(w, "register")
    /\ UNCHANGED <<os, fd, peerVars, streamVars, loopVars, calls, history>>

\* Only now is there an event; on_ready_accept() returns.
Register(w) ==
    /\ At(w) = "register"
    /\ attached' = [attached EXCEPT ![On(w)] = TRUE]
    /\ event' = [event EXCEPT ![On(w)] = "listed"]
    /\ Goto(w, "check")
    /\ UNCHANGED <<socketVars, peerVars, streamVars, calls, connected, history>>

-----------------------------------------------------------------------------
(* on_ready_receive() and a handler of received() *)

\* recv() fills the get area with all there is, from whoever has the number.
Receive(c) ==
    /\ HasData(Owner(c))
    /\ area' = [area EXCEPT ![c] = wire[Owner(c)]]
    /\ wire' = [wire EXCEPT ![Owner(c)] = 0]
    /\ past' = IF Owner(c) = c THEN past ELSE past \union {"stray"}

\* It returns with nothing at the end of the connection, and fails where there is none.
\* Otherwise it blocks.
AtEnd(o) == ~ HasData(o) /\ (o \in Conn => ended[o])

Peek(w) ==
    LET c == On(w) IN
    /\ At(w) = "peek"
    /\ ~ eof[c]
    /\ \/ area[c] > 0 /\ UNCHANGED <<area, wire, past>>
       \/ area[c] = 0 /\ Receive(c)
    /\ Goto(w, "received")
    /\ UNCHANGED <<socketVars, sent, ended, eof, loopVars, calls, connected, announced>>

\* The end of the connection, an error, or a stream that was not good any more:
\* the communicator closes.
PeekFails(w) ==
    LET c == On(w) IN
    /\ At(w) = "peek"
    /\ eof[c] \/ (area[c] = 0 /\ AtEnd(Owner(c)))
    /\ eof' = [eof EXCEPT ![c] = TRUE]
    /\ past' = past \union (IF eof[c] \/ Owner(c) = c THEN {} ELSE {"stray"})
                    \union (IF ended[c] THEN {} ELSE {"cut"})
    /\ CloseAndThen(w, "check")
    /\ UNCHANGED <<socketVars, peerVars, area, loopVars, calls, connected, announced>>

HandlerReads(w) ==
    LET c == On(w) IN
    /\ At(w) = "received"
    /\ ~ eof[c] /\ area[c] > 0
    /\ area' = [area EXCEPT ![c] = @ - 1]
    /\ UNCHANGED <<socketVars, peerVars, eof, loopVars, threadVars, connected, history>>

\* Reads on: the mutex of the broker is held until recv() returns.
HandlerReadsOn(w) ==
    /\ At(w) = "received"
    /\ ~ eof[On(w)] /\ area[On(w)] = 0
    /\ Goto(w, "recv")
    /\ UNCHANGED <<socketVars, peerVars, streamVars, loopVars, calls, connected, history>>

\* recv() returns with what has come meanwhile, or with the end, which spoils the stream.
Recv(w) ==
    LET c == On(w) IN
    /\ At(w) = "recv"
    /\ \/ Receive(c) /\ UNCHANGED eof
       \/ /\ AtEnd(Owner(c))
          /\ eof' = [eof EXCEPT ![c] = TRUE]
          /\ UNCHANGED <<area, wire, past>>
    /\ Goto(w, "received")
    /\ UNCHANGED <<socketVars, sent, ended, loopVars, calls, connected, announced>>

HandlerCloses(w) ==
    /\ At(w) = "received"
    /\ CloseAndThen(w, "check")
    /\ UNCHANGED <<socketVars, peerVars, streamVars, loopVars, calls, connected, history>>

\* A handler reads all that was announced to it.
HandlerReturns(w) ==
    /\ At(w) = "received"
    /\ area[On(w)] = 0 \/ eof[On(w)]
    /\ Goto(w, "check")
    /\ UNCHANGED <<socketVars, peerVars, streamVars, loopVars, calls, connected, history>>

-----------------------------------------------------------------------------
(* close(), by a handler, a user, or a destructor *)

\* Until open() has returned, the communicator is known to its opener only.
Opening(e) ==
    \E w \in Worker : On(w) = e /\ InHandler(w) /\ "register" \in {At(w), thread[w].ret}

MayCall(u, e) ==
    /\ At(u) = "idle" /\ calls < MaxCalls
    /\ stage[e] = "open" /\ ~ Opening(e)

CallClose(u, e, l) ==
    /\ thread' = [thread EXCEPT ![u] =
                     [Idle EXCEPT !.pc = "close", !.on = e, !.ret = l]]
    /\ calls' = calls + 1

UserCloses(u, e) ==
    /\ MayCall(u, e)
    /\ CallClose(u, e, "idle")
    /\ UNCHANGED <<socketVars, peerVars, streamVars, loopVars, connected, history>>

\* The destructor detaches, closes, and then destroys the socket.  Nobody
\* destroys what another thread is closing.
UserDestroys(u, e) ==
    /\ MayCall(u, e)
    /\ \A v \in User : On(v) # e
    /\ MayLock(u)
    /\ attached' = [attached EXCEPT ![e] = FALSE]
    /\ stage' = [stage EXCEPT ![e] = "destroyed"]
    /\ CallClose(u, e, "drop")
    /\ UNCHANGED <<os, fd, peerVars, streamVars, event, connected, history>>

\* if (_connected)
Close(a) ==
    /\ At(a) = "close"
    /\ Goto(a, IF connected[On(a)] THEN "clear" ELSE thread[a].ret)
    /\ UNCHANGED <<socketVars, peerVars, streamVars, loopVars, calls, connected, history>>

Racing(a) == \E b \in Actor \ {a} : On(b) = On(a) /\ At(b) \in ClosePc \ {"close"}

\* _connected = false
Clear(a) ==
    /\ At(a) = "clear"
    /\ connected' = [connected EXCEPT ![On(a)] = FALSE]
    /\ past' = IF Racing(a) THEN past \union {"raced"} ELSE past
    /\ Goto(a, "detach")
    /\ UNCHANGED <<socketVars, peerVars, streamVars, loopVars, calls, announced>>

Detach(a) ==
    /\ At(a) = "detach"
    /\ MayLock(a)
    /\ attached' = [attached EXCEPT ![On(a)] = FALSE]
    /\ Goto(a, "shut")
    /\ UNCHANGED <<socketVars, peerVars, streamVars, event, calls, connected, history>>

\* _socket.close(): the acceptor announces nothing.
Shut(a) ==
    /\ At(a) = "shut"
    /\ Release(On(a))
    /\ UNCHANGED <<fd, streamVars>>
    /\ Goto(a, IF On(a) = Acceptor THEN thread[a].ret ELSE "announce")

\* publish(disconnected())
Announce(a) ==
    /\ At(a) = "announce"
    /\ MayLock(a)
    /\ announced' = [announced EXCEPT ![On(a)] = @ + 1]
    /\ Goto(a, thread[a].ret)
    /\ UNCHANGED <<socketVars, peerVars, streamVars, loopVars, calls, connected, past>>

\* ~basic_socket() closes the number it still has; the object is gone.
Drop(u) ==
    /\ At(u) = "drop"
    /\ Release(On(u))
    /\ fd' = [fd EXCEPT ![On(u)] = Free]
    /\ area' = [c \in Conn |-> IF c = On(u) THEN 0 ELSE area[c]]
    /\ eof' = [c \in Conn |-> c # On(u) /\ eof[c]]
    /\ Goto(u, "idle")

-----------------------------------------------------------------------------

PeerNext == \E c \in Conn : PeerConnects(c) \/ PeerSends(c) \/ PeerEnds(c)

TaskNext(w) ==
    \/ \E e \in Endpoint : Trigger(w, e)
    \/ Publish(w) \/ Check(w) \/ ReAdd(w)

AcceptNext(w) ==
    \/ \E c \in Conn : Accept(w, c)
    \/ AcceptFails(w) \/ Open(w) \/ Register(w)

ReceiveNext(w) ==
    \/ Peek(w) \/ PeekFails(w)
    \/ HandlerReads(w) \/ HandlerReadsOn(w) \/ Recv(w)
    \/ HandlerCloses(w) \/ HandlerReturns(w)

CloseNext(a) == Close(a) \/ Clear(a) \/ Detach(a) \/ Shut(a) \/ Announce(a)

UserNext(u) ==
    \/ \E e \in Endpoint : UserCloses(u, e) \/ UserDestroys(u, e)
    \/ Drop(u)

Next ==
    \/ PeerNext
    \/ \E e \in Endpoint : RemoveBad(e)
    \/ \E w \in Worker : TaskNext(w) \/ AcceptNext(w) \/ ReceiveNext(w)
    \/ \E a \in Actor : CloseNext(a)
    \/ \E u \in User : UserNext(u)

Proceeds(w) ==
    \/ ReAdd(w) \/ AcceptNext(w) \/ Peek(w) \/ PeekFails(w)
    \/ HandlerReads(w) \/ Recv(w) \/ HandlerReturns(w)

\* The loop looks at every event each round and the queue of tasks is first in
\* first out; a waiter gets the mutex in the end; threads go on and handlers
\* return, when recv() does.  Peers and users owe nothing.
Fairness ==
    /\ \A e \in Endpoint : SF_vars(\E w \in Worker : Trigger(w, e))
    /\ \A w \in Worker : WF_vars(Proceeds(w)) /\ SF_vars(Publish(w) \/ Check(w))
    /\ \A a \in Actor :
          /\ WF_vars(Close(a) \/ Clear(a) \/ Shut(a))
          /\ SF_vars(Detach(a) \/ Announce(a))

Spec == Init /\ [][Next]_vars /\ Fairness

-----------------------------------------------------------------------------
(* Properties *)

\* Types; the get area and the kernel hold no more than the peers have sent,
\* and disconnections are counted for connections that were opened.
TypeOK ==
    /\ os \in [Fd -> Endpoint \union {Free}]
    /\ stage \in [Endpoint -> Stage]
    /\ sent \in 0..MaxData
    /\ wire \in [Conn -> 0..MaxData]
    /\ ended \in [Conn -> BOOLEAN]
    /\ fd \in [Endpoint -> Fd \union {Free}]
    /\ connected \in [Endpoint -> BOOLEAN]
    /\ attached \in [Endpoint -> BOOLEAN]
    /\ event \in [Endpoint -> EventPlace]
    /\ area \in [Conn -> 0..MaxData]
    /\ eof \in [Conn -> BOOLEAN]
    /\ thread \in [Actor -> Thread]
    /\ calls \in 0..MaxCalls
    /\ announced \in [Conn -> Nat]
    /\ past \subseteq Mishap

\* communicator.h: the communicator is the sole owner of its device.  As long as
\* no socket object has closed a number twice, an endpoint that says it is
\* connected has its own descriptor, and no handler reads, closed under it by
\* another thread, from a descriptor that is free or another connection's.
ReadsOwn ==
    "foreign" \notin past =>
        /\ "stray" \notin past
        /\ \A e \in Endpoint : connected[e] => Owner(e) = e

\* disconnected() is published at most once for a connection, and exactly once
\* when it has been destroyed, however the end of the peer, handlers, users and
\* the destructor follow each other; two threads inside close() at the same
\* time may publish it twice.
DisconnectedOnce ==
    "raced" \notin past =>
        \A c \in Conn :
            /\ announced[c] <= 1
            /\ stage[c] = "destroyed" /\ (\A a \in Actor : On(a) = c => At(a) \notin ClosePc)
                  => announced[c] = 1

\* on_ready_receive() begins with a read on a blocking socket, holding the mutex of
\* the broker, and takes an empty one for the end of the connection.  Until a number
\* is closed twice it is called for something that is there: this read never blocks,
\* and the communicator never closes a connection whose peer has not.
CalledForCause ==
    "foreign" \notin past =>
        /\ \A w \in Worker : At(w) = "peek" =>
              LET c == On(w) IN area[c] > 0 \/ HasData(Owner(c)) \/ AtEnd(Owner(c))
        /\ "cut" \notin past

\* A handler waits in recv() for a peer that is silent.
Blocked(w) == At(w) = "recv" /\ ~ HasData(Owner(On(w))) /\ ~ AtEnd(Owner(On(w)))

\* The descriptor of a connection whose peer has ended is given back in the
\* end, wherever the end comes in: the acceptor takes the connection, what
\* arrived is read, the empty read closes.  Not when the acceptor has been
\* closed or an accept() has failed, or a number was closed twice, and not as long
\* as a handler that reads on keeps the mutex, blocked by another peer's silence.
EndIsServed ==
    \A c \in Conn : Established(c) /\ ended[c] ~>
        \/ ~ Established(c)
        \/ stage[c] = "backlog" /\ (~ connected[Acceptor] \/ "refused" \in past)
        \/ "foreign" \in past
        \/ \E w \in Worker : Blocked(w)
=============================================================================
