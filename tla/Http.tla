-------------------------------- MODULE Http --------------------------------
(***************************************************************************)
(* protocols/http/src/{client,server,message}.cpp over communicator.h and  *)
(* the connector and communicator of io/src/tcp.cpp: clients that request, *)
(* a server that answers and is stopped.  A client has one connector, one  *)
(* communicator, one saved request and one promise.  Handlers run on       *)
(* workers and hold the mutex of the broker, so `handler' is the one that  *)
(* runs; client::request() and server::stop() are called by other threads  *)
(* without any lock.                                                       *)
(*                                                                         *)
(* A message is sent as its parts 1..Parts; a read takes from the          *)
(* connection as many parts as have arrived.                               *)
(***************************************************************************)
EXTENDS Integers, Sequences, FiniteSets

CONSTANTS
    Client,     \* clients, each with a program thread of its own
    None,       \* no client
    Parts,      \* parts in which a message may arrive
    MaxRequests \* bound: requests of one client

ASSUME NoneAssumption == None \notin Client
ASSUME BoundAssumption == Parts \in Nat \ {0} /\ MaxRequests \in Nat

Request == 1..MaxRequests

Requests == Request \union {0}

\* What a response makes of the connection, by its version and Connection field.
Disposition == {"keep", "close", "http10"}

\* A message as its parts: a request, or the response to one; request 0 stands
\* for what the server could not read.
Part == [of : Requests, part : 1..Parts, disp : Disposition]
Message(r, d) == [i \in 1..Parts |-> [of |-> r, part |-> i, disp |-> d]]

VARIABLES
    connector,  \* client::impl::_connector
    link,       \* the TCP connection of a client
    flight,     \* parts on their way, per direction
    area,       \* parts in the get area of the reader, per direction
    spoilt,     \* the reader's stream is no longer good, per direction
    connected,  \* client::impl::_connected
    opened,     \* communicator::_connected of the client
    saved,      \* client::impl::_request
    promise,    \* client::impl::_response
    future,     \* the futures a client's program was given
    user,       \* where the program of a client is
    peer,       \* server: the communicator of a client's connection
    server,     \* server: how far stop() has come
    handler,    \* the handler that runs
    past        \* history: what has happened to a client, see Mishap

networkVars == <<link, flight, area, spoilt>>
promiseVars == <<saved, promise, future>>
clientVars == <<connector, connected, opened, user>>
serverVars == <<peer, server>>
vars == <<networkVars, promiseVars, clientVars, serverVars, handler, past>>

\* spent: the socket and the event were moved out.
Connector == {"fresh", "connecting", "spent"}
\* asked: the handshake is under way; the others: which side has closed.
Link == {"none", "asked", "up", "refused", "clientClosed", "serverClosed", "closed"}
Way == {"toServer", "toClient"}
User == {"idle", "promise", "test", "connect", "send", "gone"}
Future == {"pending", "own", "other", "partial", "broken", "failed"}
Server == {"listening", "closing", "clearing", "stopped"}
ServerPc == {"accepted", "peerRead", "respond"}
ClientPc == {"connected", "open", "sendSaved", "read", "dispose", "close",
             "disconnected", "setValue"}

\* The handler that runs: for which client, the request it read or the request
\* its response is to, whether that was whole, and whether there is a response.
Handler == [pc : {"idle"} \union ServerPc \union ClientPc, client : Client \union {None},
            of : Requests, disp : Disposition, whole : BOOLEAN, answer : BOOLEAN]
Idle == [pc |-> "idle", client |-> None, of |-> 0, disp |-> "keep",
         whole |-> TRUE, answer |-> FALSE]

\* overlapped: a request was made while another was not answered;
\* slow: a read gave up before the whole message had arrived;
\* refused: the connection was refused;
\* ended: the connection ended before a request was answered;
\* thrown: set_value() found the promise set;
\* reopened: a request was made when the connector had been used.
Mishap == {"overlapped", "slow", "refused", "ended", "thrown", "reopened"}
Befalls(c, m) == past' = [past EXCEPT ![c] = @ \union {m}]

Init ==
    /\ connector = [c \in Client |-> "fresh"]
    /\ link = [c \in Client |-> "none"]
    /\ flight = [c \in Client |-> [w \in Way |-> <<>>]]
    /\ area = [c \in Client |-> [w \in Way |-> <<>>]]
    /\ spoilt = [c \in Client |-> [w \in Way |-> FALSE]]
    /\ connected = [c \in Client |-> FALSE]
    /\ opened = [c \in Client |-> FALSE]
    /\ saved = [c \in Client |-> 0]
    /\ promise = [c \in Client |-> [of |-> 0, set |-> FALSE]]
    /\ future = [c \in Client |-> <<>>]
    /\ user = [c \in Client |-> "idle"]
    /\ peer = [c \in Client |-> "none"]
    /\ server = "listening"
    /\ handler = Idle
    /\ past = [c \in Client |-> {}]

-----------------------------------------------------------------------------
(* The connection *)

ClientEnd == {"up", "serverClosed"}     \* links whose client has not closed
ServerEnd == {"up", "clientClosed"}     \* links whose server has not closed

\* What is sent to a side that has closed is lost.
Send(c, w, msg) ==
    flight' = [flight EXCEPT ![c][w] = IF link[c] = "up" THEN @ \o msg ELSE @]

\* The client closes: what it has not read is lost, and if there was any, the
\* reset may overtake what it has sent.  The same for the server.
CloseEnd(c, states, w, back) ==
    /\ link' = [link EXCEPT ![c] = IF @ = "up" THEN states[1] ELSE states[2]]
    /\ \E keep \in {TRUE, flight[c][w] = <<>>} :
          flight' = [flight EXCEPT ![c] = [x \in Way |->
                        IF x = back /\ keep THEN flight[c][x] ELSE <<>>]]
    /\ area' = [area EXCEPT ![c][w] = <<>>]
    /\ spoilt' = [spoilt EXCEPT ![c][w] = FALSE]
CloseClient(c) == CloseEnd(c, <<"clientClosed", "closed">>, "toClient", "toServer")
CloseServer(c) == CloseEnd(c, <<"serverClosed", "closed">>, "toServer", "toClient")

\* A read of a message takes what has arrived, a part or more if the area is
\* empty; it has the whole message, or waits on, or gives up.
Arrives(c, w, k) ==
    /\ k <= Len(flight[c][w])
    /\ flight' = [flight EXCEPT ![c][w] = SubSeq(@, k + 1, Len(@))]
Arrived(c, w, k) == area[c][w] \o SubSeq(flight[c][w], 1, k)

ReadWhole(c, w) ==
    \E k \in 0..Len(flight[c][w]) :
        LET s == Arrived(c, w, k) IN
        /\ Len(s) >= Parts
        /\ Arrives(c, w, k)
        /\ area' = [area EXCEPT ![c][w] = SubSeq(s, Parts + 1, Len(s))]
        /\ UNCHANGED spoilt

GiveUp(c, w) ==
    \E k \in 0..Len(flight[c][w]) :
        /\ Len(Arrived(c, w, k)) \in 1..(Parts - 1)
        /\ Arrives(c, w, k)
        /\ area' = [area EXCEPT ![c][w] = <<>>]
        /\ spoilt' = [spoilt EXCEPT ![c][w] = TRUE]

\* Of the message that the read takes.
First(c, w) == (area[c][w] \o flight[c][w])[1]

\* on_ready_receive(): is there anything to peek at?
Nothing(c, w) == spoilt[c][w] \/ area[c][w] \o flight[c][w] = <<>>

-----------------------------------------------------------------------------
(* Faulty variants of definitions below, used to test the properties *)

\* Keeps the promise of the first request.
NewPromiseOnce(c) ==
    /\ user[c] = "promise"
    /\ promise' = [promise EXCEPT ![c].of = saved[c]]
    /\ future' = [future EXCEPT ![c] = Append(@, "pending")]
    /\ user' = [user EXCEPT ![c] = "test"]
    /\ UNCHANGED <<networkVars, saved, connector, connected, opened, serverVars, handler, past>>

\* Opens the communicator and leaves it at that.
OpenOnly(c) ==
    /\ handler.pc = "open" /\ handler.client = c
    /\ opened' = [opened EXCEPT ![c] = TRUE]
    /\ connector' = [connector EXCEPT ![c] = "spent"]
    /\ handler' = Idle
    /\ UNCHANGED <<networkVars, promiseVars, connected, user, serverVars, past>>

\* Closes the acceptor without waiting for its handler.
StopUnlocked ==
    /\ server = "closing"
    /\ server' = "clearing"
    /\ link' = [c \in Client |-> IF link[c] = "asked" THEN "refused" ELSE link[c]]
    /\ UNCHANGED <<flight, area, spoilt, promiseVars, clientVars, peer, handler, past>>

\* The server destroys a peer and leaves its socket open.
ClearPeerOnly(c) ==
    /\ server = "clearing"
    /\ handler = Idle
    /\ peer[c] = "open"
    /\ peer' = [peer EXCEPT ![c] = "gone"]
    /\ UNCHANGED <<networkVars, promiseVars, clientVars, server, handler, past>>

-----------------------------------------------------------------------------
(* client::request(), by the program of the client *)

Pending(c, r) == r \in DOMAIN future[c] /\ future[c][r] = "pending"
Goto(c, l) == user' = [user EXCEPT ![c] = l]

SaveRequest(c) ==
    /\ user[c] = "idle"
    /\ Len(future[c]) < MaxRequests
    /\ saved' = [saved EXCEPT ![c] = Len(future[c]) + 1]
    /\ IF \E r \in Request : Pending(c, r) THEN Befalls(c, "overlapped") ELSE UNCHANGED past
    /\ Goto(c, "promise")
    /\ UNCHANGED <<networkVars, promise, future, connector, connected, opened,
                   serverVars, handler>>

\* The promise before, if it was not set, leaves a broken future behind.
Break(c) ==
    [r \in DOMAIN future[c] |->
        IF r = promise[c].of /\ ~ promise[c].set /\ future[c][r] = "pending"
        THEN "broken" ELSE future[c][r]]

NewPromise(c) ==
    /\ user[c] = "promise"
    /\ promise' = [promise EXCEPT ![c] = [of |-> saved[c], set |-> FALSE]]
    /\ future' = [future EXCEPT ![c] = Append(Break(c), "pending")]
    /\ Goto(c, "test")
    /\ UNCHANGED <<networkVars, saved, connector, connected, opened, serverVars, handler, past>>

TestConnected(c) ==
    /\ user[c] = "test"
    /\ Goto(c, IF connected[c] THEN "send" ELSE "connect")
    /\ UNCHANGED <<networkVars, promiseVars, connector, connected, opened,
                   serverVars, handler, past>>

Connect(c) ==
    /\ user[c] = "connect"
    /\ connector[c] = "fresh"
    /\ connector' = [connector EXCEPT ![c] = "connecting"]
    /\ link' = [link EXCEPT ![c] = "asked"]
    /\ Goto(c, "idle")
    /\ UNCHANGED <<flight, area, spoilt, promiseVars, connected, opened,
                   serverVars, handler, past>>

\* connect() on a socket that is connecting fails; an event that was moved out
\* is never signalled; a socket that was moved out is a null pointer.
ConnectAgain(c) ==
    /\ user[c] = "connect"
    /\ connector[c] # "fresh"
    /\ Befalls(c, "reopened")
    /\ Goto(c, "gone")
    /\ UNCHANGED <<networkVars, promiseVars, connector, connected, opened,
                   serverVars, handler>>

\* The stream of a communicator that is not open yet throws.
SendRequest(c) ==
    /\ user[c] = "send"
    /\ IF opened[c]
       THEN Send(c, "toServer", Message(saved[c], "keep")) /\ UNCHANGED past
       ELSE Befalls(c, "ended") /\ UNCHANGED flight
    /\ Goto(c, "idle")
    /\ UNCHANGED <<link, area, spoilt, promiseVars, connector, connected, opened,
                   serverVars, handler>>

\* The destructor detaches, which waits for handlers; the members follow.
DestroyClient(c) ==
    /\ user[c] = "idle"
    /\ handler = Idle
    /\ future' = [future EXCEPT ![c] = Break(c)]
    /\ opened' = [opened EXCEPT ![c] = FALSE]
    /\ connector' = [connector EXCEPT ![c] = "spent"]
    /\ Goto(c, "gone")
    /\ IF link[c] \in ClientEnd THEN CloseClient(c)
       ELSE /\ link' = [link EXCEPT ![c] = IF @ \in {"none", "asked"} THEN "closed" ELSE @]
            /\ UNCHANGED <<flight, area, spoilt>>
    /\ UNCHANGED <<saved, promise, connected, serverVars, handler, past>>

-----------------------------------------------------------------------------
(* The client's handlers *)

Run(c, l) == handler = Idle /\ handler' = [Idle EXCEPT !.pc = l, !.client = c]
Step(c, l, m) ==
    /\ handler.pc = l /\ handler.client = c
    /\ handler' = IF m = "idle" THEN Idle ELSE [handler EXCEPT !.pc = m]

\* The kernel of the server completes the handshake while it listens.
Handshake(c) ==
    /\ link[c] = "asked"
    /\ link' = [link EXCEPT ![c] =
                   IF server \in {"listening", "closing"} THEN "up" ELSE "refused"]
    /\ UNCHANGED <<flight, area, spoilt, promiseVars, clientVars, serverVars, handler, past>>

\* connector::on_ready_connect() of a connection that was refused throws.
ConnectRefused(c) ==
    /\ handler = Idle
    /\ connector[c] = "connecting" /\ link[c] = "refused"
    /\ connector' = [connector EXCEPT ![c] = "spent"]
    /\ Befalls(c, "refused")
    /\ UNCHANGED <<networkVars, promiseVars, connected, opened, user, serverVars, handler>>

ConnectReady(c) ==
    /\ connector[c] = "connecting" /\ link[c] \in ClientEnd
    /\ Run(c, "connected")
    /\ connector' = [connector EXCEPT ![c] = "spent"]
    /\ UNCHANGED <<networkVars, promiseVars, connected, opened, user, serverVars, past>>

\* client::impl::on_connected(), statement by statement.
OnConnected(c) ==
    /\ Step(c, "connected", "open")
    /\ connected' = [connected EXCEPT ![c] = TRUE]
    /\ UNCHANGED <<networkVars, promiseVars, connector, opened, user, serverVars, past>>

Open(c) ==
    /\ Step(c, "open", "sendSaved")
    /\ opened' = [opened EXCEPT ![c] = TRUE]
    /\ UNCHANGED <<networkVars, promiseVars, connector, connected, user, serverVars, past>>

SendSaved(c) ==
    /\ Step(c, "sendSaved", "idle")
    /\ Send(c, "toServer", Message(saved[c], "keep"))
    /\ UNCHANGED <<link, area, spoilt, promiseVars, clientVars, serverVars, past>>

\* The receive event of the client's communicator; a handler that has thrown
\* has lost it.
ClientReady(c) ==
    /\ opened[c] /\ "thrown" \notin past[c]
    /\ flight[c]["toClient"] # <<>> \/ link[c] = "serverClosed"
    /\ Run(c, IF Nothing(c, "toClient") THEN "close" ELSE "read")
    /\ UNCHANGED <<networkVars, promiseVars, clientVars, serverVars, past>>

ClientReads(c) ==
    LET p == First(c, "toClient") IN
    /\ handler.pc = "read" /\ handler.client = c
    /\ ReadWhole(c, "toClient")
    /\ handler' = [handler EXCEPT !.pc = "dispose", !.of = p.of, !.disp = p.disp,
                                  !.answer = TRUE]
    /\ UNCHANGED <<link, promiseVars, clientVars, serverVars, past>>

\* The connector's socket is not a blocking one: a read waits ten times a millisecond.
\* The exception is caught; whether the connection is closed depends on how far the
\* read came.
ClientGivesUp(c) ==
    /\ handler.pc = "read" /\ handler.client = c
    /\ GiveUp(c, "toClient")
    /\ \E d \in {"keep", "close"} :
          handler' = [handler EXCEPT !.pc = "dispose", !.disp = d, !.whole = FALSE,
                                     !.answer = TRUE]
    /\ Befalls(c, "slow")
    /\ UNCHANGED <<link, promiseVars, clientVars, serverVars>>

Dispose(c) ==
    /\ Step(c, "dispose", IF handler.disp = "keep" THEN "setValue" ELSE "close")
    /\ UNCHANGED <<networkVars, promiseVars, clientVars, serverVars, past>>

\* communicator::close(), also when there was nothing to peek at.
ClientCloses(c) ==
    /\ Step(c, "close", "disconnected")
    /\ opened' = [opened EXCEPT ![c] = FALSE]
    /\ CloseClient(c)
    /\ UNCHANGED <<promiseVars, connector, connected, user, serverVars, past>>

OnDisconnected(c) ==
    /\ Step(c, "disconnected", IF handler.answer THEN "setValue" ELSE "idle")
    /\ connected' = [connected EXCEPT ![c] = FALSE]
    /\ IF ~ handler.answer /\ \E r \in Request : Pending(c, r)
       THEN Befalls(c, "ended") ELSE UNCHANGED past
    /\ UNCHANGED <<networkVars, promiseVars, connector, opened, user, serverVars>>

Answer(c) ==
    IF ~ handler.whole THEN "partial"
    ELSE IF handler.of = promise[c].of THEN "own" ELSE "other"

SetValue(c) ==
    /\ Step(c, "setValue", "idle")
    /\ IF promise[c].set
       THEN Befalls(c, "thrown") /\ UNCHANGED <<promise, future>>
       ELSE /\ promise' = [promise EXCEPT ![c].set = TRUE]
            /\ future' = [future EXCEPT ![c][promise[c].of] = Answer(c)]
            /\ UNCHANGED past
    /\ UNCHANGED <<networkVars, saved, clientVars, serverVars>>

-----------------------------------------------------------------------------
(* The server *)

\* on_ready_accept() and the handler of accepted().
AcceptReady(c) ==
    /\ server = "listening"
    /\ link[c] \in ServerEnd /\ peer[c] = "none"
    /\ Run(c, "accepted")
    /\ UNCHANGED <<networkVars, promiseVars, clientVars, serverVars, past>>

OnAccepted(c) ==
    /\ Step(c, "accepted", "idle")
    /\ peer' = [peer EXCEPT ![c] = "open"]
    /\ UNCHANGED <<networkVars, promiseVars, clientVars, server, past>>

PeerReady(c) ==
    /\ peer[c] = "open"
    /\ link[c] \in ServerEnd
    /\ flight[c]["toServer"] # <<>> \/ link[c] = "clientClosed"
    /\ ~ Nothing(c, "toServer")
    /\ Run(c, "peerRead")
    /\ UNCHANGED <<networkVars, promiseVars, clientVars, serverVars, past>>

\* An empty read: the peer's communicator closes, the peer stays on the list.
PeerEnds(c) ==
    /\ handler = Idle
    /\ peer[c] = "open"
    /\ link[c] \in ServerEnd
    /\ flight[c]["toServer"] # <<>> \/ link[c] = "clientClosed"
    /\ Nothing(c, "toServer")
    /\ CloseServer(c)
    /\ UNCHANGED <<promiseVars, clientVars, serverVars, handler, past>>

\* peer::on_requested(): the request, or a response to what could not be read.
PeerReads(c) ==
    /\ handler.pc = "peerRead" /\ handler.client = c
    /\ ReadWhole(c, "toServer")
    /\ handler' = [handler EXCEPT !.pc = "respond", !.of = First(c, "toServer").of]
    /\ UNCHANGED <<link, promiseVars, clientVars, serverVars, past>>

\* The socket that accept() returned is a blocking one: the read waits for the rest
\* of a request, and only the end of the connection in the middle of it is an error.
PeerGivesUp(c) ==
    /\ handler.pc = "peerRead" /\ handler.client = c
    /\ link[c] = "clientClosed"
    /\ GiveUp(c, "toServer") /\ flight'[c]["toServer"] = <<>>
    /\ handler' = [handler EXCEPT !.pc = "respond", !.whole = FALSE]
    /\ Befalls(c, "slow")
    /\ UNCHANGED <<link, promiseVars, clientVars, serverVars>>

\* A response of HTTP/1.0 closes the connection after it was sent.
Respond(c) ==
    /\ Step(c, "respond", "idle")
    /\ \E d \in IF handler.whole THEN Disposition ELSE {"keep"} :
          LET msg == Message(handler.of, d)
              sent == IF link[c] = "up" THEN msg ELSE <<>>
          IN
          IF d # "http10"
          THEN Send(c, "toClient", msg) /\ UNCHANGED <<link, area, spoilt>>
          ELSE /\ link' = [link EXCEPT ![c] = IF @ = "up" THEN "serverClosed" ELSE "closed"]
               /\ flight' = [flight EXCEPT ![c] =
                     [w \in Way |-> IF w = "toClient" THEN @[w] \o sent ELSE <<>>]]
               /\ area' = [area EXCEPT ![c]["toServer"] = <<>>]
               /\ spoilt' = [spoilt EXCEPT ![c]["toServer"] = FALSE]
    /\ UNCHANGED <<promiseVars, clientVars, serverVars, past>>

\* server::stop(): acceptor::close() clears its flag, waits for the handler in
\* detach() and closes the socket; then the peers are destroyed.
StopBegins ==
    /\ server = "listening"
    /\ server' = "closing"
    /\ UNCHANGED <<networkVars, promiseVars, clientVars, peer, handler, past>>

StopDetaches ==
    /\ server = "closing"
    /\ handler = Idle
    /\ server' = "clearing"
    /\ link' = [c \in Client |->
                   CASE link[c] = "asked" -> "refused"
                     [] peer[c] = "none" /\ link[c] = "up" -> "serverClosed"
                     [] peer[c] = "none" /\ link[c] = "clientClosed" -> "closed"
                     [] OTHER -> link[c]]
    /\ flight' = [c \in Client |-> IF peer[c] = "none" THEN [w \in Way |-> <<>>] ELSE flight[c]]
    /\ UNCHANGED <<area, spoilt, promiseVars, clientVars, peer, handler, past>>

ClearPeer(c) ==
    /\ server = "clearing"
    /\ handler = Idle
    /\ peer[c] = "open"
    /\ peer' = [peer EXCEPT ![c] = "gone"]
    /\ IF link[c] \in ServerEnd THEN CloseServer(c) ELSE UNCHANGED networkVars
    /\ UNCHANGED <<promiseVars, clientVars, server, handler, past>>

StopEnds ==
    /\ server = "clearing"
    /\ \A c \in Client : peer[c] # "open"
    /\ server' = "stopped"
    /\ UNCHANGED <<networkVars, promiseVars, clientVars, peer, handler, past>>

-----------------------------------------------------------------------------

ProgramNext(c) ==
    \/ SaveRequest(c) \/ NewPromise(c) \/ TestConnected(c)
    \/ Connect(c) \/ ConnectAgain(c) \/ SendRequest(c) \/ DestroyClient(c)

ClientNext(c) ==
    \/ ConnectRefused(c) \/ ConnectReady(c) \/ OnConnected(c) \/ Open(c) \/ SendSaved(c)
    \/ ClientReady(c) \/ ClientReads(c) \/ ClientGivesUp(c) \/ Dispose(c)
    \/ ClientCloses(c) \/ OnDisconnected(c) \/ SetValue(c)

PeerNext(c) ==
    \/ AcceptReady(c) \/ OnAccepted(c) \/ PeerReady(c) \/ PeerEnds(c)
    \/ PeerReads(c) \/ PeerGivesUp(c) \/ Respond(c)

Stopping == StopBegins \/ StopDetaches \/ StopEnds \/ \E c \in Client : ClearPeer(c)

Next ==
    \/ \E c \in Client : ProgramNext(c) \/ Handshake(c) \/ ClientNext(c) \/ PeerNext(c)
    \/ Stopping

\* Handlers return, readiness is served, a call that has begun goes on, and who
\* waits for the mutex gets it; nobody has to request, to stop or to destroy, nor
\* a client's read to give up while more may come.
Fairness ==
    /\ SF_vars(StopDetaches \/ \E c \in Client : ClearPeer(c))
    /\ \A c \in Client :
        /\ WF_vars(NewPromise(c) \/ TestConnected(c) \/ Connect(c)
                     \/ ConnectAgain(c) \/ SendRequest(c))
        /\ WF_vars(Handshake(c))
        /\ SF_vars(ConnectRefused(c) \/ ConnectReady(c))
        /\ SF_vars(ClientReady(c))
        /\ SF_vars(AcceptReady(c) \/ PeerReady(c) \/ PeerEnds(c))
        /\ WF_vars(OnConnected(c) \/ Open(c) \/ SendSaved(c) \/ ClientReads(c) \/ Dispose(c)
                     \/ ClientCloses(c) \/ OnDisconnected(c) \/ SetValue(c))
        /\ WF_vars(OnAccepted(c) \/ PeerReads(c) \/ Respond(c))
        /\ WF_vars(link[c] # "up" /\ (ClientGivesUp(c) \/ PeerGivesUp(c)))

Spec == Init /\ [][Next]_vars /\ Fairness

-----------------------------------------------------------------------------
(* Properties *)

\* Types, and who has the socket of a connection: a communicator is open on a
\* connection whose side has not closed, and has it from a connector that gave
\* it away; a peer that is gone has closed its side.
TypeOK ==
    /\ connector \in [Client -> Connector]
    /\ link \in [Client -> Link]
    /\ flight \in [Client -> [Way -> Seq(Part)]]
    /\ area \in [Client -> [Way -> Seq(Part)]]
    /\ spoilt \in [Client -> [Way -> BOOLEAN]]
    /\ connected \in [Client -> BOOLEAN]
    /\ opened \in [Client -> BOOLEAN]
    /\ saved \in [Client -> Requests]
    /\ promise \in [Client -> [of : Requests, set : BOOLEAN]]
    /\ future \in [Client -> Seq(Future)]
    /\ user \in [Client -> User]
    /\ peer \in [Client -> {"none", "open", "gone"}]
    /\ server \in Server
    /\ handler \in Handler
    /\ past \in [Client -> SUBSET Mishap]
    /\ \A c \in Client :
          /\ opened[c] => link[c] \in ClientEnd /\ connector[c] = "spent"
          /\ peer[c] = "gone" => link[c] \notin ServerEnd

\* A future gets the response to its own request, whole, and no response is left
\* over for which there is no promise: for programs that await each response
\* before the next request, and as long as no read gives up in the middle of a
\* message, whatever the server says about the connection and whenever it stops.
OwnAnswer ==
    \A c \in Client :
        past[c] \intersect {"overlapped", "slow"} = {} =>
            /\ "thrown" \notin past[c]
            /\ \A r \in DOMAIN future[c] : future[c][r] \notin {"other", "partial"}

\* After server::stop() has returned no peer exists, and no handler of the
\* server runs, although stop() takes no lock of its own.
StopIsBarrier ==
    server = "stopped" =>
        /\ \A c \in Client : peer[c] # "open"
        /\ handler.pc \notin ServerPc

\* A request is answered in the end, or its client is destroyed, unless it
\* overlapped another, its connection was refused or had ended before, ended
\* before the response, or a read gave up: nobody completes a future then.
Answered ==
    \A c \in Client : \A r \in Request :
        Pending(c, r) ~> ~ Pending(c, r) \/ past[c] # {}
=============================================================================
