----------------------------- MODULE HttpProofs ----------------------------
(***************************************************************************)
(* Theorems about Http for every set of clients, any number of requests    *)
(* and of parts of a message: its type invariant with the owners of each   *)
(* socket, that a client's futures get the responses to their own requests,*)
(* that no request is forgotten and that server::stop() leaves no handler  *)
(* of the server behind.                                                   *)
(***************************************************************************)
EXTENDS Http, SequenceTheorems, TLAPS

-----------------------------------------------------------------------------
(* The invariant *)

Serves(c, points) == handler.client = c /\ handler.pc \in points

\* Who may close the socket of a connection: what a handler found before it runs
\* stays true while it runs.
SocketsOwned ==
    /\ handler.pc = "idle" => handler = Idle
    /\ handler # Idle => handler.client \in Client
    /\ \A c \in Client :
          /\ connector[c] = "fresh" => link[c] = "none"
          /\ peer[c] # "none" => link[c] \notin {"none", "asked"}
          /\ Serves(c, ClientPc) => connector[c] = "spent"
          /\ Serves(c, {"connected", "open"}) => link[c] \in ClientEnd
          /\ Serves(c, ServerPc) => link[c] \in ServerEnd
          /\ Serves(c, {"peerRead", "respond"}) => peer[c] = "open"
    /\ handler.pc = "accepted" => server \in {"listening", "closing"}

\* Where a request, or the response to it, may be.
InProgram(c) == user[c] \in {"test", "connect", "send"}
InConnector(c) == connector[c] = "connecting"
AtOpening(c) == Serves(c, {"connected", "open", "sendSaved"})
ToServer(c) == flight[c]["toServer"] # <<>>
AtServer(c) == Serves(c, {"respond"})
ToClient(c) == flight[c]["toClient"] # <<>>
AtClient(c) == handler.client = c /\ handler.answer

Carried(c) ==
    \/ InProgram(c) \/ InConnector(c) \/ AtOpening(c) \/ ToServer(c)
    \/ AtServer(c) \/ ToClient(c) \/ AtClient(c)

\* It is at one place at a time.
InOnePlace(c) ==
    /\ InProgram(c) => ~ (InConnector(c) \/ AtOpening(c) \/ ToServer(c) \/ AtServer(c)
                             \/ ToClient(c) \/ AtClient(c))
    /\ InConnector(c) => ~ (AtOpening(c) \/ ToServer(c) \/ AtServer(c) \/ ToClient(c)
                               \/ AtClient(c))
    /\ AtOpening(c) => ~ (ToServer(c) \/ ToClient(c))
    /\ ToServer(c) => ~ (AtServer(c) \/ ToClient(c) \/ AtClient(c))
    /\ AtServer(c) => ~ ToClient(c)
    /\ ToClient(c) => ~ AtClient(c)

\* It is the one of the client's promise, which nobody has set.
OwnPromise(c) ==
    /\ Carried(c) =>
          /\ ~ promise[c].set
          /\ user[c] # "promise"
          /\ user[c] # "gone" => Pending(c, promise[c].of)
    /\ user[c] = "promise" => saved[c] = Len(future[c]) + 1 /\ promise[c].of = Len(future[c])
    /\ user[c] # "promise" => saved[c] = promise[c].of /\ promise[c].of = Len(future[c])
    /\ ToServer(c) => flight[c]["toServer"] = Message(promise[c].of, "keep")
    /\ AtServer(c) => handler.of = promise[c].of
    /\ ToClient(c) => \E d \in Disposition : flight[c]["toClient"] = Message(promise[c].of, d)
    /\ AtClient(c) => handler.of = promise[c].of

\* Readers take messages whole, and only a handler that has read has an answer.
ReadsWhole(c) ==
    /\ \A w \in Way : area[c][w] = <<>> /\ spoilt[c][w] = FALSE
    /\ handler.client = c =>
          /\ handler.whole
          /\ handler.pc \in {"dispose", "setValue"} => handler.answer
          /\ handler.pc \in {"connected", "open", "sendSaved", "respond"} => ~ handler.answer

Regular(c) == past[c] \intersect {"overlapped", "slow"} = {}

Owned(c) ==
    /\ "thrown" \notin past[c]
    /\ \A r \in DOMAIN future[c] : future[c][r] \notin {"other", "partial"}

Exchange(c) == InOnePlace(c) /\ OwnPromise(c) /\ ReadsWhole(c) /\ Owned(c)

ExchangesAgree == \A c \in Client : Regular(c) => Exchange(c)

IInv ==
    /\ TypeOK
    /\ SocketsOwned
    /\ StopIsBarrier
    /\ ExchangesAgree
-----------------------------------------------------------------------------
(* Facts about messages and connections *)

\* A message has its parts, in their order, and is not empty.
LEMMA MessageFacts ==
    ASSUME NEW r \in Requests, NEW d \in Disposition
    PROVE  /\ Message(r, d) \in Seq(Part)
           /\ Len(Message(r, d)) = Parts
           /\ Message(r, d) # <<>>
           /\ Message(r, d)[1].of = r
  <1> DEFINE m == Message(r, d)
  <1>1. Parts \in Nat /\ Parts > 0
    BY BoundAssumption
  <1>2. \A i \in 1 .. Parts : [of |-> r, part |-> i, disp |-> d] \in Part
    BY DEF Part
  <1>3. m \in [1 .. Parts -> Part]
    BY <1>2 DEF Message
  <1>4. m \in Seq(Part)
    BY <1>1, <1>3
  <1>5. DOMAIN m = 1 .. Len(m) /\ Len(m) \in Nat /\ DOMAIN m = 1 .. Parts
    BY <1>3, <1>4
  <1> HIDE DEF m
  <1>6. Len(m) = Parts
    <2> DEFINE n == Len(m)
    <2>1. n \in Nat /\ 1 .. n = 1 .. Parts
      BY <1>5
    <2> HIDE DEF n
    <2>2. Parts \in 1 .. n
      BY <1>1, <2>1
    <2>3. n > 0
      BY <1>1, <2>1, <2>2
    <2>4. n \in 1 .. n
      BY <2>1, <2>3
    <2>5. n \in 1 .. Parts
      BY <2>1, <2>4
    <2>6. n = Parts
      BY <1>1, <2>1, <2>2, <2>5
    <2>7. QED
      BY <2>6 DEF n
  <1>7. m[1].of = r
    BY <1>1 DEF Message, m
  <1>8. QED
    BY <1>1, <1>4, <1>6, <1>7 DEF m

\* What a read finds and leaves: of one message that has arrived it leaves nothing.
LEMMA PrefixFacts ==
    ASSUME NEW S, NEW a \in Seq(S), NEW f \in Seq(S), NEW k \in 0 .. Len(f)
    PROVE  /\ SubSeq(f, k + 1, Len(f)) \in Seq(S)
           /\ a \o SubSeq(f, 1, k) \in Seq(S)
           /\ Len(a \o SubSeq(f, 1, k)) = Len(a) + k
           /\ a \o f \in Seq(S) /\ Len(a \o f) = Len(a) + Len(f)
           /\ a = <<>> => a \o f = f
           /\ k = Len(f) => SubSeq(f, k + 1, Len(f)) = <<>>
  <1>1. Len(f) \in Nat /\ Len(a) \in Nat /\ DOMAIN f = 1 .. Len(f) /\ k \in Nat /\ k <= Len(f)
    OBVIOUS
  <1>2. \A i \in 1 .. Len(f) : f[i] \in S
    OBVIOUS
  <1>3. SubSeq(f, 1, k) \in Seq(S) /\ Len(SubSeq(f, 1, k)) = k
    <2>1. \A i \in 1 .. k : f[i] \in S
      BY <1>1, <1>2
    <2>2. /\ SubSeq(f, 1, k) \in Seq(S)
          /\ Len(SubSeq(f, 1, k)) = IF 1 <= k THEN k - 1 + 1 ELSE 0
      BY <1>1, <2>1, SubSeqProperties
    <2>3. QED
      BY <1>1, <2>2
  <1>4. SubSeq(f, k + 1, Len(f)) \in Seq(S)
    <2>1. \A i \in (k + 1) .. Len(f) : f[i] \in S
      BY <1>1, <1>2
    <2>2. QED
      BY <1>1, <2>1, SubSeqProperties
  <1>5. /\ a \o SubSeq(f, 1, k) \in Seq(S)
        /\ Len(a \o SubSeq(f, 1, k)) = Len(a) + Len(SubSeq(f, 1, k))
    BY <1>3, ConcatProperties
  <1>6. a \o f \in Seq(S) /\ Len(a \o f) = Len(a) + Len(f)
    BY ConcatProperties
  <1>7. a = <<>> => a \o f = f
    BY ConcatEmptySeq
  <1>8. k = Len(f) => SubSeq(f, k + 1, Len(f)) = <<>>
    BY <1>1, SubSeqEmpty
  <1>9. QED
    BY <1>3, <1>4, <1>5, <1>6, <1>7, <1>8

\* A read takes what it takes from one direction of one connection; of a single
\* message that has arrived it leaves nothing, and without one it goes on waiting.
LEMMA ReadFacts ==
    ASSUME TypeOK, NEW c \in Client, NEW w \in Way, ReadWhole(c, w)
    PROVE  /\ flight' \in [Client -> [Way -> Seq(Part)]]
           /\ area' \in [Client -> [Way -> Seq(Part)]]
           /\ UNCHANGED spoilt
           /\ First(c, w) \in Part
           /\ \A d \in Client, x \in Way : d # c \/ x # w =>
                 flight'[d][x] = flight[d][x] /\ area'[d][x] = area[d][x]
           /\ \A d \in Client : d # c => flight'[d] = flight[d] /\ area'[d] = area[d]
           /\ area[c][w] = <<>> /\ Len(flight[c][w]) \in {0, Parts} =>
                 /\ flight[c][w] # <<>>
                 /\ First(c, w) = flight[c][w][1]
                 /\ flight'[c][w] = <<>> /\ area'[c][w] = <<>>
  <1> DEFINE a == area[c][w]
             f == flight[c][w]
  <1>1. a \in Seq(Part) /\ f \in Seq(Part)
    BY DEF TypeOK
  <1>2. PICK k \in 0 .. Len(f) :
           /\ Len(Arrived(c, w, k)) >= Parts
           /\ Arrives(c, w, k)
           /\ area' = [area EXCEPT ![c][w] = SubSeq(Arrived(c, w, k), Parts + 1,
                                                    Len(Arrived(c, w, k)))]
           /\ UNCHANGED spoilt
    BY DEF ReadWhole
  <1> DEFINE s == Arrived(c, w, k)
             rest == SubSeq(f, k + 1, Len(f))
             left == SubSeq(s, Parts + 1, Len(s))
  <1>3. /\ rest \in Seq(Part) /\ s \in Seq(Part) /\ Len(s) = Len(a) + k
        /\ a \o f \in Seq(Part) /\ Len(a \o f) = Len(a) + Len(f)
        /\ a = <<>> => a \o f = f
        /\ k = Len(f) => rest = <<>>
    <2>1. s = a \o SubSeq(f, 1, k)
      BY DEF Arrived
    <2> HIDE DEF a, f, s
    <2>2. QED
      BY <1>1, <2>1, PrefixFacts
  <1>4. left \in Seq(Part) /\ (Len(s) = Parts => left = <<>>)
    <2>1. Len(s) \in Nat /\ Parts \in Nat /\ \A i \in 1 .. Len(s) : s[i] \in Part
      BY <1>3, BoundAssumption
    <2>2. \A i \in (Parts + 1) .. Len(s) : s[i] \in Part
      BY <2>1
    <2>3. left \in Seq(Part)
      BY <2>1, <2>2, SubSeqProperties
    <2>4. Len(s) = Parts => left = <<>>
      BY <2>1, SubSeqEmpty
    <2>5. QED
      BY <2>3, <2>4
  <1>5. flight' = [flight EXCEPT ![c][w] = rest] /\ area' = [area EXCEPT ![c][w] = left]
    BY <1>2 DEF Arrives
  <1>6. Len(s) >= Parts /\ UNCHANGED spoilt
    BY <1>2
  <1> HIDE DEF s, rest, left
  <1>7. First(c, w) \in Part
    <2> HIDE DEF a, f
    <2>1. 1 \in 1 .. Len(a \o f)
      BY <1>1, <1>3, <1>6, BoundAssumption
    <2>2. QED
      BY <1>3, <2>1, ElementOfSeq DEF First, a, f
  <1>8. ASSUME a = <<>>, Len(f) \in {0, Parts}
        PROVE  f # <<>> /\ First(c, w) = f[1] /\ rest = <<>> /\ left = <<>>
    <2>1. Len(a) = 0 /\ k \in Nat /\ k <= Len(f) /\ Len(f) \in Nat /\ Parts \in Nat /\ Parts > 0
      BY <1>1, <1>8, BoundAssumption
    <2>2. k = Parts /\ k = Len(f) /\ Len(s) = Parts
      BY <1>3, <1>6, <1>8, <2>1
    <2>3. QED
      BY <1>3, <1>4, <1>8, <2>1, <2>2 DEF First
  <1>9. QED
    BY <1>3, <1>4, <1>5, <1>6, <1>7, <1>8 DEF TypeOK

\* A read that gives up changes one direction of one connection.
LEMMA GiveUpFacts ==
    ASSUME TypeOK, NEW c \in Client, NEW w \in Way, GiveUp(c, w)
    PROVE  /\ flight' \in [Client -> [Way -> Seq(Part)]]
           /\ area' \in [Client -> [Way -> Seq(Part)]]
           /\ spoilt' \in [Client -> [Way -> BOOLEAN]]
           /\ \A d \in Client : d # c =>
                 flight'[d] = flight[d] /\ area'[d] = area[d] /\ spoilt'[d] = spoilt[d]
  <1>1. area[c][w] \in Seq(Part) /\ flight[c][w] \in Seq(Part)
    BY DEF TypeOK
  <1>2. PICK k \in 0 .. Len(flight[c][w]) :
           /\ Arrives(c, w, k)
           /\ area' = [area EXCEPT ![c][w] = <<>>]
           /\ spoilt' = [spoilt EXCEPT ![c][w] = TRUE]
    BY DEF GiveUp
  <1>3. SubSeq(flight[c][w], k + 1, Len(flight[c][w])) \in Seq(Part) /\ <<>> \in Seq(Part)
    BY <1>1, PrefixFacts
  <1>4. QED
    BY <1>2, <1>3 DEF TypeOK, Arrives

\* A side that closes clears what was on its way to it, and may lose what it has sent.
LEMMA CloseFacts ==
    ASSUME TypeOK, NEW c \in Client, NEW states, NEW w \in Way, NEW back \in Way, w # back,
           CloseEnd(c, states, w, back)
    PROVE  /\ flight' \in [Client -> [Way -> Seq(Part)]]
           /\ area' \in [Client -> [Way -> Seq(Part)]]
           /\ spoilt' \in [Client -> [Way -> BOOLEAN]]
           /\ link' = [link EXCEPT ![c] = IF @ = "up" THEN states[1] ELSE states[2]]
           /\ \A d \in Client : d # c =>
                 flight'[d] = flight[d] /\ area'[d] = area[d] /\ spoilt'[d] = spoilt[d]
           /\ flight'[c][w] = <<>>
           /\ flight'[c][back] \in {flight[c][back], <<>>}
           /\ \A x \in Way : /\ area'[c][x] \in {area[c][x], <<>>}
                             /\ spoilt'[c][x] \in {spoilt[c][x], FALSE}
  <1>1. PICK keep \in BOOLEAN :
           flight' = [flight EXCEPT ![c] = [x \in Way |->
                         IF x = back /\ keep THEN flight[c][x] ELSE <<>>]]
    BY DEF CloseEnd
  <1>2. <<>> \in Seq(Part)
    OBVIOUS
  <1>3. QED
    BY <1>1, <1>2 DEF CloseEnd, TypeOK

LEMMA CloseClientFacts ==
    ASSUME TypeOK, NEW c \in Client, CloseClient(c)
    PROVE  /\ flight' \in [Client -> [Way -> Seq(Part)]]
           /\ area' \in [Client -> [Way -> Seq(Part)]]
           /\ spoilt' \in [Client -> [Way -> BOOLEAN]]
           /\ link' = [link EXCEPT ![c] = IF @ = "up" THEN "clientClosed" ELSE "closed"]
           /\ \A d \in Client : d # c =>
                 flight'[d] = flight[d] /\ area'[d] = area[d] /\ spoilt'[d] = spoilt[d]
           /\ flight'[c]["toClient"] = <<>>
           /\ flight'[c]["toServer"] \in {flight[c]["toServer"], <<>>}
           /\ \A x \in Way : /\ area'[c][x] \in {area[c][x], <<>>}
                             /\ spoilt'[c][x] \in {spoilt[c][x], FALSE}
  <1>1. "toClient" \in Way /\ "toServer" \in Way /\ "toClient" # "toServer"
    BY DEF Way
  <1> DEFINE states == <<"clientClosed", "closed">>
  <1>2. CloseEnd(c, states, "toClient", "toServer")
    BY DEF CloseClient
  <1>3. link' = [link EXCEPT ![c] = IF @ = "up" THEN "clientClosed" ELSE "closed"]
    BY <1>2 DEF CloseEnd
  <1> HIDE DEF states
  <1>4. /\ flight' \in [Client -> [Way -> Seq(Part)]]
        /\ area' \in [Client -> [Way -> Seq(Part)]]
        /\ spoilt' \in [Client -> [Way -> BOOLEAN]]
        /\ \A d \in Client : d # c =>
              flight'[d] = flight[d] /\ area'[d] = area[d] /\ spoilt'[d] = spoilt[d]
        /\ flight'[c]["toClient"] = <<>>
        /\ flight'[c]["toServer"] \in {flight[c]["toServer"], <<>>}
        /\ \A x \in Way : /\ area'[c][x] \in {area[c][x], <<>>}
                          /\ spoilt'[c][x] \in {spoilt[c][x], FALSE}
    BY <1>1, <1>2, CloseFacts, Zenon
  <1>5. QED
    BY <1>3, <1>4

LEMMA CloseServerFacts ==
    ASSUME TypeOK, NEW c \in Client, CloseServer(c)
    PROVE  /\ flight' \in [Client -> [Way -> Seq(Part)]]
           /\ area' \in [Client -> [Way -> Seq(Part)]]
           /\ spoilt' \in [Client -> [Way -> BOOLEAN]]
           /\ link' = [link EXCEPT ![c] = IF @ = "up" THEN "serverClosed" ELSE "closed"]
           /\ \A d \in Client : d # c =>
                 flight'[d] = flight[d] /\ area'[d] = area[d] /\ spoilt'[d] = spoilt[d]
           /\ flight'[c]["toServer"] = <<>>
           /\ flight'[c]["toClient"] \in {flight[c]["toClient"], <<>>}
           /\ \A x \in Way : /\ area'[c][x] \in {area[c][x], <<>>}
                             /\ spoilt'[c][x] \in {spoilt[c][x], FALSE}
  <1>1. "toClient" \in Way /\ "toServer" \in Way /\ "toClient" # "toServer"
    BY DEF Way
  <1> DEFINE states == <<"serverClosed", "closed">>
  <1>2. CloseEnd(c, states, "toServer", "toClient")
    BY DEF CloseServer
  <1>3. link' = [link EXCEPT ![c] = IF @ = "up" THEN "serverClosed" ELSE "closed"]
    BY <1>2 DEF CloseEnd
  <1> HIDE DEF states
  <1>4. /\ flight' \in [Client -> [Way -> Seq(Part)]]
        /\ area' \in [Client -> [Way -> Seq(Part)]]
        /\ spoilt' \in [Client -> [Way -> BOOLEAN]]
        /\ \A d \in Client : d # c =>
              flight'[d] = flight[d] /\ area'[d] = area[d] /\ spoilt'[d] = spoilt[d]
        /\ flight'[c]["toServer"] = <<>>
        /\ flight'[c]["toClient"] \in {flight[c]["toClient"], <<>>}
        /\ \A x \in Way : /\ area'[c][x] \in {area[c][x], <<>>}
                          /\ spoilt'[c][x] \in {spoilt[c][x], FALSE}
    BY <1>1, <1>2, CloseFacts, Zenon
  <1>5. QED
    BY <1>3, <1>4

\* What the promise before leaves behind.
LEMMA BreakFacts ==
    ASSUME TypeOK, NEW c \in Client
    PROVE  /\ Break(c) \in Seq(Future)
           /\ Len(Break(c)) = Len(future[c])
           /\ \A r \in DOMAIN Break(c) : /\ r \in DOMAIN future[c]
                                         /\ Break(c)[r] \in {future[c][r], "broken"}
  <1>1. /\ future[c] \in Seq(Future) /\ DOMAIN future[c] = 1 .. Len(future[c])
        /\ Len(future[c]) \in Nat
    BY DEF TypeOK
  <1>2. \A r \in 1 .. Len(future[c]) : future[c][r] \in Future
    BY <1>1
  <1>3. Break(c) \in [1 .. Len(future[c]) -> Future]
    BY <1>1, <1>2 DEF Break, Future
  <1>4. Break(c) \in Seq(Future) /\ DOMAIN Break(c) = 1 .. Len(future[c])
    BY <1>1, <1>3
  <1>5. Len(Break(c)) = Len(future[c])
    BY <1>1, <1>4
  <1>6. QED
    BY <1>1, <1>4, <1>5 DEF Break

\* What is sent arrives, or is lost when a side has closed.
LEMMA SendFacts ==
    ASSUME TypeOK, NEW c \in Client, NEW w \in Way, NEW msg \in Seq(Part), Send(c, w, msg)
    PROVE  /\ flight' \in [Client -> [Way -> Seq(Part)]]
           /\ \A d \in Client, x \in Way : d # c \/ x # w => flight'[d][x] = flight[d][x]
           /\ \A d \in Client : d # c => flight'[d] = flight[d]
           /\ flight[c][w] = <<>> => flight'[c][w] \in {msg, <<>>}
  <1> DEFINE f == flight[c][w]
  <1>1. f \in Seq(Part) /\ f \o msg \in Seq(Part)
    BY ConcatProperties DEF TypeOK
  <1>2. f = <<>> => f \o msg = msg
    BY ConcatEmptySeq
  <1>3. flight' = [flight EXCEPT ![c][w] = IF link[c] = "up" THEN f \o msg ELSE f]
    BY DEF Send
  <1> HIDE DEF f
  <1>4. QED
    BY <1>1, <1>2, <1>3 DEF TypeOK, f

\* A mishap befalls one client.
LEMMA BefallsFacts ==
    ASSUME TypeOK, NEW c \in Client, NEW m \in Mishap, Befalls(c, m)
    PROVE  /\ past' \in [Client -> SUBSET Mishap]
           /\ past'[c] = past[c] \union {m}
           /\ \A d \in Client : d # c => past'[d] = past[d]
  <1>1. past[c] \union {m} \in SUBSET Mishap
    BY DEF TypeOK
  <1>2. QED
    BY <1>1 DEF TypeOK, Befalls

\* A handler goes on to its next statement, or returns.
LEMMA StepFacts ==
    ASSUME TypeOK, NEW c \in Client, NEW l, NEW m \in {"idle"} \union ServerPc \union ClientPc,
           Step(c, l, m)
    PROVE  /\ handler' \in Handler
           /\ handler.pc = l /\ handler.client = c
           /\ m = "idle" => handler' = Idle
           /\ m # "idle" => handler' = [handler EXCEPT !.pc = m]
  <1>1. Idle \in Handler
    BY DEF Idle, Handler, Requests, Disposition
  <1>2. [handler EXCEPT !.pc = m] \in Handler
    BY DEF TypeOK, Handler
  <1>3. QED
    BY <1>1, <1>2 DEF Step

\* A step that does nothing to a client's exchange but lose parts of its messages, with
\* a handler for another client, leaves the exchange in order.
View(c) == <<user[c], connector[c], saved[c], promise[c], future[c], past[c]>>

LEMMA Untouched ==
    ASSUME IInv, NEW c \in Client, View(c)' = View(c),
           \A x \in Way : /\ flight'[c][x] \in {flight[c][x], <<>>}
                          /\ area'[c][x] \in {area[c][x], <<>>}
                          /\ spoilt'[c][x] \in {spoilt[c][x], FALSE},
           handler' = handler \/ (handler.client # c /\ handler'.client # c)
    PROVE  Regular(c)' => Exchange(c)'
  <1>1. /\ user'[c] = user[c] /\ connector'[c] = connector[c] /\ saved'[c] = saved[c]
        /\ promise'[c] = promise[c] /\ future'[c] = future[c] /\ past'[c] = past[c]
    BY DEF View
  <1>2. Regular(c)' => Regular(c)
    BY <1>1 DEF Regular
  <1>3. Regular(c) => InOnePlace(c) /\ OwnPromise(c) /\ ReadsWhole(c) /\ Owned(c)
    BY DEF IInv, ExchangesAgree, Exchange
  <1>4. /\ ToServer(c)' => ToServer(c) /\ flight'[c]["toServer"] = flight[c]["toServer"]
        /\ ToClient(c)' => ToClient(c) /\ flight'[c]["toClient"] = flight[c]["toClient"]
    BY DEF ToServer, ToClient, Way
  <1>5. /\ InProgram(c)' = InProgram(c) /\ InConnector(c)' = InConnector(c)
        /\ AtOpening(c)' = AtOpening(c) /\ AtServer(c)' = AtServer(c)
        /\ AtClient(c)' = AtClient(c)
    BY <1>1 DEF InProgram, InConnector, AtOpening, AtServer, AtClient, Serves
  <1>6. InOnePlace(c) => InOnePlace(c)'
    BY <1>4, <1>5 DEF InOnePlace
  <1>7. OwnPromise(c) => OwnPromise(c)'
    <2>1. Carried(c)' => Carried(c)
      BY <1>4, <1>5 DEF Carried
    <2>2. AtServer(c) \/ AtClient(c) => handler' = handler
      BY DEF AtServer, AtClient, Serves
    <2>3. QED
      BY <1>1, <1>4, <1>5, <2>1, <2>2 DEF OwnPromise, Pending
  <1>8. ReadsWhole(c) => ReadsWhole(c)'
    BY DEF ReadsWhole
  <1>9. Owned(c) => Owned(c)'
    BY <1>1 DEF Owned
  <1>10. QED
    BY <1>2, <1>3, <1>6, <1>7, <1>8, <1>9 DEF Exchange
-----------------------------------------------------------------------------
(* The invariant at the start, and step by step *)

\* A request is only saved while the client has none, or while it overlaps.
LEMMA SaveRequestInv ==
    ASSUME IInv, NEW c \in Client, SaveRequest(c)
    PROVE  IInv'
  <1>1. TypeOK'
    <2>1. saved' \in [Client -> Requests]
      BY BoundAssumption DEF IInv, TypeOK, SaveRequest, Requests, Request
    <2>2. past' \in [Client -> SUBSET Mishap]
      BY BefallsFacts DEF IInv, TypeOK, SaveRequest, Mishap
    <2>3. user' \in [Client -> User]
      BY DEF IInv, TypeOK, SaveRequest, Goto, User
    <2>4. \A d \in Client :
             /\ opened'[d] => link'[d] \in ClientEnd /\ connector'[d] = "spent"
             /\ peer'[d] = "gone" => link'[d] \notin ServerEnd
      BY DEF IInv, TypeOK, SocketsOwned, Serves, SaveRequest, Goto, networkVars, promiseVars,
         clientVars, serverVars, ClientEnd, ServerEnd, ClientPc, ServerPc
    <2>5. QED
      BY <2>1, <2>2, <2>3, <2>4 DEF IInv, TypeOK, SaveRequest, Goto, networkVars, promiseVars,
         clientVars, serverVars
  <1>2. SocketsOwned'
    BY NoneAssumption DEF IInv, TypeOK, SocketsOwned, Serves, SaveRequest, Goto, Befalls,
       Pending, networkVars, promiseVars, clientVars, serverVars, Idle, ServerPc, ClientPc,
       ClientEnd, ServerEnd
  <1>3. StopIsBarrier'
    BY NoneAssumption DEF IInv, TypeOK, SocketsOwned, Serves, StopIsBarrier, SaveRequest, Goto,
       Befalls, Pending, networkVars, promiseVars, clientVars, serverVars, Idle, ServerPc
  <1>4. ASSUME NEW d \in Client, d # c PROVE Regular(d)' => Exchange(d)'
    <2>1. /\ View(d)' = View(d) /\ flight'[d] = flight[d]
          /\ area'[d] = area[d] /\ spoilt'[d] = spoilt[d]
      BY <1>4 DEF IInv, TypeOK, SaveRequest, Goto, Befalls, Pending, networkVars, promiseVars,
         clientVars, serverVars, View
    <2>2. handler' = handler \/ (handler.client # d /\ handler'.client # d)
      BY <1>4, NoneAssumption DEF IInv, TypeOK, Handler, SaveRequest, Goto, Befalls, Pending,
         networkVars, promiseVars, clientVars, serverVars, Idle
    <2>3. QED
      BY <2>1, <2>2, Untouched
  <1>5. ASSUME Regular(c)' PROVE Exchange(c)'
    <2>1. Regular(c) /\ InOnePlace(c) /\ OwnPromise(c) /\ ReadsWhole(c) /\ Owned(c)
      BY <1>5 DEF IInv, TypeOK, ExchangesAgree, Exchange, Regular, SaveRequest, Goto, Befalls,
         Pending, networkVars, promiseVars, clientVars, serverVars
    <2>2. InOnePlace(c)'
      BY <2>1, NoneAssumption DEF IInv, TypeOK, ReadsWhole, OwnPromise, Carried, InOnePlace,
         InProgram, InConnector, AtOpening, ToServer, AtServer, ToClient, AtClient, Serves,
         SaveRequest, Goto, Befalls, Pending, networkVars, promiseVars, clientVars, serverVars,
         Idle
    <2>3. OwnPromise(c)'
      <3>1. \A r \in Request : ~ Pending(c, r)
        <4>1. Befalls(c, "overlapped") => "overlapped" \in past'[c]
          BY BefallsFacts DEF IInv, Mishap
        <4>2. QED
          BY <1>5, <4>1 DEF SaveRequest, Regular
      <3>2. promise[c].of \in DOMAIN future[c] => promise[c].of \in Request
        <4>1. DOMAIN future[c] = 1 .. Len(future[c]) /\ promise[c].of \in Requests
          BY DEF IInv, TypeOK
        <4>2. QED
          BY <4>1, BoundAssumption DEF Requests, Request
      <3>3. user[c] = "idle" /\ ~ Carried(c)
        BY <2>1, <3>1, <3>2 DEF OwnPromise, Pending, SaveRequest
      <3>4. user'[c] = "promise" /\ saved'[c] = Len(future[c]) + 1
        BY DEF IInv, TypeOK, SaveRequest, Goto
      <3>5. promise[c].of = Len(future[c])
        BY <2>1, <3>3 DEF OwnPromise
      <3>6. ~ Carried(c)'
        BY <3>3, <3>4 DEF Carried, InOnePlace, InProgram, InConnector, AtOpening, ToServer,
           AtServer, ToClient, AtClient, Serves, SaveRequest, networkVars, promiseVars,
           clientVars, serverVars
      <3>7. QED
        BY <3>3, <3>4, <3>5, <3>6 DEF OwnPromise, Carried, InOnePlace, InProgram, InConnector,
           AtOpening, ToServer, AtServer, ToClient, AtClient, Serves, SaveRequest, networkVars,
           promiseVars, clientVars, serverVars
    <2>4. ReadsWhole(c)'
      BY <2>1, NoneAssumption DEF IInv, TypeOK, ReadsWhole, SaveRequest, Goto, Befalls,
         Pending, networkVars, promiseVars, clientVars, serverVars, Idle
    <2>5. Owned(c)'
      BY <2>1 DEF IInv, TypeOK, Owned, SaveRequest, Goto, Befalls, Pending, networkVars,
         promiseVars, clientVars, serverVars
    <2>6. QED
      BY <2>2, <2>3, <2>4, <2>5 DEF Exchange
  <1>6. QED
    BY <1>1, <1>2, <1>3, <1>4, <1>5 DEF IInv, ExchangesAgree

\* The new promise is that of the saved request, which nobody carries yet.
LEMMA NewPromiseInv ==
    ASSUME IInv, NEW c \in Client, NewPromise(c)
    PROVE  IInv'
  <1> DEFINE f == Append(Break(c), "pending")
  <1>a. /\ f \in Seq(Future) /\ Len(f) = Len(future[c]) + 1 /\ Len(future[c]) \in Nat
        /\ DOMAIN f = 1 .. Len(f)
        /\ f[Len(future[c]) + 1] = "pending"
        /\ \A r \in 1 .. Len(future[c]) : /\ r \in DOMAIN future[c]
                                         /\ f[r] \in {future[c][r], "broken"}
    <2>1. Break(c) \in Seq(Future) /\ Len(Break(c)) = Len(future[c]) /\ "pending" \in Future
      BY BreakFacts DEF IInv, Future
    <2> DEFINE b == Break(c)
    <2>2. DOMAIN b = 1 .. Len(b)
      BY <2>1
    <2>3. \A r \in 1 .. Len(future[c]) : /\ r \in DOMAIN future[c]
                                       /\ b[r] \in {future[c][r], "broken"}
      BY <2>1, <2>2, BreakFacts DEF IInv
    <2>4. Len(future[c]) \in Nat
      BY DEF IInv, TypeOK
    <2> HIDE DEF b
    <2>5. /\ Append(b, "pending") \in Seq(Future)
          /\ Len(Append(b, "pending")) = Len(b) + 1
          /\ \A r \in 1 .. Len(b) : Append(b, "pending")[r] = b[r]
          /\ Append(b, "pending")[Len(b) + 1] = "pending"
      BY <2>1, AppendProperties DEF b
    <2>6. f = Append(b, "pending") /\ Len(b) = Len(future[c])
      BY <2>1 DEF b
    <2> HIDE DEF f
    <2>7. DOMAIN f = 1 .. Len(f)
      BY <2>5, <2>6
    <2>8. QED
      BY <2>3, <2>4, <2>5, <2>6, <2>7
  <1> HIDE DEF f
  <1>b. /\ future' = [future EXCEPT ![c] = f] /\ user[c] = "promise"
        /\ promise' = [promise EXCEPT ![c] = [of |-> saved[c], set |-> FALSE]]
        /\ user' = [user EXCEPT ![c] = "test"]
        /\ saved' = saved /\ past' = past /\ handler' = handler /\ connector' = connector
        /\ flight' = flight /\ area' = area /\ spoilt' = spoilt
    BY DEF NewPromise, Goto, f, networkVars
  <1>c. /\ future'[c] = f /\ user'[c] = "test"
        /\ promise'[c] = [of |-> saved[c], set |-> FALSE]
    BY <1>b DEF IInv, TypeOK
  <1>1. TypeOK'
    <2>1. future' \in [Client -> Seq(Future)]
      BY <1>a, <1>b DEF IInv, TypeOK
    <2>2. promise' \in [Client -> [of : Requests, set : BOOLEAN]]
      BY <1>b DEF IInv, TypeOK
    <2>3. user' \in [Client -> User]
      BY <1>b DEF IInv, TypeOK, User
    <2>4. \A d \in Client :
             /\ opened'[d] => link'[d] \in ClientEnd /\ connector'[d] = "spent"
             /\ peer'[d] = "gone" => link'[d] \notin ServerEnd
      BY DEF IInv, TypeOK, SocketsOwned, Serves, NewPromise, networkVars, promiseVars,
         clientVars, serverVars, ClientEnd, ServerEnd, ClientPc, ServerPc
    <2>5. QED
      BY <2>1, <2>2, <2>3, <2>4 DEF IInv, TypeOK, NewPromise, networkVars, promiseVars,
         clientVars, serverVars
  <1>2. SocketsOwned'
    BY NoneAssumption DEF IInv, TypeOK, SocketsOwned, Serves, NewPromise, Goto, networkVars,
       promiseVars, clientVars, serverVars, Idle, ServerPc, ClientPc, ClientEnd, ServerEnd
  <1>3. StopIsBarrier'
    BY NoneAssumption DEF IInv, TypeOK, SocketsOwned, Serves, StopIsBarrier, NewPromise, Goto,
       networkVars, promiseVars, clientVars, serverVars, Idle, ServerPc
  <1>4. ASSUME NEW d \in Client, d # c PROVE Regular(d)' => Exchange(d)'
    <2>1. /\ View(d)' = View(d) /\ flight'[d] = flight[d]
          /\ area'[d] = area[d] /\ spoilt'[d] = spoilt[d]
      BY <1>4 DEF IInv, TypeOK, NewPromise, Goto, networkVars, promiseVars, clientVars,
         serverVars, View
    <2>2. handler' = handler \/ (handler.client # d /\ handler'.client # d)
      BY <1>4, NoneAssumption DEF IInv, TypeOK, Handler, NewPromise, Goto, networkVars,
         promiseVars, clientVars, serverVars, Idle
    <2>3. QED
      BY <2>1, <2>2, Untouched
  <1>5. ASSUME Regular(c)' PROVE Exchange(c)'
    <2>1. Regular(c) /\ InOnePlace(c) /\ OwnPromise(c) /\ ReadsWhole(c) /\ Owned(c)
      BY <1>5 DEF IInv, TypeOK, ExchangesAgree, Exchange, Regular, NewPromise, Goto,
         networkVars, promiseVars, clientVars, serverVars
    <2>2. InOnePlace(c)'
      BY <2>1, NoneAssumption DEF IInv, TypeOK, ReadsWhole, OwnPromise, Carried, InOnePlace,
         InProgram, InConnector, AtOpening, ToServer, AtServer, ToClient, AtClient, Serves,
         NewPromise, Goto, networkVars, promiseVars, clientVars, serverVars, Idle
    <2>3. OwnPromise(c)'
      <3>1. ~ Carried(c) /\ saved[c] = Len(future[c]) + 1
        BY <1>b, <2>1 DEF OwnPromise
      <3>2. /\ ~ ToServer(c) /\ ~ ToClient(c) /\ ~ AtServer(c) /\ ~ AtClient(c)
            /\ ~ ToServer(c)' /\ ~ ToClient(c)' /\ ~ AtServer(c)' /\ ~ AtClient(c)'
        BY <1>b, <3>1 DEF Carried, InOnePlace, InProgram, InConnector, AtOpening, ToServer,
           AtServer, ToClient, AtClient, Serves
      <3>3. Pending(c, promise[c].of)'
        BY <1>a, <1>c, <3>1 DEF Pending
      <3>4. saved'[c] = Len(future'[c]) /\ promise'[c].of = Len(future'[c]) /\ ~ promise'[c].set
        BY <1>a, <1>b, <1>c, <3>1
      <3>5. QED
        BY <1>c, <3>2, <3>3, <3>4 DEF OwnPromise
    <2>4. ReadsWhole(c)'
      BY <2>1, NoneAssumption DEF IInv, TypeOK, ReadsWhole, NewPromise, Goto, networkVars,
         promiseVars, clientVars, serverVars, Idle
    <2>5. Owned(c)'
      <3>1. \A r \in DOMAIN f : f[r] \notin {"other", "partial"}
        BY <1>a, <2>1 DEF Owned
      <3>2. QED
        BY <1>b, <1>c, <2>1, <3>1 DEF Owned
    <2>6. QED
      BY <2>2, <2>3, <2>4, <2>5 DEF Exchange
  <1>6. QED
    BY <1>1, <1>2, <1>3, <1>4, <1>5 DEF IInv, ExchangesAgree

\* request() goes on with the request, to connect or to send.
LEMMA TestConnectedInv ==
    ASSUME IInv, NEW c \in Client, TestConnected(c)
    PROVE  IInv'
  <1>1. TypeOK'
    BY NoneAssumption DEF IInv, TypeOK, TestConnected, Goto, networkVars, promiseVars,
       clientVars, serverVars, Connector, Link, User, Server, ServerPc, ClientPc, Handler,
       Mishap, Idle, Requests, Future, Way
  <1>2. SocketsOwned'
    BY NoneAssumption DEF IInv, TypeOK, SocketsOwned, Serves, TestConnected, Goto, networkVars,
       promiseVars, clientVars, serverVars, Idle, ServerPc, ClientPc, ClientEnd, ServerEnd
  <1>3. StopIsBarrier'
    BY NoneAssumption DEF IInv, TypeOK, SocketsOwned, Serves, StopIsBarrier, TestConnected,
       Goto, networkVars, promiseVars, clientVars, serverVars, Idle, ServerPc
  <1>4. ASSUME NEW d \in Client, d # c PROVE Regular(d)' => Exchange(d)'
    <2>1. /\ View(d)' = View(d) /\ flight'[d] = flight[d]
          /\ area'[d] = area[d] /\ spoilt'[d] = spoilt[d]
      BY <1>4 DEF IInv, TypeOK, TestConnected, Goto, networkVars, promiseVars, clientVars,
         serverVars, View
    <2>2. handler' = handler \/ (handler.client # d /\ handler'.client # d)
      BY <1>4, NoneAssumption DEF IInv, TypeOK, Handler, TestConnected, Goto, networkVars,
         promiseVars, clientVars, serverVars, Idle
    <2>3. QED
      BY <2>1, <2>2, Untouched
  <1>5. ASSUME Regular(c)' PROVE Exchange(c)'
    <2>1. Regular(c) /\ InOnePlace(c) /\ OwnPromise(c) /\ ReadsWhole(c) /\ Owned(c)
      BY <1>5 DEF IInv, TypeOK, ExchangesAgree, Exchange, Regular, TestConnected, Goto,
         networkVars, promiseVars, clientVars, serverVars
    <2>2. InOnePlace(c)'
      BY <2>1, NoneAssumption DEF IInv, TypeOK, ReadsWhole, OwnPromise, Carried, InOnePlace,
         InProgram, InConnector, AtOpening, ToServer, AtServer, ToClient, AtClient, Serves,
         TestConnected, Goto, networkVars, promiseVars, clientVars, serverVars, Idle
    <2>3. OwnPromise(c)'
      BY <2>1, NoneAssumption DEF IInv, TypeOK, OwnPromise, Carried, Pending, InOnePlace,
         InProgram, InConnector, AtOpening, ToServer, AtServer, ToClient, AtClient, Serves,
         TestConnected, Goto, networkVars, promiseVars, clientVars, serverVars, Idle
    <2>4. ReadsWhole(c)'
      BY <2>1, NoneAssumption DEF IInv, TypeOK, ReadsWhole, TestConnected, Goto, networkVars,
         promiseVars, clientVars, serverVars, Idle
    <2>5. Owned(c)'
      BY <2>1 DEF IInv, TypeOK, Owned, TestConnected, Goto, networkVars, promiseVars,
         clientVars, serverVars
    <2>6. QED
      BY <2>2, <2>3, <2>4, <2>5 DEF Exchange
  <1>6. QED
    BY <1>1, <1>2, <1>3, <1>4, <1>5 DEF IInv, ExchangesAgree

\* The connector takes the request over from request().
LEMMA ConnectInv ==
    ASSUME IInv, NEW c \in Client, Connect(c)
    PROVE  IInv'
  <1>1. TypeOK'
    <2>1. connector' \in [Client -> Connector] /\ link' \in [Client -> Link]
      BY DEF IInv, TypeOK, Connect, Connector, Link
    <2>2. user' \in [Client -> User]
      BY DEF IInv, TypeOK, Connect, Goto, User
    <2>3. \A d \in Client :
             /\ opened'[d] => link'[d] \in ClientEnd /\ connector'[d] = "spent"
             /\ peer'[d] = "gone" => link'[d] \notin ServerEnd
      BY DEF IInv, TypeOK, SocketsOwned, Serves, Connect, Goto, networkVars, promiseVars,
         clientVars, serverVars, ClientEnd, ServerEnd, ClientPc, ServerPc
    <2>4. QED
      BY <2>1, <2>2, <2>3 DEF IInv, TypeOK, Connect, Goto, networkVars, promiseVars,
         clientVars, serverVars
  <1>2. SocketsOwned'
    BY NoneAssumption DEF IInv, TypeOK, SocketsOwned, Serves, Connect, Goto, networkVars,
       promiseVars, clientVars, serverVars, Idle, ServerPc, ClientPc, ClientEnd, ServerEnd
  <1>3. StopIsBarrier'
    BY NoneAssumption DEF IInv, TypeOK, SocketsOwned, Serves, StopIsBarrier, Connect, Goto,
       networkVars, promiseVars, clientVars, serverVars, Idle, ServerPc
  <1>4. ASSUME NEW d \in Client, d # c PROVE Regular(d)' => Exchange(d)'
    <2>1. /\ View(d)' = View(d) /\ flight'[d] = flight[d]
          /\ area'[d] = area[d] /\ spoilt'[d] = spoilt[d]
      BY <1>4 DEF IInv, TypeOK, Connect, Goto, networkVars, promiseVars, clientVars,
         serverVars, View
    <2>2. handler' = handler \/ (handler.client # d /\ handler'.client # d)
      BY <1>4, NoneAssumption DEF IInv, TypeOK, Handler, Connect, Goto, networkVars,
         promiseVars, clientVars, serverVars, Idle
    <2>3. QED
      BY <2>1, <2>2, Untouched
  <1>5. ASSUME Regular(c)' PROVE Exchange(c)'
    <2>1. Regular(c) /\ InOnePlace(c) /\ OwnPromise(c) /\ ReadsWhole(c) /\ Owned(c)
      BY <1>5 DEF IInv, TypeOK, ExchangesAgree, Exchange, Regular, Connect, Goto, networkVars,
         promiseVars, clientVars, serverVars
    <2>2. InOnePlace(c)'
      BY <2>1, NoneAssumption DEF IInv, TypeOK, ReadsWhole, OwnPromise, Carried, InOnePlace,
         InProgram, InConnector, AtOpening, ToServer, AtServer, ToClient, AtClient, Serves,
         Connect, Goto, networkVars, promiseVars, clientVars, serverVars, Idle
    <2>3. OwnPromise(c)'
      BY <2>1, NoneAssumption DEF IInv, TypeOK, OwnPromise, Carried, Pending, InOnePlace,
         InProgram, InConnector, AtOpening, ToServer, AtServer, ToClient, AtClient, Serves,
         Connect, Goto, networkVars, promiseVars, clientVars, serverVars, Idle
    <2>4. ReadsWhole(c)'
      BY <2>1, NoneAssumption DEF IInv, TypeOK, ReadsWhole, Connect, Goto, networkVars,
         promiseVars, clientVars, serverVars, Idle
    <2>5. Owned(c)'
      BY <2>1 DEF IInv, TypeOK, Owned, Connect, Goto, networkVars, promiseVars, clientVars,
         serverVars
    <2>6. QED
      BY <2>2, <2>3, <2>4, <2>5 DEF Exchange
  <1>6. QED
    BY <1>1, <1>2, <1>3, <1>4, <1>5 DEF IInv, ExchangesAgree

\* A connector that was used ends the program, and nobody carries the request.
LEMMA ConnectAgainInv ==
    ASSUME IInv, NEW c \in Client, ConnectAgain(c)
    PROVE  IInv'
  <1>1. TypeOK'
    BY NoneAssumption DEF IInv, TypeOK, ConnectAgain, Goto, Befalls, networkVars, promiseVars,
       clientVars, serverVars, Connector, Link, User, Server, ServerPc, ClientPc, Handler,
       Mishap, Idle, Requests, Future, Way
  <1>2. SocketsOwned'
    BY NoneAssumption DEF IInv, TypeOK, SocketsOwned, Serves, ConnectAgain, Goto, Befalls,
       networkVars, promiseVars, clientVars, serverVars, Idle, ServerPc, ClientPc, ClientEnd,
       ServerEnd
  <1>3. StopIsBarrier'
    BY NoneAssumption DEF IInv, TypeOK, SocketsOwned, Serves, StopIsBarrier, ConnectAgain,
       Goto, Befalls, networkVars, promiseVars, clientVars, serverVars, Idle, ServerPc
  <1>4. ASSUME NEW d \in Client, d # c PROVE Regular(d)' => Exchange(d)'
    <2>1. /\ View(d)' = View(d) /\ flight'[d] = flight[d]
          /\ area'[d] = area[d] /\ spoilt'[d] = spoilt[d]
      BY <1>4 DEF IInv, TypeOK, ConnectAgain, Goto, Befalls, networkVars, promiseVars,
         clientVars, serverVars, View
    <2>2. handler' = handler \/ (handler.client # d /\ handler'.client # d)
      BY <1>4, NoneAssumption DEF IInv, TypeOK, Handler, ConnectAgain, Goto, Befalls,
         networkVars, promiseVars, clientVars, serverVars, Idle
    <2>3. QED
      BY <2>1, <2>2, Untouched
  <1>5. ASSUME Regular(c)' PROVE Exchange(c)'
    <2>1. Regular(c) /\ InOnePlace(c) /\ OwnPromise(c) /\ ReadsWhole(c) /\ Owned(c)
      BY <1>5 DEF IInv, TypeOK, ExchangesAgree, Exchange, Regular, ConnectAgain, Goto, Befalls,
         networkVars, promiseVars, clientVars, serverVars
    <2>2. InOnePlace(c)'
      BY <2>1, NoneAssumption DEF IInv, TypeOK, ReadsWhole, OwnPromise, Carried, InOnePlace,
         InProgram, InConnector, AtOpening, ToServer, AtServer, ToClient, AtClient, Serves,
         ConnectAgain, Goto, Befalls, networkVars, promiseVars, clientVars, serverVars, Idle
    <2>3. OwnPromise(c)'
      BY <2>1, NoneAssumption DEF IInv, TypeOK, OwnPromise, Carried, Pending, InOnePlace,
         InProgram, InConnector, AtOpening, ToServer, AtServer, ToClient, AtClient, Serves,
         ConnectAgain, Goto, Befalls, networkVars, promiseVars, clientVars, serverVars, Idle
    <2>4. ReadsWhole(c)'
      BY <2>1, NoneAssumption DEF IInv, TypeOK, ReadsWhole, ConnectAgain, Goto, Befalls,
         networkVars, promiseVars, clientVars, serverVars, Idle
    <2>5. Owned(c)'
      BY <2>1 DEF IInv, TypeOK, Owned, ConnectAgain, Goto, Befalls, networkVars, promiseVars,
         clientVars, serverVars
    <2>6. QED
      BY <2>2, <2>3, <2>4, <2>5 DEF Exchange
  <1>6. QED
    BY <1>1, <1>2, <1>3, <1>4, <1>5 DEF IInv, ExchangesAgree

\* The stream takes the request over from request(), or loses it.
LEMMA SendRequestInv ==
    ASSUME IInv, NEW c \in Client, SendRequest(c)
    PROVE  IInv'
  <1>m. /\ saved[c] \in Requests /\ "keep" \in Disposition /\ "toServer" \in Way
        /\ Message(saved[c], "keep") \in Seq(Part) /\ Message(saved[c], "keep") # <<>>
    BY MessageFacts DEF IInv, TypeOK, Disposition, Way
  <1>n. /\ flight' \in [Client -> [Way -> Seq(Part)]]
        /\ \A d \in Client : d # c => flight'[d] = flight[d]
        /\ flight'[c]["toClient"] = flight[c]["toClient"]
        /\ flight[c]["toServer"] = <<>> =>
              flight'[c]["toServer"] \in {Message(saved[c], "keep"), <<>>}
    <2>1. "toClient" \in Way /\ "toClient" # "toServer"
      BY DEF Way
    <2>2. Send(c, "toServer", Message(saved[c], "keep")) \/ flight' = flight
      BY DEF SendRequest
    <2>3. CASE flight' = flight
      BY <2>3 DEF IInv, TypeOK
    <2>4. CASE Send(c, "toServer", Message(saved[c], "keep"))
      BY <1>m, <2>1, <2>4, SendFacts DEF IInv
    <2>5. QED
      BY <2>2, <2>3, <2>4
  <1>1. TypeOK'
    <2>1. past' \in [Client -> SUBSET Mishap]
      BY BefallsFacts DEF IInv, TypeOK, SendRequest, Mishap
    <2>2. user' \in [Client -> User]
      BY DEF IInv, TypeOK, SendRequest, Goto, User
    <2>3. flight' \in [Client -> [Way -> Seq(Part)]]
      BY <1>n
    <2>4. \A d \in Client :
             /\ opened'[d] => link'[d] \in ClientEnd /\ connector'[d] = "spent"
             /\ peer'[d] = "gone" => link'[d] \notin ServerEnd
      BY DEF IInv, TypeOK, SocketsOwned, Serves, SendRequest, Goto, networkVars, promiseVars,
         clientVars, serverVars, ClientEnd, ServerEnd, ClientPc, ServerPc
    <2>5. QED
      BY <2>1, <2>2, <2>3, <2>4 DEF IInv, TypeOK, SendRequest, Goto, networkVars, promiseVars,
         clientVars, serverVars
  <1>2. SocketsOwned'
    BY NoneAssumption DEF IInv, TypeOK, SocketsOwned, Serves, SendRequest, Goto, Befalls, Send,
       networkVars, promiseVars, clientVars, serverVars, Idle, ServerPc, ClientPc, ClientEnd,
       ServerEnd
  <1>3. StopIsBarrier'
    BY NoneAssumption DEF IInv, TypeOK, SocketsOwned, Serves, StopIsBarrier, SendRequest, Goto,
       Befalls, Send, networkVars, promiseVars, clientVars, serverVars, Idle, ServerPc
  <1>4. ASSUME NEW d \in Client, d # c PROVE Regular(d)' => Exchange(d)'
    <2>1. /\ View(d)' = View(d) /\ flight'[d] = flight[d]
          /\ area'[d] = area[d] /\ spoilt'[d] = spoilt[d]
      BY <1>4, <1>n DEF IInv, TypeOK, SendRequest, Goto, Befalls, networkVars, promiseVars,
         clientVars, serverVars, View
    <2>2. handler' = handler \/ (handler.client # d /\ handler'.client # d)
      BY <1>4, NoneAssumption DEF IInv, TypeOK, Handler, SendRequest, Goto, Befalls, Send,
         networkVars, promiseVars, clientVars, serverVars, Idle
    <2>3. QED
      BY <2>1, <2>2, Untouched
  <1>5. ASSUME Regular(c)' PROVE Exchange(c)'
    <2>1. Regular(c) /\ InOnePlace(c) /\ OwnPromise(c) /\ ReadsWhole(c) /\ Owned(c)
      BY <1>5 DEF IInv, TypeOK, ExchangesAgree, Exchange, Regular, SendRequest, Goto, Befalls,
         Send, networkVars, promiseVars, clientVars, serverVars
    <2>2. InOnePlace(c)'
      <3>1. InProgram(c) /\ ~ ToServer(c) /\ ~ ToClient(c)
        BY <2>1 DEF InOnePlace, InProgram, Serves, SendRequest, Step
      <3>2. flight[c]["toServer"] = <<>> /\ ~ ToClient(c)'
        BY <1>n, <3>1 DEF ToServer, ToClient
      <3>3. /\ ~ InProgram(c)' /\ ~ InConnector(c)' /\ ~ AtOpening(c)' /\ ~ AtServer(c)'
            /\ ~ AtClient(c)'
        BY <2>1, <3>1, NoneAssumption DEF IInv, TypeOK, SendRequest, Goto, networkVars,
           promiseVars, clientVars, serverVars, InOnePlace, InProgram, InConnector, AtOpening,
           ToServer, AtServer, ToClient, AtClient, Serves
      <3>4. QED
        BY <3>2, <3>3 DEF InOnePlace
    <2>3. OwnPromise(c)'
      <3>1. InProgram(c) /\ ~ ToServer(c) /\ ~ ToClient(c)
        BY <2>1 DEF InOnePlace, InProgram, Serves, SendRequest, Step
      <3>2. flight[c]["toServer"] = <<>> /\ ~ ToClient(c)' /\ Carried(c)
        BY <1>n, <3>1 DEF ToServer, ToClient, Carried
      <3>3. ~ AtServer(c)' /\ ~ AtClient(c)'
        BY <2>1, <3>1, NoneAssumption DEF IInv, TypeOK, SendRequest, Goto, networkVars,
           promiseVars, clientVars, serverVars, InOnePlace, InProgram, InConnector, AtOpening,
           ToServer, AtServer, ToClient, AtClient, Serves
      <3>4. /\ promise' = promise /\ future' = future /\ saved' = saved
            /\ user'[c] \in {user[c], "idle"} /\ user[c] # "promise"
            /\ user[c] # "gone" \/ user'[c] = "gone"
        BY <2>1, <3>2 DEF IInv, TypeOK, SendRequest, Goto, networkVars, promiseVars,
           clientVars, serverVars, OwnPromise, InProgram
      <3>5. ToServer(c)' => flight'[c]["toServer"] = Message(promise[c].of, "keep")
        BY <1>n, <2>1, <3>2, <3>4 DEF ToServer, OwnPromise
      <3>6. QED
        BY <2>1, <3>2, <3>3, <3>4, <3>5 DEF OwnPromise, Pending
    <2>4. ReadsWhole(c)'
      BY <2>1, NoneAssumption DEF IInv, TypeOK, ReadsWhole, SendRequest, Goto, Befalls, Send,
         networkVars, promiseVars, clientVars, serverVars, Idle
    <2>5. Owned(c)'
      BY <2>1 DEF IInv, TypeOK, Owned, SendRequest, Goto, Befalls, Send, networkVars,
         promiseVars, clientVars, serverVars
    <2>6. QED
      BY <2>2, <2>3, <2>4, <2>5 DEF Exchange
  <1>6. QED
    BY <1>1, <1>2, <1>3, <1>4, <1>5 DEF IInv, ExchangesAgree

\* Whoever carries the request of a client that is gone, no handler of the client does.
LEMMA DestroyClientInv ==
    ASSUME IInv, NEW c \in Client, DestroyClient(c)
    PROVE  IInv'
  <1>a. /\ flight' \in [Client -> [Way -> Seq(Part)]]
        /\ area' \in [Client -> [Way -> Seq(Part)]]
        /\ spoilt' \in [Client -> [Way -> BOOLEAN]]
        /\ \A d \in Client : d # c =>
              flight'[d] = flight[d] /\ area'[d] = area[d] /\ spoilt'[d] = spoilt[d]
        /\ \A x \in Way : /\ flight'[c][x] \in {flight[c][x], <<>>}
                          /\ area'[c][x] \in {area[c][x], <<>>}
                          /\ spoilt'[c][x] \in {spoilt[c][x], FALSE}
    BY CloseClientFacts DEF IInv, TypeOK, DestroyClient, Way
  <1>b. /\ link' \in [Client -> Link]
        /\ \A d \in Client : d # c => link'[d] = link[d]
        /\ link'[c] \notin {"none", "asked"} \union ClientEnd
        /\ link'[c] \in ServerEnd => link[c] \in ServerEnd
    <2>1. CASE link[c] \in ClientEnd
      <3>1. link' = [link EXCEPT ![c] = IF @ = "up" THEN "clientClosed" ELSE "closed"]
        BY <2>1, CloseClientFacts DEF IInv, DestroyClient
      <3>2. QED
        BY <2>1, <3>1 DEF IInv, TypeOK, Link, ClientEnd, ServerEnd
    <2>2. CASE link[c] \notin ClientEnd
      BY <2>2 DEF IInv, TypeOK, DestroyClient, Link, ClientEnd, ServerEnd
    <2>3. QED
      BY <2>1, <2>2
  <1>c. /\ handler = Idle /\ handler' = handler /\ user[c] = "idle" /\ user'[c] = "gone"
        /\ connector'[c] = "spent" /\ opened'[c] = FALSE /\ future'[c] = Break(c)
        /\ saved' = saved /\ promise' = promise /\ past' = past /\ peer' = peer
        /\ server' = server /\ connected' = connected
        /\ \A d \in Client : d # c => /\ user'[d] = user[d] /\ connector'[d] = connector[d]
                                      /\ opened'[d] = opened[d] /\ future'[d] = future[d]
    BY DEF IInv, TypeOK, DestroyClient, Goto, serverVars
  <1>1. TypeOK'
    <2>1. future' \in [Client -> Seq(Future)]
      BY BreakFacts DEF IInv, TypeOK, DestroyClient
    <2>2. user' \in [Client -> User]
      BY DEF IInv, TypeOK, DestroyClient, Goto, User
    <2>3. connector' \in [Client -> Connector] /\ opened' \in [Client -> BOOLEAN]
      BY DEF IInv, TypeOK, DestroyClient, Connector
    <2>4. \A d \in Client :
             /\ opened'[d] => link'[d] \in ClientEnd /\ connector'[d] = "spent"
             /\ peer'[d] = "gone" => link'[d] \notin ServerEnd
      BY <1>b, <1>c DEF IInv, TypeOK
    <2>5. QED
      BY <1>a, <1>b, <2>1, <2>2, <2>3, <2>4 DEF IInv, TypeOK, DestroyClient, networkVars,
         promiseVars, clientVars, serverVars
  <1>2. SocketsOwned'
    BY <1>b, <1>c, NoneAssumption DEF IInv, SocketsOwned, Serves, Idle, ClientPc, ServerPc
  <1>3. StopIsBarrier'
    BY NoneAssumption DEF IInv, TypeOK, SocketsOwned, Serves, StopIsBarrier, DestroyClient,
       Goto, networkVars, promiseVars, clientVars, serverVars, Idle, ServerPc
  <1>4. ASSUME NEW d \in Client, d # c PROVE Regular(d)' => Exchange(d)'
    <2>1. /\ View(d)' = View(d) /\ flight'[d] = flight[d]
          /\ area'[d] = area[d] /\ spoilt'[d] = spoilt[d]
      BY <1>4, <1>a, <1>c DEF View
    <2>2. handler' = handler \/ (handler.client # d /\ handler'.client # d)
      BY <1>4, NoneAssumption DEF IInv, TypeOK, Handler, DestroyClient, Goto, networkVars,
         promiseVars, clientVars, serverVars, Idle
    <2>3. QED
      BY <2>1, <2>2, Untouched
  <1>5. ASSUME Regular(c)' PROVE Exchange(c)'
    <2>1. Regular(c) /\ InOnePlace(c) /\ OwnPromise(c) /\ ReadsWhole(c) /\ Owned(c)
      BY <1>5 DEF IInv, TypeOK, ExchangesAgree, Exchange, Regular, DestroyClient, Goto,
         networkVars, promiseVars, clientVars, serverVars
    <2>2. InOnePlace(c)'
      <3>1. /\ ~ InProgram(c)' /\ ~ InConnector(c)' /\ ~ AtOpening(c)' /\ ~ AtServer(c)'
            /\ ~ AtClient(c)'
        BY <1>c, NoneAssumption DEF InProgram, InConnector, AtOpening, AtServer, AtClient,
                                    Serves, Idle
      <3>2. (ToServer(c)' => ToServer(c)) /\ (ToClient(c)' => ToClient(c))
        BY <1>a DEF ToServer, ToClient, Way
      <3>3. QED
        BY <2>1, <3>1, <3>2 DEF InOnePlace
    <2>3. OwnPromise(c)'
      <3>1. ~ AtServer(c)' /\ ~ AtClient(c)'
        BY <1>c, NoneAssumption DEF AtServer, AtClient, Serves, Idle
      <3>2. /\ ToServer(c)' => ToServer(c) /\ flight'[c]["toServer"] = flight[c]["toServer"]
            /\ ToClient(c)' => ToClient(c) /\ flight'[c]["toClient"] = flight[c]["toClient"]
        BY <1>a DEF ToServer, ToClient, Way
      <3>3. Carried(c)' => Carried(c)
        BY <1>c, <3>1, <3>2 DEF Carried, InProgram, InConnector, AtOpening, Serves, Idle
      <3>4. Len(future'[c]) = Len(future[c])
        BY <1>c, BreakFacts DEF IInv
      <3>5. QED
        BY <1>c, <2>1, <3>1, <3>2, <3>3, <3>4 DEF OwnPromise
    <2>4. ReadsWhole(c)'
      BY <1>a, <1>c, <2>1 DEF ReadsWhole
    <2>5. Owned(c)'
      BY <1>c, <2>1, BreakFacts DEF IInv, Owned
    <2>6. QED
      BY <2>2, <2>3, <2>4, <2>5 DEF Exchange
  <1>6. QED
    BY <1>1, <1>2, <1>3, <1>4, <1>5 DEF IInv, ExchangesAgree

\* The handshake leaves a link that nobody has the socket of.
LEMMA HandshakeInv ==
    ASSUME IInv, NEW c \in Client, Handshake(c)
    PROVE  IInv'
  <1>1. TypeOK'
    <2>1. link' \in [Client -> Link]
      BY DEF IInv, TypeOK, Handshake, Link
    <2>2. \A d \in Client :
             /\ opened'[d] => link'[d] \in ClientEnd /\ connector'[d] = "spent"
             /\ peer'[d] = "gone" => link'[d] \notin ServerEnd
      BY DEF IInv, TypeOK, SocketsOwned, Serves, Handshake, networkVars, promiseVars,
         clientVars, serverVars, ClientEnd, ServerEnd, ClientPc, ServerPc
    <2>3. QED
      BY <2>1, <2>2 DEF IInv, TypeOK, Handshake, networkVars, promiseVars, clientVars,
         serverVars
  <1>2. SocketsOwned'
    BY NoneAssumption DEF IInv, TypeOK, SocketsOwned, Serves, Handshake, networkVars,
       promiseVars, clientVars, serverVars, Idle, ServerPc, ClientPc, ClientEnd, ServerEnd
  <1>3. StopIsBarrier'
    BY NoneAssumption DEF IInv, TypeOK, SocketsOwned, Serves, StopIsBarrier, Handshake,
       networkVars, promiseVars, clientVars, serverVars, Idle, ServerPc
  <1>4. ASSUME NEW d \in Client, d # c PROVE Regular(d)' => Exchange(d)'
    <2>1. /\ View(d)' = View(d) /\ flight'[d] = flight[d]
          /\ area'[d] = area[d] /\ spoilt'[d] = spoilt[d]
      BY <1>4 DEF IInv, TypeOK, Handshake, networkVars, promiseVars, clientVars, serverVars,
         View
    <2>2. handler' = handler \/ (handler.client # d /\ handler'.client # d)
      BY <1>4, NoneAssumption DEF IInv, TypeOK, Handler, Handshake, networkVars, promiseVars,
         clientVars, serverVars, Idle
    <2>3. QED
      BY <2>1, <2>2, Untouched
  <1>5. ASSUME Regular(c)' PROVE Exchange(c)'
    <2>1. Regular(c) /\ InOnePlace(c) /\ OwnPromise(c) /\ ReadsWhole(c) /\ Owned(c)
      BY <1>5 DEF IInv, TypeOK, ExchangesAgree, Exchange, Regular, Handshake, networkVars,
         promiseVars, clientVars, serverVars
    <2>2. InOnePlace(c)'
      BY <2>1, NoneAssumption DEF IInv, TypeOK, ReadsWhole, OwnPromise, Carried, InOnePlace,
         InProgram, InConnector, AtOpening, ToServer, AtServer, ToClient, AtClient, Serves,
         Handshake, networkVars, promiseVars, clientVars, serverVars, Idle
    <2>3. OwnPromise(c)'
      BY <2>1, NoneAssumption DEF IInv, TypeOK, OwnPromise, Carried, Pending, InOnePlace,
         InProgram, InConnector, AtOpening, ToServer, AtServer, ToClient, AtClient, Serves,
         Handshake, networkVars, promiseVars, clientVars, serverVars, Idle
    <2>4. ReadsWhole(c)'
      BY <2>1, NoneAssumption DEF IInv, TypeOK, ReadsWhole, Handshake, networkVars,
         promiseVars, clientVars, serverVars, Idle
    <2>5. Owned(c)'
      BY <2>1 DEF IInv, TypeOK, Owned, Handshake, networkVars, promiseVars, clientVars,
         serverVars
    <2>6. QED
      BY <2>2, <2>3, <2>4, <2>5 DEF Exchange
  <1>6. QED
    BY <1>1, <1>2, <1>3, <1>4, <1>5 DEF IInv, ExchangesAgree

\* A refused connection loses the request.
LEMMA ConnectRefusedInv ==
    ASSUME IInv, NEW c \in Client, ConnectRefused(c)
    PROVE  IInv'
  <1>1. TypeOK'
    BY NoneAssumption DEF IInv, TypeOK, ConnectRefused, Befalls, networkVars, promiseVars,
       clientVars, serverVars, Connector, Link, User, Server, ServerPc, ClientPc, Handler,
       Mishap, Idle, Requests, Future, Way
  <1>2. SocketsOwned'
    BY NoneAssumption DEF IInv, TypeOK, SocketsOwned, Serves, ConnectRefused, Befalls,
       networkVars, promiseVars, clientVars, serverVars, Idle, ServerPc, ClientPc, ClientEnd,
       ServerEnd
  <1>3. StopIsBarrier'
    BY NoneAssumption DEF IInv, TypeOK, SocketsOwned, Serves, StopIsBarrier, ConnectRefused,
       Befalls, networkVars, promiseVars, clientVars, serverVars, Idle, ServerPc
  <1>4. ASSUME NEW d \in Client, d # c PROVE Regular(d)' => Exchange(d)'
    <2>1. /\ View(d)' = View(d) /\ flight'[d] = flight[d]
          /\ area'[d] = area[d] /\ spoilt'[d] = spoilt[d]
      BY <1>4 DEF IInv, TypeOK, ConnectRefused, Befalls, networkVars, promiseVars, clientVars,
         serverVars, View
    <2>2. handler' = handler \/ (handler.client # d /\ handler'.client # d)
      BY <1>4, NoneAssumption DEF IInv, TypeOK, Handler, ConnectRefused, Befalls, networkVars,
         promiseVars, clientVars, serverVars, Idle
    <2>3. QED
      BY <2>1, <2>2, Untouched
  <1>5. ASSUME Regular(c)' PROVE Exchange(c)'
    <2>1. Regular(c) /\ InOnePlace(c) /\ OwnPromise(c) /\ ReadsWhole(c) /\ Owned(c)
      BY <1>5 DEF IInv, TypeOK, ExchangesAgree, Exchange, Regular, ConnectRefused, Befalls,
         networkVars, promiseVars, clientVars, serverVars
    <2>2. InOnePlace(c)'
      BY <2>1, NoneAssumption DEF IInv, TypeOK, ReadsWhole, OwnPromise, Carried, InOnePlace,
         InProgram, InConnector, AtOpening, ToServer, AtServer, ToClient, AtClient, Serves,
         ConnectRefused, Befalls, networkVars, promiseVars, clientVars, serverVars, Idle
    <2>3. OwnPromise(c)'
      BY <2>1, NoneAssumption DEF IInv, TypeOK, OwnPromise, Carried, Pending, InOnePlace,
         InProgram, InConnector, AtOpening, ToServer, AtServer, ToClient, AtClient, Serves,
         ConnectRefused, Befalls, networkVars, promiseVars, clientVars, serverVars, Idle
    <2>4. ReadsWhole(c)'
      BY <2>1, NoneAssumption DEF IInv, TypeOK, ReadsWhole, ConnectRefused, Befalls,
         networkVars, promiseVars, clientVars, serverVars, Idle
    <2>5. Owned(c)'
      BY <2>1 DEF IInv, TypeOK, Owned, ConnectRefused, Befalls, networkVars, promiseVars,
         clientVars, serverVars
    <2>6. QED
      BY <2>2, <2>3, <2>4, <2>5 DEF Exchange
  <1>6. QED
    BY <1>1, <1>2, <1>3, <1>4, <1>5 DEF IInv, ExchangesAgree

\* The handler takes the request over from the connector, with its socket.
LEMMA ConnectReadyInv ==
    ASSUME IInv, NEW c \in Client, ConnectReady(c)
    PROVE  IInv'
  <1>1. TypeOK'
    BY NoneAssumption DEF IInv, TypeOK, ConnectReady, Run, networkVars, promiseVars,
       clientVars, serverVars, Connector, Link, User, Server, ServerPc, ClientPc, Handler,
       Mishap, Idle, Requests, Future, Way
  <1>2. SocketsOwned'
    BY NoneAssumption DEF IInv, TypeOK, SocketsOwned, Serves, ConnectReady, Run, networkVars,
       promiseVars, clientVars, serverVars, Idle, ServerPc, ClientPc, ClientEnd, ServerEnd
  <1>3. StopIsBarrier'
    BY NoneAssumption DEF IInv, TypeOK, SocketsOwned, Serves, StopIsBarrier, ConnectReady, Run,
       networkVars, promiseVars, clientVars, serverVars, Idle, ServerPc
  <1>4. ASSUME NEW d \in Client, d # c PROVE Regular(d)' => Exchange(d)'
    <2>1. /\ View(d)' = View(d) /\ flight'[d] = flight[d]
          /\ area'[d] = area[d] /\ spoilt'[d] = spoilt[d]
      BY <1>4 DEF IInv, TypeOK, ConnectReady, Run, networkVars, promiseVars, clientVars,
         serverVars, View
    <2>2. handler' = handler \/ (handler.client # d /\ handler'.client # d)
      BY <1>4, NoneAssumption DEF IInv, TypeOK, Handler, ConnectReady, Run, networkVars,
         promiseVars, clientVars, serverVars, Idle
    <2>3. QED
      BY <2>1, <2>2, Untouched
  <1>5. ASSUME Regular(c)' PROVE Exchange(c)'
    <2>1. Regular(c) /\ InOnePlace(c) /\ OwnPromise(c) /\ ReadsWhole(c) /\ Owned(c)
      BY <1>5 DEF IInv, TypeOK, ExchangesAgree, Exchange, Regular, ConnectReady, Run,
         networkVars, promiseVars, clientVars, serverVars
    <2>2. InOnePlace(c)'
      BY <2>1, NoneAssumption DEF IInv, TypeOK, ReadsWhole, OwnPromise, Carried, InOnePlace,
         InProgram, InConnector, AtOpening, ToServer, AtServer, ToClient, AtClient, Serves,
         ConnectReady, Run, networkVars, promiseVars, clientVars, serverVars, Idle
    <2>3. OwnPromise(c)'
      BY <2>1, NoneAssumption DEF IInv, TypeOK, OwnPromise, Carried, Pending, InOnePlace,
         InProgram, InConnector, AtOpening, ToServer, AtServer, ToClient, AtClient, Serves,
         ConnectReady, Run, networkVars, promiseVars, clientVars, serverVars, Idle
    <2>4. ReadsWhole(c)'
      BY <2>1, NoneAssumption DEF IInv, TypeOK, ReadsWhole, ConnectReady, Run, networkVars,
         promiseVars, clientVars, serverVars, Idle
    <2>5. Owned(c)'
      BY <2>1 DEF IInv, TypeOK, Owned, ConnectReady, Run, networkVars, promiseVars, clientVars,
         serverVars
    <2>6. QED
      BY <2>2, <2>3, <2>4, <2>5 DEF Exchange
  <1>6. QED
    BY <1>1, <1>2, <1>3, <1>4, <1>5 DEF IInv, ExchangesAgree

\* The handler keeps the request and the socket.
LEMMA OnConnectedInv ==
    ASSUME IInv, NEW c \in Client, OnConnected(c)
    PROVE  IInv'
  <1>1. TypeOK'
    BY NoneAssumption DEF IInv, TypeOK, OnConnected, Step, networkVars, promiseVars,
       clientVars, serverVars, Connector, Link, User, Server, ServerPc, ClientPc, Handler,
       Mishap, Idle, Requests, Future, Way
  <1>2. SocketsOwned'
    BY NoneAssumption DEF IInv, TypeOK, SocketsOwned, Serves, OnConnected, Step, networkVars,
       promiseVars, clientVars, serverVars, Idle, ServerPc, ClientPc, ClientEnd, ServerEnd
  <1>3. StopIsBarrier'
    BY NoneAssumption DEF IInv, TypeOK, SocketsOwned, Serves, StopIsBarrier, OnConnected, Step,
       networkVars, promiseVars, clientVars, serverVars, Idle, ServerPc
  <1>4. ASSUME NEW d \in Client, d # c PROVE Regular(d)' => Exchange(d)'
    <2>1. /\ View(d)' = View(d) /\ flight'[d] = flight[d]
          /\ area'[d] = area[d] /\ spoilt'[d] = spoilt[d]
      BY <1>4 DEF IInv, TypeOK, OnConnected, Step, networkVars, promiseVars, clientVars,
         serverVars, View
    <2>2. handler' = handler \/ (handler.client # d /\ handler'.client # d)
      BY <1>4, NoneAssumption DEF IInv, TypeOK, Handler, OnConnected, Step, networkVars,
         promiseVars, clientVars, serverVars, Idle
    <2>3. QED
      BY <2>1, <2>2, Untouched
  <1>5. ASSUME Regular(c)' PROVE Exchange(c)'
    <2>1. Regular(c) /\ InOnePlace(c) /\ OwnPromise(c) /\ ReadsWhole(c) /\ Owned(c)
      BY <1>5 DEF IInv, TypeOK, ExchangesAgree, Exchange, Regular, OnConnected, Step,
         networkVars, promiseVars, clientVars, serverVars
    <2>2. InOnePlace(c)'
      BY <2>1, NoneAssumption DEF IInv, TypeOK, ReadsWhole, OwnPromise, Carried, InOnePlace,
         InProgram, InConnector, AtOpening, ToServer, AtServer, ToClient, AtClient, Serves,
         OnConnected, Step, networkVars, promiseVars, clientVars, serverVars, Idle
    <2>3. OwnPromise(c)'
      BY <2>1, NoneAssumption DEF IInv, TypeOK, OwnPromise, Carried, Pending, InOnePlace,
         InProgram, InConnector, AtOpening, ToServer, AtServer, ToClient, AtClient, Serves,
         OnConnected, Step, networkVars, promiseVars, clientVars, serverVars, Idle
    <2>4. ReadsWhole(c)'
      BY <2>1, NoneAssumption DEF IInv, TypeOK, ReadsWhole, OnConnected, Step, networkVars,
         promiseVars, clientVars, serverVars, Idle
    <2>5. Owned(c)'
      BY <2>1 DEF IInv, TypeOK, Owned, OnConnected, Step, networkVars, promiseVars, clientVars,
         serverVars
    <2>6. QED
      BY <2>2, <2>3, <2>4, <2>5 DEF Exchange
  <1>6. QED
    BY <1>1, <1>2, <1>3, <1>4, <1>5 DEF IInv, ExchangesAgree

\* The communicator is opened with the socket of the connector.
LEMMA OpenInv ==
    ASSUME IInv, NEW c \in Client, Open(c)
    PROVE  IInv'
  <1>1. TypeOK'
    <2>1. opened' \in [Client -> BOOLEAN]
      BY DEF IInv, TypeOK, Open
    <2>2. handler' \in Handler
      BY StepFacts DEF IInv, Open, ServerPc, ClientPc
    <2>3. \A d \in Client :
             /\ opened'[d] => link'[d] \in ClientEnd /\ connector'[d] = "spent"
             /\ peer'[d] = "gone" => link'[d] \notin ServerEnd
      BY DEF IInv, TypeOK, SocketsOwned, Serves, Open, Step, networkVars, serverVars, ClientPc
    <2>4. QED
      BY <2>1, <2>2, <2>3 DEF IInv, TypeOK, Open, networkVars, promiseVars, clientVars,
         serverVars
  <1>2. SocketsOwned'
    BY NoneAssumption DEF IInv, TypeOK, SocketsOwned, Serves, Open, Step, networkVars,
       promiseVars, clientVars, serverVars, Idle, ServerPc, ClientPc, ClientEnd, ServerEnd
  <1>3. StopIsBarrier'
    BY NoneAssumption DEF IInv, TypeOK, SocketsOwned, Serves, StopIsBarrier, Open, Step,
       networkVars, promiseVars, clientVars, serverVars, Idle, ServerPc
  <1>4. ASSUME NEW d \in Client, d # c PROVE Regular(d)' => Exchange(d)'
    <2>1. /\ View(d)' = View(d) /\ flight'[d] = flight[d]
          /\ area'[d] = area[d] /\ spoilt'[d] = spoilt[d]
      BY <1>4 DEF IInv, TypeOK, Open, Step, networkVars, promiseVars, clientVars, serverVars,
         View
    <2>2. handler' = handler \/ (handler.client # d /\ handler'.client # d)
      BY <1>4, NoneAssumption DEF IInv, TypeOK, Handler, Open, Step, networkVars, promiseVars,
         clientVars, serverVars, Idle
    <2>3. QED
      BY <2>1, <2>2, Untouched
  <1>5. ASSUME Regular(c)' PROVE Exchange(c)'
    <2>1. Regular(c) /\ InOnePlace(c) /\ OwnPromise(c) /\ ReadsWhole(c) /\ Owned(c)
      BY <1>5 DEF IInv, TypeOK, ExchangesAgree, Exchange, Regular, Open, Step, networkVars,
         promiseVars, clientVars, serverVars
    <2>2. InOnePlace(c)'
      BY <2>1, NoneAssumption DEF IInv, TypeOK, ReadsWhole, OwnPromise, Carried, InOnePlace,
         InProgram, InConnector, AtOpening, ToServer, AtServer, ToClient, AtClient, Serves,
         Open, Step, networkVars, promiseVars, clientVars, serverVars, Idle
    <2>3. OwnPromise(c)'
      BY <2>1, NoneAssumption DEF IInv, TypeOK, OwnPromise, Carried, Pending, InOnePlace,
         InProgram, InConnector, AtOpening, ToServer, AtServer, ToClient, AtClient, Serves,
         Open, Step, networkVars, promiseVars, clientVars, serverVars, Idle
    <2>4. ReadsWhole(c)'
      BY <2>1, NoneAssumption DEF IInv, TypeOK, ReadsWhole, Open, Step, networkVars,
         promiseVars, clientVars, serverVars, Idle
    <2>5. Owned(c)'
      BY <2>1 DEF IInv, TypeOK, Owned, Open, Step, networkVars, promiseVars, clientVars,
         serverVars
    <2>6. QED
      BY <2>2, <2>3, <2>4, <2>5 DEF Exchange
  <1>6. QED
    BY <1>1, <1>2, <1>3, <1>4, <1>5 DEF IInv, ExchangesAgree

\* The stream takes the saved request over from the handler: it is the promise's.
LEMMA SendSavedInv ==
    ASSUME IInv, NEW c \in Client, SendSaved(c)
    PROVE  IInv'
  <1>m. /\ saved[c] \in Requests /\ "keep" \in Disposition /\ "toServer" \in Way
        /\ Message(saved[c], "keep") \in Seq(Part) /\ Message(saved[c], "keep") # <<>>
    BY MessageFacts DEF IInv, TypeOK, Disposition, Way
  <1>n. /\ flight' \in [Client -> [Way -> Seq(Part)]]
        /\ \A d \in Client : d # c => flight'[d] = flight[d]
        /\ flight'[c]["toClient"] = flight[c]["toClient"]
        /\ flight[c]["toServer"] = <<>> =>
              flight'[c]["toServer"] \in {Message(saved[c], "keep"), <<>>}
    <2>1. "toClient" \in Way /\ "toClient" # "toServer"
      BY DEF Way
    <2>2. Send(c, "toServer", Message(saved[c], "keep")) \/ flight' = flight
      BY DEF SendSaved
    <2>3. CASE flight' = flight
      BY <2>3 DEF IInv, TypeOK
    <2>4. CASE Send(c, "toServer", Message(saved[c], "keep"))
      BY <1>m, <2>1, <2>4, SendFacts DEF IInv
    <2>5. QED
      BY <2>2, <2>3, <2>4
  <1>1. TypeOK'
    <2>1. flight' \in [Client -> [Way -> Seq(Part)]]
      BY <1>n
    <2>2. handler' \in Handler
      BY StepFacts DEF IInv, SendSaved
    <2>3. \A d \in Client :
             /\ opened'[d] => link'[d] \in ClientEnd /\ connector'[d] = "spent"
             /\ peer'[d] = "gone" => link'[d] \notin ServerEnd
      BY DEF IInv, TypeOK, SocketsOwned, Serves, SendSaved, networkVars, promiseVars,
         clientVars, serverVars, ClientEnd, ServerEnd, ClientPc, ServerPc
    <2>4. QED
      BY <2>1, <2>2, <2>3 DEF IInv, TypeOK, SendSaved, networkVars, promiseVars, clientVars,
         serverVars
  <1>2. SocketsOwned'
    BY NoneAssumption DEF IInv, TypeOK, SocketsOwned, Serves, SendSaved, Step, Send,
       networkVars, promiseVars, clientVars, serverVars, Idle, ServerPc, ClientPc, ClientEnd,
       ServerEnd
  <1>3. StopIsBarrier'
    BY NoneAssumption DEF IInv, TypeOK, SocketsOwned, Serves, StopIsBarrier, SendSaved, Step,
       Send, networkVars, promiseVars, clientVars, serverVars, Idle, ServerPc
  <1>4. ASSUME NEW d \in Client, d # c PROVE Regular(d)' => Exchange(d)'
    <2>1. /\ View(d)' = View(d) /\ flight'[d] = flight[d]
          /\ area'[d] = area[d] /\ spoilt'[d] = spoilt[d]
      BY <1>4, <1>n DEF IInv, TypeOK, SendSaved, Step, Befalls, networkVars, promiseVars,
         clientVars, serverVars, View
    <2>2. handler' = handler \/ (handler.client # d /\ handler'.client # d)
      BY <1>4, NoneAssumption DEF IInv, TypeOK, Handler, SendSaved, Step, Send, networkVars,
         promiseVars, clientVars, serverVars, Idle
    <2>3. QED
      BY <2>1, <2>2, Untouched
  <1>5. ASSUME Regular(c)' PROVE Exchange(c)'
    <2>1. Regular(c) /\ InOnePlace(c) /\ OwnPromise(c) /\ ReadsWhole(c) /\ Owned(c)
      BY <1>5 DEF IInv, TypeOK, ExchangesAgree, Exchange, Regular, SendSaved, Step, Send,
         networkVars, promiseVars, clientVars, serverVars
    <2>2. InOnePlace(c)'
      <3>1. AtOpening(c) /\ ~ ToServer(c) /\ ~ ToClient(c)
        BY <2>1 DEF InOnePlace, AtOpening, Serves, SendSaved, Step
      <3>2. flight[c]["toServer"] = <<>> /\ ~ ToClient(c)'
        BY <1>n, <3>1 DEF ToServer, ToClient
      <3>3. /\ ~ InProgram(c)' /\ ~ InConnector(c)' /\ ~ AtOpening(c)' /\ ~ AtServer(c)'
            /\ ~ AtClient(c)'
        BY <2>1, <3>1, NoneAssumption DEF IInv, TypeOK, SendSaved, Step, Idle, networkVars,
           promiseVars, clientVars, serverVars, InOnePlace, InProgram, InConnector, AtOpening,
           ToServer, AtServer, ToClient, AtClient, Serves
      <3>4. QED
        BY <3>2, <3>3 DEF InOnePlace
    <2>3. OwnPromise(c)'
      <3>1. AtOpening(c) /\ ~ ToServer(c) /\ ~ ToClient(c)
        BY <2>1 DEF InOnePlace, AtOpening, Serves, SendSaved, Step
      <3>2. flight[c]["toServer"] = <<>> /\ ~ ToClient(c)' /\ Carried(c)
        BY <1>n, <3>1 DEF ToServer, ToClient, Carried
      <3>3. ~ AtServer(c)' /\ ~ AtClient(c)'
        BY <2>1, <3>1, NoneAssumption DEF IInv, TypeOK, SendSaved, Step, Idle, networkVars,
           promiseVars, clientVars, serverVars, InOnePlace, InProgram, InConnector, AtOpening,
           ToServer, AtServer, ToClient, AtClient, Serves
      <3>4. /\ promise' = promise /\ future' = future /\ saved' = saved
            /\ user'[c] \in {user[c], "idle"} /\ user[c] # "promise"
            /\ user[c] # "gone" \/ user'[c] = "gone"
        BY <2>1, <3>2 DEF IInv, TypeOK, SendSaved, Step, Idle, networkVars, promiseVars,
           clientVars, serverVars, OwnPromise, InProgram
      <3>5. ToServer(c)' => flight'[c]["toServer"] = Message(promise[c].of, "keep")
        BY <1>n, <2>1, <3>2, <3>4 DEF ToServer, OwnPromise
      <3>6. QED
        BY <2>1, <3>2, <3>3, <3>4, <3>5 DEF OwnPromise, Pending
    <2>4. ReadsWhole(c)'
      BY <2>1, NoneAssumption DEF IInv, TypeOK, ReadsWhole, SendSaved, Step, Send, networkVars,
         promiseVars, clientVars, serverVars, Idle
    <2>5. Owned(c)'
      BY <2>1 DEF IInv, TypeOK, Owned, SendSaved, Step, Send, networkVars, promiseVars,
         clientVars, serverVars
    <2>6. QED
      BY <2>2, <2>3, <2>4, <2>5 DEF Exchange
  <1>6. QED
    BY <1>1, <1>2, <1>3, <1>4, <1>5 DEF IInv, ExchangesAgree

\* A handler that starts to read has no answer yet.
LEMMA ClientReadyInv ==
    ASSUME IInv, NEW c \in Client, ClientReady(c)
    PROVE  IInv'
  <1>1. TypeOK'
    BY NoneAssumption DEF IInv, TypeOK, ClientReady, Run, networkVars, promiseVars, clientVars,
       serverVars, Connector, Link, User, Server, ServerPc, ClientPc, Handler, Mishap, Idle,
       Requests, Future, Way
  <1>2. SocketsOwned'
    BY NoneAssumption DEF IInv, TypeOK, SocketsOwned, Serves, ClientReady, Run, networkVars,
       promiseVars, clientVars, serverVars, Idle, ServerPc, ClientPc, ClientEnd, ServerEnd
  <1>3. StopIsBarrier'
    BY NoneAssumption DEF IInv, TypeOK, SocketsOwned, Serves, StopIsBarrier, ClientReady, Run,
       networkVars, promiseVars, clientVars, serverVars, Idle, ServerPc
  <1>4. ASSUME NEW d \in Client, d # c PROVE Regular(d)' => Exchange(d)'
    <2>1. /\ View(d)' = View(d) /\ flight'[d] = flight[d]
          /\ area'[d] = area[d] /\ spoilt'[d] = spoilt[d]
      BY <1>4 DEF IInv, TypeOK, ClientReady, Run, networkVars, promiseVars, clientVars,
         serverVars, View
    <2>2. handler' = handler \/ (handler.client # d /\ handler'.client # d)
      BY <1>4, NoneAssumption DEF IInv, TypeOK, Handler, ClientReady, Run, networkVars,
         promiseVars, clientVars, serverVars, Idle
    <2>3. QED
      BY <2>1, <2>2, Untouched
  <1>5. ASSUME Regular(c)' PROVE Exchange(c)'
    <2>1. Regular(c) /\ InOnePlace(c) /\ OwnPromise(c) /\ ReadsWhole(c) /\ Owned(c)
      BY <1>5 DEF IInv, TypeOK, ExchangesAgree, Exchange, Regular, ClientReady, Run,
         networkVars, promiseVars, clientVars, serverVars
    <2>2. InOnePlace(c)'
      BY <2>1, NoneAssumption DEF IInv, TypeOK, ReadsWhole, OwnPromise, Carried, InOnePlace,
         InProgram, InConnector, AtOpening, ToServer, AtServer, ToClient, AtClient, Serves,
         ClientReady, Run, networkVars, promiseVars, clientVars, serverVars, Idle
    <2>3. OwnPromise(c)'
      BY <2>1, NoneAssumption DEF IInv, TypeOK, OwnPromise, Carried, Pending, InOnePlace,
         InProgram, InConnector, AtOpening, ToServer, AtServer, ToClient, AtClient, Serves,
         ClientReady, Run, networkVars, promiseVars, clientVars, serverVars, Idle
    <2>4. ReadsWhole(c)'
      BY <2>1, NoneAssumption DEF IInv, TypeOK, ReadsWhole, ClientReady, Run, networkVars,
         promiseVars, clientVars, serverVars, Idle
    <2>5. Owned(c)'
      BY <2>1 DEF IInv, TypeOK, Owned, ClientReady, Run, networkVars, promiseVars, clientVars,
         serverVars
    <2>6. QED
      BY <2>2, <2>3, <2>4, <2>5 DEF Exchange
  <1>6. QED
    BY <1>1, <1>2, <1>3, <1>4, <1>5 DEF IInv, ExchangesAgree

\* The handler takes the answer over from the stream, whole.
LEMMA ClientReadsInv ==
    ASSUME IInv, NEW c \in Client, ClientReads(c)
    PROVE  IInv'
  <1>a. /\ flight' \in [Client -> [Way -> Seq(Part)]]
        /\ area' \in [Client -> [Way -> Seq(Part)]]
        /\ spoilt' = spoilt
        /\ First(c, "toClient") \in Part
        /\ \A d \in Client : d # c => flight'[d] = flight[d] /\ area'[d] = area[d]
        /\ flight'[c]["toServer"] = flight[c]["toServer"]
        /\ area'[c]["toServer"] = area[c]["toServer"]
        /\ area[c]["toClient"] = <<>> /\ Len(flight[c]["toClient"]) \in {0, Parts} =>
              /\ flight[c]["toClient"] # <<>>
              /\ First(c, "toClient") = flight[c]["toClient"][1]
              /\ flight'[c]["toClient"] = <<>> /\ area'[c]["toClient"] = <<>>
    <2>1. "toClient" \in Way /\ "toServer" \in Way /\ "toServer" # "toClient"
      BY DEF Way
    <2>2. ReadWhole(c, "toClient")
      BY DEF ClientReads
    <2>3. QED
      BY <2>1, <2>2, ReadFacts DEF IInv
  <1>b. /\ handler' \in Handler /\ handler'.pc = "dispose" /\ handler'.client = c
        /\ handler'.of = First(c, "toClient").of /\ handler'.whole = handler.whole
        /\ handler'.answer = TRUE
        /\ handler.client = c
    BY <1>a DEF IInv, TypeOK, ClientReads, Handler, Part, ServerPc, ClientPc
  <1>1. TypeOK'
    <2>1. \A d \in Client :
             /\ opened'[d] => link'[d] \in ClientEnd /\ connector'[d] = "spent"
             /\ peer'[d] = "gone" => link'[d] \notin ServerEnd
      BY DEF IInv, TypeOK, SocketsOwned, Serves, ClientReads, networkVars, promiseVars,
         clientVars, serverVars, ClientEnd, ServerEnd, ClientPc, ServerPc
    <2>2. QED
      BY <1>a, <1>b, <2>1 DEF IInv, TypeOK, ClientReads, networkVars, promiseVars, clientVars,
         serverVars
  <1>2. SocketsOwned'
    BY NoneAssumption DEF IInv, TypeOK, SocketsOwned, Serves, ClientReads, networkVars,
       promiseVars, clientVars, serverVars, Idle, ServerPc, ClientPc, ClientEnd, ServerEnd
  <1>3. StopIsBarrier'
    BY NoneAssumption DEF IInv, TypeOK, SocketsOwned, Serves, StopIsBarrier, ClientReads,
       networkVars, promiseVars, clientVars, serverVars, Idle, ServerPc
  <1>4. ASSUME NEW d \in Client, d # c PROVE Regular(d)' => Exchange(d)'
    <2>1. /\ View(d)' = View(d) /\ flight'[d] = flight[d]
          /\ area'[d] = area[d] /\ spoilt'[d] = spoilt[d]
      BY <1>4, <1>a DEF ClientReads, networkVars, promiseVars, clientVars, serverVars, View
    <2>2. handler' = handler \/ (handler.client # d /\ handler'.client # d)
      BY <1>4, NoneAssumption DEF IInv, TypeOK, Handler, ClientReads, networkVars, promiseVars,
         clientVars, serverVars, Idle
    <2>3. QED
      BY <2>1, <2>2, Untouched
  <1>5. ASSUME Regular(c)' PROVE Exchange(c)'
    <2>1. Regular(c) /\ InOnePlace(c) /\ OwnPromise(c) /\ ReadsWhole(c) /\ Owned(c)
      BY <1>5 DEF IInv, TypeOK, ExchangesAgree, Exchange, Regular, ClientReads, networkVars,
         promiseVars, clientVars, serverVars
    <2>a. /\ ToClient(c)
          /\ flight'[c]["toClient"] = <<>> /\ area'[c]["toClient"] = <<>>
          /\ First(c, "toClient").of = promise[c].of
      <3>1. promise[c].of \in Requests /\ "keep" \in Disposition /\ "toClient" \in Way
        BY DEF IInv, TypeOK, Disposition, Way
      <3>2. \/ flight[c]["toClient"] = <<>>
            \/ \E d \in Disposition : flight[c]["toClient"] = Message(promise[c].of, d)
        BY <2>1, <3>1 DEF OwnPromise, ToClient
      <3>3. area[c]["toClient"] = <<>>
        BY <2>1, <3>1 DEF ReadsWhole
      <3>4. /\ Len(flight[c]["toClient"]) \in {0, Parts}
            /\ flight[c]["toClient"] # <<>> => flight[c]["toClient"][1].of = promise[c].of
        BY <3>1, <3>2, MessageFacts
      <3>5. QED
        BY <1>a, <3>3, <3>4 DEF ToClient
    <2>2. InOnePlace(c)'
      <3>1. /\ ~ InProgram(c) /\ ~ InConnector(c) /\ ~ AtOpening(c) /\ ~ ToServer(c)
            /\ ~ AtServer(c) /\ ~ AtClient(c)
        BY <2>1, <2>a, <1>b DEF InOnePlace, AtOpening, AtServer, Serves, ClientReads
      <3>2. /\ ~ InProgram(c)' /\ ~ InConnector(c)' /\ ~ AtOpening(c)' /\ ~ ToServer(c)'
            /\ ~ ToClient(c)' /\ ~ AtServer(c)'
        BY <1>a, <1>b, <2>a, <3>1 DEF InProgram, InConnector, AtOpening, AtServer, AtClient,
           ToServer, ToClient, Serves, ClientReads, networkVars, promiseVars, clientVars, serverVars
      <3>3. QED
        BY <3>2 DEF InOnePlace
    <2>3. OwnPromise(c)'
      <3>1. /\ ~ InProgram(c) /\ ~ InConnector(c) /\ ~ AtOpening(c) /\ ~ ToServer(c)
            /\ ~ AtServer(c) /\ ~ AtClient(c)
        BY <2>1, <2>a, <1>b DEF InOnePlace, AtOpening, AtServer, Serves, ClientReads
      <3>2. /\ ~ InProgram(c)' /\ ~ InConnector(c)' /\ ~ AtOpening(c)' /\ ~ ToServer(c)'
            /\ ~ ToClient(c)' /\ ~ AtServer(c)'
        BY <1>a, <1>b, <2>a, <3>1 DEF InProgram, InConnector, AtOpening, AtServer, AtClient,
           ToServer, ToClient, Serves, ClientReads, networkVars, promiseVars, clientVars, serverVars
      <3>3. /\ Carried(c) /\ user' = user /\ saved' = saved /\ promise' = promise
            /\ future' = future
        BY <2>a DEF Carried, ClientReads, networkVars, promiseVars, clientVars, serverVars
      <3>4. AtClient(c)' => handler'.of = promise'[c].of
        BY <1>b, <2>a, <3>3
      <3>5. QED
        BY <2>1, <3>2, <3>3, <3>4 DEF OwnPromise, Pending
    <2>4. ReadsWhole(c)'
      <3>1. \A x \in Way : x \in {"toClient", "toServer"}
        BY DEF Way
      <3>2. ~ AtClient(c)
        BY <2>1, <2>a DEF InOnePlace
      <3>3. QED
        BY <1>a, <1>b, <2>1, <2>a, <3>1, <3>2 DEF ReadsWhole, AtClient
    <2>5. Owned(c)'
      BY <2>1 DEF IInv, TypeOK, Owned, ClientReads, networkVars, promiseVars, clientVars,
         serverVars
    <2>6. QED
      BY <2>2, <2>3, <2>4, <2>5 DEF Exchange
  <1>6. QED
    BY <1>1, <1>2, <1>3, <1>4, <1>5 DEF IInv, ExchangesAgree

\* A client whose read gave up is not regular.
LEMMA ClientGivesUpInv ==
    ASSUME IInv, NEW c \in Client, ClientGivesUp(c)
    PROVE  IInv'
  <1>a. /\ flight' \in [Client -> [Way -> Seq(Part)]]
        /\ area' \in [Client -> [Way -> Seq(Part)]]
        /\ spoilt' \in [Client -> [Way -> BOOLEAN]]
        /\ \A d \in Client : d # c =>
              flight'[d] = flight[d] /\ area'[d] = area[d] /\ spoilt'[d] = spoilt[d]
    <2>1. "toClient" \in Way
      BY DEF Way
    <2>2. QED
      BY <2>1, GiveUpFacts DEF IInv, ClientGivesUp
  <1>b. /\ past' \in [Client -> SUBSET Mishap] /\ "slow" \in past'[c]
        /\ \A d \in Client : d # c => past'[d] = past[d]
    BY BefallsFacts DEF IInv, ClientGivesUp, Mishap
  <1>1. TypeOK'
    <2>1. handler' \in Handler
      BY DEF IInv, TypeOK, ClientGivesUp, Handler, ServerPc, ClientPc, Disposition
    <2>2. \A d \in Client :
             /\ opened'[d] => link'[d] \in ClientEnd /\ connector'[d] = "spent"
             /\ peer'[d] = "gone" => link'[d] \notin ServerEnd
      BY DEF IInv, TypeOK, SocketsOwned, Serves, ClientGivesUp, networkVars, promiseVars,
         clientVars, serverVars, ClientEnd, ServerEnd, ClientPc, ServerPc
    <2>3. QED
      BY <1>a, <1>b, <2>1, <2>2 DEF IInv, TypeOK, ClientGivesUp, networkVars, promiseVars,
         clientVars, serverVars
  <1>2. SocketsOwned'
    BY NoneAssumption DEF IInv, TypeOK, SocketsOwned, Serves, ClientGivesUp, Befalls,
       networkVars, promiseVars, clientVars, serverVars, Idle, ServerPc, ClientPc, ClientEnd,
       ServerEnd
  <1>3. StopIsBarrier'
    BY NoneAssumption DEF IInv, TypeOK, SocketsOwned, Serves, StopIsBarrier, ClientGivesUp,
       Befalls, networkVars, promiseVars, clientVars, serverVars, Idle, ServerPc
  <1>4. ASSUME NEW d \in Client, d # c PROVE Regular(d)' => Exchange(d)'
    <2>1. /\ View(d)' = View(d) /\ flight'[d] = flight[d]
          /\ area'[d] = area[d] /\ spoilt'[d] = spoilt[d]
      BY <1>4, <1>a, <1>b DEF ClientGivesUp, networkVars, promiseVars, clientVars, serverVars,
         View
    <2>2. handler' = handler \/ (handler.client # d /\ handler'.client # d)
      BY <1>4, NoneAssumption DEF IInv, TypeOK, Handler, ClientGivesUp, Befalls, networkVars,
         promiseVars, clientVars, serverVars, Idle
    <2>3. QED
      BY <2>1, <2>2, Untouched
  <1>5. ASSUME Regular(c)' PROVE Exchange(c)'
    BY <1>b, <1>5 DEF Regular
  <1>6. QED
    BY <1>1, <1>2, <1>3, <1>4, <1>5 DEF IInv, ExchangesAgree

\* The handler keeps the answer and its socket.
LEMMA DisposeInv ==
    ASSUME IInv, NEW c \in Client, Dispose(c)
    PROVE  IInv'
  <1>1. TypeOK'
    BY NoneAssumption DEF IInv, TypeOK, Dispose, Step, networkVars, promiseVars, clientVars,
       serverVars, Connector, Link, User, Server, ServerPc, ClientPc, Handler, Mishap, Idle,
       Requests, Future, Way
  <1>2. SocketsOwned'
    BY NoneAssumption DEF IInv, TypeOK, SocketsOwned, Serves, Dispose, Step, networkVars,
       promiseVars, clientVars, serverVars, Idle, ServerPc, ClientPc, ClientEnd, ServerEnd
  <1>3. StopIsBarrier'
    BY NoneAssumption DEF IInv, TypeOK, SocketsOwned, Serves, StopIsBarrier, Dispose, Step,
       networkVars, promiseVars, clientVars, serverVars, Idle, ServerPc
  <1>4. ASSUME NEW d \in Client, d # c PROVE Regular(d)' => Exchange(d)'
    <2>1. /\ View(d)' = View(d) /\ flight'[d] = flight[d]
          /\ area'[d] = area[d] /\ spoilt'[d] = spoilt[d]
      BY <1>4 DEF IInv, TypeOK, Dispose, Step, networkVars, promiseVars, clientVars,
         serverVars, View
    <2>2. handler' = handler \/ (handler.client # d /\ handler'.client # d)
      BY <1>4, NoneAssumption DEF IInv, TypeOK, Handler, Dispose, Step, networkVars,
         promiseVars, clientVars, serverVars, Idle
    <2>3. QED
      BY <2>1, <2>2, Untouched
  <1>5. ASSUME Regular(c)' PROVE Exchange(c)'
    <2>1. Regular(c) /\ InOnePlace(c) /\ OwnPromise(c) /\ ReadsWhole(c) /\ Owned(c)
      BY <1>5 DEF IInv, TypeOK, ExchangesAgree, Exchange, Regular, Dispose, Step, networkVars,
         promiseVars, clientVars, serverVars
    <2>2. InOnePlace(c)'
      BY <2>1, NoneAssumption DEF IInv, TypeOK, ReadsWhole, OwnPromise, Carried, InOnePlace,
         InProgram, InConnector, AtOpening, ToServer, AtServer, ToClient, AtClient, Serves,
         Dispose, Step, networkVars, promiseVars, clientVars, serverVars, Idle
    <2>3. OwnPromise(c)'
      BY <2>1, NoneAssumption DEF IInv, TypeOK, OwnPromise, Carried, Pending, InOnePlace,
         InProgram, InConnector, AtOpening, ToServer, AtServer, ToClient, AtClient, Serves,
         Dispose, Step, networkVars, promiseVars, clientVars, serverVars, Idle
    <2>4. ReadsWhole(c)'
      BY <2>1, NoneAssumption DEF IInv, TypeOK, ReadsWhole, Dispose, Step, networkVars,
         promiseVars, clientVars, serverVars, Idle
    <2>5. Owned(c)'
      BY <2>1 DEF IInv, TypeOK, Owned, Dispose, Step, networkVars, promiseVars, clientVars,
         serverVars
    <2>6. QED
      BY <2>2, <2>3, <2>4, <2>5 DEF Exchange
  <1>6. QED
    BY <1>1, <1>2, <1>3, <1>4, <1>5 DEF IInv, ExchangesAgree

\* The client's end is closed; what was on its way to it was no answer, or is lost.
LEMMA ClientClosesInv ==
    ASSUME IInv, NEW c \in Client, ClientCloses(c)
    PROVE  IInv'
  <1>a. /\ flight' \in [Client -> [Way -> Seq(Part)]]
        /\ area' \in [Client -> [Way -> Seq(Part)]]
        /\ spoilt' \in [Client -> [Way -> BOOLEAN]]
        /\ \A d \in Client : d # c =>
              flight'[d] = flight[d] /\ area'[d] = area[d] /\ spoilt'[d] = spoilt[d]
        /\ \A x \in Way : /\ flight'[c][x] \in {flight[c][x], <<>>}
                          /\ area'[c][x] \in {area[c][x], <<>>}
                          /\ spoilt'[c][x] \in {spoilt[c][x], FALSE}
        /\ flight'[c]["toClient"] = <<>>
    BY CloseClientFacts DEF IInv, TypeOK, ClientCloses, Way
  <1>b. /\ link' \in [Client -> Link]
        /\ \A d \in Client : d # c => link'[d] = link[d]
        /\ link'[c] \notin {"none", "asked"} \union ClientEnd
        /\ link'[c] \in ServerEnd => link[c] \in ServerEnd
    <2>1. link' = [link EXCEPT ![c] = IF @ = "up" THEN "clientClosed" ELSE "closed"]
      BY CloseClientFacts DEF IInv, ClientCloses
    <2>2. QED
      BY <2>1 DEF IInv, TypeOK, Link, ClientEnd, ServerEnd
  <1>c. /\ handler.pc = "close" /\ handler.client = c
        /\ handler' = [handler EXCEPT !.pc = "disconnected"] /\ handler' \in Handler
    BY StepFacts DEF IInv, ClientCloses, ClientPc
  <1>d. /\ handler'.pc = "disconnected" /\ handler'.client = c /\ handler' # Idle
        /\ handler'.of = handler.of /\ handler'.whole = handler.whole
        /\ handler'.answer = handler.answer
    BY <1>c DEF IInv, TypeOK, Handler, Idle
  <1>e. /\ opened'[c] = FALSE
        /\ \A d \in Client : d # c => opened'[d] = opened[d]
        /\ connector' = connector /\ peer' = peer /\ server' = server /\ user' = user
        /\ saved' = saved /\ promise' = promise /\ future' = future /\ past' = past
    BY DEF IInv, TypeOK, ClientCloses, promiseVars, serverVars
  <1>1. TypeOK'
    <2>1. opened' \in [Client -> BOOLEAN]
      BY DEF IInv, TypeOK, ClientCloses
    <2>2. \A d \in Client :
             /\ opened'[d] => link'[d] \in ClientEnd /\ connector'[d] = "spent"
             /\ peer'[d] = "gone" => link'[d] \notin ServerEnd
      BY <1>b, <1>e DEF IInv, TypeOK
    <2>3. QED
      BY <1>a, <1>b, <1>c, <2>1, <2>2 DEF IInv, TypeOK, ClientCloses, networkVars, promiseVars,
         clientVars, serverVars
  <1>2. SocketsOwned'
    BY <1>b, <1>c, <1>d, <1>e DEF IInv, SocketsOwned, Serves, ClientPc, ServerPc
  <1>3. StopIsBarrier'
    BY NoneAssumption DEF IInv, TypeOK, SocketsOwned, Serves, StopIsBarrier, ClientCloses,
       Step, networkVars, promiseVars, clientVars, serverVars, Idle, ServerPc
  <1>4. ASSUME NEW d \in Client, d # c PROVE Regular(d)' => Exchange(d)'
    <2>1. /\ View(d)' = View(d) /\ flight'[d] = flight[d]
          /\ area'[d] = area[d] /\ spoilt'[d] = spoilt[d]
      BY <1>4, <1>a, <1>e DEF View
    <2>2. handler' = handler \/ (handler.client # d /\ handler'.client # d)
      BY <1>4, NoneAssumption DEF IInv, TypeOK, Handler, ClientCloses, Step, networkVars,
         promiseVars, clientVars, serverVars, Idle
    <2>3. QED
      BY <2>1, <2>2, Untouched
  <1>5. ASSUME Regular(c)' PROVE Exchange(c)'
    <2>1. Regular(c) /\ InOnePlace(c) /\ OwnPromise(c) /\ ReadsWhole(c) /\ Owned(c)
      BY <1>5 DEF IInv, TypeOK, ExchangesAgree, Exchange, Regular, ClientCloses, Step,
         networkVars, promiseVars, clientVars, serverVars
    <2>2. InOnePlace(c)'
      <3>1. /\ InProgram(c)' = InProgram(c) /\ InConnector(c)' = InConnector(c)
            /\ ~ AtOpening(c)' /\ ~ AtServer(c)' /\ ~ ToClient(c)'
            /\ AtClient(c)' = AtClient(c)
        BY <1>a, <1>c, <1>d, <1>e DEF InProgram, InConnector, AtOpening, AtServer, AtClient,
                                      ToClient, Serves
      <3>2. ToServer(c)' => ToServer(c)
        BY <1>a DEF ToServer, Way
      <3>3. QED
        BY <2>1, <3>1, <3>2 DEF InOnePlace
    <2>3. OwnPromise(c)'
      <3>1. /\ InProgram(c)' = InProgram(c) /\ InConnector(c)' = InConnector(c)
            /\ ~ AtOpening(c)' /\ ~ AtServer(c)' /\ ~ ToClient(c)'
            /\ AtClient(c)' = AtClient(c)
        BY <1>a, <1>c, <1>d, <1>e DEF InProgram, InConnector, AtOpening, AtServer, AtClient,
                                      ToClient, Serves
      <3>2. ToServer(c)' => ToServer(c) /\ flight'[c]["toServer"] = flight[c]["toServer"]
        BY <1>a DEF ToServer, Way
      <3>3. Carried(c)' => Carried(c)
        BY <3>1, <3>2 DEF Carried
      <3>4. QED
        BY <1>d, <1>e, <2>1, <3>1, <3>2, <3>3 DEF OwnPromise, Pending
    <2>4. ReadsWhole(c)'
      BY <1>a, <1>c, <1>d, <2>1 DEF ReadsWhole
    <2>5. Owned(c)'
      BY <2>1 DEF IInv, TypeOK, Owned, ClientCloses, Step, networkVars, promiseVars,
         clientVars, serverVars
    <2>6. QED
      BY <2>2, <2>3, <2>4, <2>5 DEF Exchange
  <1>6. QED
    BY <1>1, <1>2, <1>3, <1>4, <1>5 DEF IInv, ExchangesAgree

\* The handler keeps its answer, if it has one.
LEMMA OnDisconnectedInv ==
    ASSUME IInv, NEW c \in Client, OnDisconnected(c)
    PROVE  IInv'
  <1>1. TypeOK'
    <2>1. past' \in [Client -> SUBSET Mishap]
      BY BefallsFacts DEF IInv, TypeOK, OnDisconnected, Mishap
    <2>2. connected' \in [Client -> BOOLEAN]
      BY DEF IInv, TypeOK, OnDisconnected
    <2>3. handler' \in Handler
      BY StepFacts DEF IInv, OnDisconnected, ServerPc, ClientPc
    <2>4. \A d \in Client :
             /\ opened'[d] => link'[d] \in ClientEnd /\ connector'[d] = "spent"
             /\ peer'[d] = "gone" => link'[d] \notin ServerEnd
      BY DEF IInv, TypeOK, SocketsOwned, Serves, OnDisconnected, networkVars, promiseVars,
         clientVars, serverVars, ClientEnd, ServerEnd, ClientPc, ServerPc
    <2>5. QED
      BY <2>1, <2>2, <2>3, <2>4 DEF IInv, TypeOK, OnDisconnected, networkVars, promiseVars,
         clientVars, serverVars
  <1>2. SocketsOwned'
    BY NoneAssumption DEF IInv, TypeOK, SocketsOwned, Serves, OnDisconnected, Step, Befalls,
       Pending, networkVars, promiseVars, clientVars, serverVars, Idle, ServerPc, ClientPc,
       ClientEnd, ServerEnd
  <1>3. StopIsBarrier'
    BY NoneAssumption DEF IInv, TypeOK, SocketsOwned, Serves, StopIsBarrier, OnDisconnected,
       Step, Befalls, Pending, networkVars, promiseVars, clientVars, serverVars, Idle, ServerPc
  <1>4. ASSUME NEW d \in Client, d # c PROVE Regular(d)' => Exchange(d)'
    <2>1. /\ View(d)' = View(d) /\ flight'[d] = flight[d]
          /\ area'[d] = area[d] /\ spoilt'[d] = spoilt[d]
      BY <1>4 DEF IInv, TypeOK, OnDisconnected, Step, Befalls, Pending, networkVars,
         promiseVars, clientVars, serverVars, View
    <2>2. handler' = handler \/ (handler.client # d /\ handler'.client # d)
      BY <1>4, NoneAssumption DEF IInv, TypeOK, Handler, OnDisconnected, Step, Befalls,
         Pending, networkVars, promiseVars, clientVars, serverVars, Idle
    <2>3. QED
      BY <2>1, <2>2, Untouched
  <1>5. ASSUME Regular(c)' PROVE Exchange(c)'
    <2>1. Regular(c) /\ InOnePlace(c) /\ OwnPromise(c) /\ ReadsWhole(c) /\ Owned(c)
      BY <1>5 DEF IInv, TypeOK, ExchangesAgree, Exchange, Regular, OnDisconnected, Step,
         Befalls, Pending, networkVars, promiseVars, clientVars, serverVars
    <2>2. InOnePlace(c)'
      BY <2>1, NoneAssumption DEF IInv, TypeOK, ReadsWhole, OwnPromise, Carried, InOnePlace,
         InProgram, InConnector, AtOpening, ToServer, AtServer, ToClient, AtClient, Serves,
         OnDisconnected, Step, Befalls, Pending, networkVars, promiseVars, clientVars,
         serverVars, Idle
    <2>3. OwnPromise(c)'
      BY <2>1, NoneAssumption DEF IInv, TypeOK, OwnPromise, Carried, Pending, InOnePlace,
         InProgram, InConnector, AtOpening, ToServer, AtServer, ToClient, AtClient, Serves,
         OnDisconnected, Step, Befalls, Pending, networkVars, promiseVars, clientVars,
         serverVars, Idle
    <2>4. ReadsWhole(c)'
      BY <2>1, NoneAssumption DEF IInv, TypeOK, ReadsWhole, OnDisconnected, Step, Befalls,
         Pending, networkVars, promiseVars, clientVars, serverVars, Idle
    <2>5. Owned(c)'
      BY <2>1 DEF IInv, TypeOK, Owned, OnDisconnected, Step, Befalls, Pending, networkVars,
         promiseVars, clientVars, serverVars
    <2>6. QED
      BY <2>2, <2>3, <2>4, <2>5 DEF Exchange
  <1>6. QED
    BY <1>1, <1>2, <1>3, <1>4, <1>5 DEF IInv, ExchangesAgree

\* The promise is set by the answer to its own request, once.
LEMMA SetValueInv ==
    ASSUME IInv, NEW c \in Client, SetValue(c)
    PROVE  IInv'
  <1> DEFINE g == [future[c] EXCEPT ![promise[c].of] = Answer(c)]
  <1>a. /\ g \in Seq(Future) /\ Len(g) = Len(future[c]) /\ DOMAIN g = DOMAIN future[c]
        /\ \A r \in DOMAIN g : g[r] = IF r = promise[c].of THEN Answer(c) ELSE future[c][r]
    <2>1. future[c] \in Seq(Future) /\ Answer(c) \in Future
      BY DEF IInv, TypeOK, Answer, Future
    <2>2. \A r \in DOMAIN g : g[r] = IF r = promise[c].of THEN Answer(c) ELSE future[c][r]
      OBVIOUS
    <2>3. CASE promise[c].of \in 1 .. Len(future[c])
      BY <2>1, <2>2, <2>3, ExceptSeq
    <2>4. CASE promise[c].of \notin 1 .. Len(future[c])
      <3>1. DOMAIN future[c] = 1 .. Len(future[c])
        BY <2>1
      <3>2. g = future[c]
        BY <2>1, <2>4, <3>1
      <3>3. QED
        BY <2>1, <2>2, <3>2
    <2>5. QED
      BY <2>3, <2>4
  <1> HIDE DEF g
  <1>b. /\ handler.pc = "setValue" /\ handler.client = c /\ handler' = Idle
        /\ handler' \in Handler
    BY StepFacts DEF IInv, SetValue
  <1>c. \/ /\ promise[c].set /\ Befalls(c, "thrown") /\ promise' = promise /\ future' = future
        \/ /\ ~ promise[c].set /\ past' = past
           /\ promise' = [promise EXCEPT ![c].set = TRUE]
           /\ future' = [future EXCEPT ![c] = g]
    BY DEF SetValue, g
  <1>1. TypeOK'
    <2>1. past' \in [Client -> SUBSET Mishap]
      BY <1>c, BefallsFacts DEF IInv, TypeOK, Mishap
    <2>2. promise' \in [Client -> [of : Requests, set : BOOLEAN]]
      <3>1. promise[c] \in [of : Requests, set : BOOLEAN]
        BY DEF IInv, TypeOK
      <3>2. [promise[c] EXCEPT !.set = TRUE] \in [of : Requests, set : BOOLEAN]
        BY <3>1
      <3>3. CASE promise' = [promise EXCEPT ![c] = [promise[c] EXCEPT !.set = TRUE]]
        BY <3>2, <3>3 DEF IInv, TypeOK
      <3>4. QED
        BY <1>c, <3>3 DEF IInv, TypeOK
    <2>3. future' \in [Client -> Seq(Future)]
      BY <1>a, <1>c DEF IInv, TypeOK
    <2>4. \A d \in Client :
             /\ opened'[d] => link'[d] \in ClientEnd /\ connector'[d] = "spent"
             /\ peer'[d] = "gone" => link'[d] \notin ServerEnd
      BY DEF IInv, TypeOK, SocketsOwned, Serves, SetValue, networkVars, promiseVars,
         clientVars, serverVars, ClientEnd, ServerEnd, ClientPc, ServerPc
    <2>5. QED
      BY <1>b, <2>1, <2>2, <2>3, <2>4 DEF IInv, TypeOK, SetValue, networkVars, promiseVars,
         clientVars, serverVars
  <1>2. SocketsOwned'
    BY NoneAssumption DEF IInv, TypeOK, SocketsOwned, Serves, SetValue, Step, Befalls,
       networkVars, promiseVars, clientVars, serverVars, Idle, ServerPc, ClientPc, ClientEnd,
       ServerEnd
  <1>3. StopIsBarrier'
    BY NoneAssumption DEF IInv, TypeOK, SocketsOwned, Serves, StopIsBarrier, SetValue, Step,
       Befalls, networkVars, promiseVars, clientVars, serverVars, Idle, ServerPc
  <1>4. ASSUME NEW d \in Client, d # c PROVE Regular(d)' => Exchange(d)'
    <2>1. /\ View(d)' = View(d) /\ flight'[d] = flight[d]
          /\ area'[d] = area[d] /\ spoilt'[d] = spoilt[d]
      BY <1>4 DEF IInv, TypeOK, SetValue, Step, Befalls, networkVars, promiseVars, clientVars,
         serverVars, View
    <2>2. handler' = handler \/ (handler.client # d /\ handler'.client # d)
      BY <1>4, NoneAssumption DEF IInv, TypeOK, Handler, SetValue, Step, Befalls, networkVars,
         promiseVars, clientVars, serverVars, Idle
    <2>3. QED
      BY <2>1, <2>2, Untouched
  <1>5. ASSUME Regular(c)' PROVE Exchange(c)'
    <2>1. Regular(c) /\ InOnePlace(c) /\ OwnPromise(c) /\ ReadsWhole(c) /\ Owned(c)
      BY <1>5 DEF IInv, TypeOK, ExchangesAgree, Exchange, Regular, SetValue, Step, Befalls,
         networkVars, promiseVars, clientVars, serverVars
    <2>a. /\ AtClient(c) /\ handler.whole /\ handler.of = promise[c].of /\ ~ promise[c].set
      BY <1>b, <2>1 DEF ReadsWhole, AtClient, OwnPromise, Carried
    <2>b. /\ promise'[c].of = promise[c].of /\ future'[c] = g /\ past' = past
      BY <1>c, <2>a DEF IInv, TypeOK
    <2>2. InOnePlace(c)'
      BY <2>1, NoneAssumption DEF IInv, TypeOK, ReadsWhole, OwnPromise, Carried, InOnePlace,
         InProgram, InConnector, AtOpening, ToServer, AtServer, ToClient, AtClient, Serves,
         SetValue, Step, Befalls, networkVars, promiseVars, clientVars, serverVars, Idle
    <2>3. OwnPromise(c)'
      <3>1. /\ ~ InProgram(c) /\ ~ InConnector(c) /\ ~ ToServer(c) /\ ~ ToClient(c)
            /\ ~ AtOpening(c)' /\ ~ AtServer(c)' /\ ~ AtClient(c)'
        BY <1>b, <2>1, <2>a, NoneAssumption DEF InOnePlace, AtOpening, AtServer, AtClient,
           Serves, Idle
      <3>2. /\ ~ InProgram(c)' /\ ~ InConnector(c)' /\ ~ ToServer(c)' /\ ~ ToClient(c)'
            /\ saved' = saved /\ user' = user
        BY <3>1 DEF InProgram, InConnector, ToServer, ToClient, SetValue, networkVars,
           clientVars
      <3>3. Len(future'[c]) = Len(future[c])
        BY <1>a, <2>b
      <3>4. QED
        BY <2>1, <2>b, <3>1, <3>2, <3>3 DEF OwnPromise, Carried
    <2>4. ReadsWhole(c)'
      BY <2>1, NoneAssumption DEF IInv, TypeOK, ReadsWhole, SetValue, Step, Befalls,
         networkVars, promiseVars, clientVars, serverVars, Idle
    <2>5. Owned(c)'
      BY <1>a, <2>1, <2>a, <2>b DEF Owned, Answer
    <2>6. QED
      BY <2>2, <2>3, <2>4, <2>5 DEF Exchange
  <1>6. QED
    BY <1>1, <1>2, <1>3, <1>4, <1>5 DEF IInv, ExchangesAgree

\* The acceptor's handler runs while the server listens.
LEMMA AcceptReadyInv ==
    ASSUME IInv, NEW c \in Client, AcceptReady(c)
    PROVE  IInv'
  <1>1. TypeOK'
    BY NoneAssumption DEF IInv, TypeOK, AcceptReady, Run, networkVars, promiseVars, clientVars,
       serverVars, Connector, Link, User, Server, ServerPc, ClientPc, Handler, Mishap, Idle,
       Requests, Future, Way
  <1>2. SocketsOwned'
    BY NoneAssumption DEF IInv, TypeOK, SocketsOwned, Serves, AcceptReady, Run, networkVars,
       promiseVars, clientVars, serverVars, Idle, ServerPc, ClientPc, ClientEnd, ServerEnd
  <1>3. StopIsBarrier'
    BY NoneAssumption DEF IInv, TypeOK, SocketsOwned, Serves, StopIsBarrier, AcceptReady, Run,
       networkVars, promiseVars, clientVars, serverVars, Idle, ServerPc
  <1>4. ASSUME NEW d \in Client, d # c PROVE Regular(d)' => Exchange(d)'
    <2>1. /\ View(d)' = View(d) /\ flight'[d] = flight[d]
          /\ area'[d] = area[d] /\ spoilt'[d] = spoilt[d]
      BY <1>4 DEF IInv, TypeOK, AcceptReady, Run, networkVars, promiseVars, clientVars,
         serverVars, View
    <2>2. handler' = handler \/ (handler.client # d /\ handler'.client # d)
      BY <1>4, NoneAssumption DEF IInv, TypeOK, Handler, AcceptReady, Run, networkVars,
         promiseVars, clientVars, serverVars, Idle
    <2>3. QED
      BY <2>1, <2>2, Untouched
  <1>5. ASSUME Regular(c)' PROVE Exchange(c)'
    <2>1. Regular(c) /\ InOnePlace(c) /\ OwnPromise(c) /\ ReadsWhole(c) /\ Owned(c)
      BY <1>5 DEF IInv, TypeOK, ExchangesAgree, Exchange, Regular, AcceptReady, Run,
         networkVars, promiseVars, clientVars, serverVars
    <2>2. InOnePlace(c)'
      BY <2>1, NoneAssumption DEF IInv, TypeOK, ReadsWhole, OwnPromise, Carried, InOnePlace,
         InProgram, InConnector, AtOpening, ToServer, AtServer, ToClient, AtClient, Serves,
         AcceptReady, Run, networkVars, promiseVars, clientVars, serverVars, Idle
    <2>3. OwnPromise(c)'
      BY <2>1, NoneAssumption DEF IInv, TypeOK, OwnPromise, Carried, Pending, InOnePlace,
         InProgram, InConnector, AtOpening, ToServer, AtServer, ToClient, AtClient, Serves,
         AcceptReady, Run, networkVars, promiseVars, clientVars, serverVars, Idle
    <2>4. ReadsWhole(c)'
      BY <2>1, NoneAssumption DEF IInv, TypeOK, ReadsWhole, AcceptReady, Run, networkVars,
         promiseVars, clientVars, serverVars, Idle
    <2>5. Owned(c)'
      BY <2>1 DEF IInv, TypeOK, Owned, AcceptReady, Run, networkVars, promiseVars, clientVars,
         serverVars
    <2>6. QED
      BY <2>2, <2>3, <2>4, <2>5 DEF Exchange
  <1>6. QED
    BY <1>1, <1>2, <1>3, <1>4, <1>5 DEF IInv, ExchangesAgree

\* The peer is opened before stop() has the mutex.
LEMMA OnAcceptedInv ==
    ASSUME IInv, NEW c \in Client, OnAccepted(c)
    PROVE  IInv'
  <1>1. TypeOK'
    <2>1. peer' \in [Client -> {"none", "open", "gone"}]
      BY DEF IInv, TypeOK, OnAccepted
    <2>2. handler' \in Handler
      BY StepFacts DEF IInv, OnAccepted, ServerPc, ClientPc
    <2>3. \A d \in Client :
             /\ opened'[d] => link'[d] \in ClientEnd /\ connector'[d] = "spent"
             /\ peer'[d] = "gone" => link'[d] \notin ServerEnd
      BY DEF IInv, TypeOK, SocketsOwned, Serves, OnAccepted, networkVars, promiseVars,
         clientVars, serverVars, ClientEnd, ServerEnd, ClientPc, ServerPc
    <2>4. QED
      BY <2>1, <2>2, <2>3 DEF IInv, TypeOK, OnAccepted, networkVars, promiseVars, clientVars,
         serverVars
  <1>2. SocketsOwned'
    BY NoneAssumption DEF IInv, TypeOK, SocketsOwned, Serves, OnAccepted, Step, networkVars,
       promiseVars, clientVars, serverVars, Idle, ServerPc, ClientPc, ClientEnd, ServerEnd
  <1>3. StopIsBarrier'
    BY NoneAssumption DEF IInv, TypeOK, SocketsOwned, Serves, StopIsBarrier, OnAccepted, Step,
       networkVars, promiseVars, clientVars, serverVars, Idle, ServerPc
  <1>4. ASSUME NEW d \in Client, d # c PROVE Regular(d)' => Exchange(d)'
    <2>1. /\ View(d)' = View(d) /\ flight'[d] = flight[d]
          /\ area'[d] = area[d] /\ spoilt'[d] = spoilt[d]
      BY <1>4 DEF IInv, TypeOK, OnAccepted, Step, networkVars, promiseVars, clientVars,
         serverVars, View
    <2>2. handler' = handler \/ (handler.client # d /\ handler'.client # d)
      BY <1>4, NoneAssumption DEF IInv, TypeOK, Handler, OnAccepted, Step, networkVars,
         promiseVars, clientVars, serverVars, Idle
    <2>3. QED
      BY <2>1, <2>2, Untouched
  <1>5. ASSUME Regular(c)' PROVE Exchange(c)'
    <2>1. Regular(c) /\ InOnePlace(c) /\ OwnPromise(c) /\ ReadsWhole(c) /\ Owned(c)
      BY <1>5 DEF IInv, TypeOK, ExchangesAgree, Exchange, Regular, OnAccepted, Step,
         networkVars, promiseVars, clientVars, serverVars
    <2>2. InOnePlace(c)'
      BY <2>1, NoneAssumption DEF IInv, TypeOK, ReadsWhole, OwnPromise, Carried, InOnePlace,
         InProgram, InConnector, AtOpening, ToServer, AtServer, ToClient, AtClient, Serves,
         OnAccepted, Step, networkVars, promiseVars, clientVars, serverVars, Idle
    <2>3. OwnPromise(c)'
      BY <2>1, NoneAssumption DEF IInv, TypeOK, OwnPromise, Carried, Pending, InOnePlace,
         InProgram, InConnector, AtOpening, ToServer, AtServer, ToClient, AtClient, Serves,
         OnAccepted, Step, networkVars, promiseVars, clientVars, serverVars, Idle
    <2>4. ReadsWhole(c)'
      BY <2>1, NoneAssumption DEF IInv, TypeOK, ReadsWhole, OnAccepted, Step, networkVars,
         promiseVars, clientVars, serverVars, Idle
    <2>5. Owned(c)'
      BY <2>1 DEF IInv, TypeOK, Owned, OnAccepted, Step, networkVars, promiseVars, clientVars,
         serverVars
    <2>6. QED
      BY <2>2, <2>3, <2>4, <2>5 DEF Exchange
  <1>6. QED
    BY <1>1, <1>2, <1>3, <1>4, <1>5 DEF IInv, ExchangesAgree

\* A peer's handler runs for an open peer.
LEMMA PeerReadyInv ==
    ASSUME IInv, NEW c \in Client, PeerReady(c)
    PROVE  IInv'
  <1>1. TypeOK'
    BY NoneAssumption DEF IInv, TypeOK, PeerReady, Run, networkVars, promiseVars, clientVars,
       serverVars, Connector, Link, User, Server, ServerPc, ClientPc, Handler, Mishap, Idle,
       Requests, Future, Way
  <1>2. SocketsOwned'
    BY NoneAssumption DEF IInv, TypeOK, SocketsOwned, Serves, PeerReady, Run, networkVars,
       promiseVars, clientVars, serverVars, Idle, ServerPc, ClientPc, ClientEnd, ServerEnd
  <1>3. StopIsBarrier'
    BY NoneAssumption DEF IInv, TypeOK, SocketsOwned, Serves, StopIsBarrier, PeerReady, Run,
       networkVars, promiseVars, clientVars, serverVars, Idle, ServerPc
  <1>4. ASSUME NEW d \in Client, d # c PROVE Regular(d)' => Exchange(d)'
    <2>1. /\ View(d)' = View(d) /\ flight'[d] = flight[d]
          /\ area'[d] = area[d] /\ spoilt'[d] = spoilt[d]
      BY <1>4 DEF IInv, TypeOK, PeerReady, Run, networkVars, promiseVars, clientVars,
         serverVars, View
    <2>2. handler' = handler \/ (handler.client # d /\ handler'.client # d)
      BY <1>4, NoneAssumption DEF IInv, TypeOK, Handler, PeerReady, Run, networkVars,
         promiseVars, clientVars, serverVars, Idle
    <2>3. QED
      BY <2>1, <2>2, Untouched
  <1>5. ASSUME Regular(c)' PROVE Exchange(c)'
    <2>1. Regular(c) /\ InOnePlace(c) /\ OwnPromise(c) /\ ReadsWhole(c) /\ Owned(c)
      BY <1>5 DEF IInv, TypeOK, ExchangesAgree, Exchange, Regular, PeerReady, Run, networkVars,
         promiseVars, clientVars, serverVars
    <2>2. InOnePlace(c)'
      BY <2>1, NoneAssumption DEF IInv, TypeOK, ReadsWhole, OwnPromise, Carried, InOnePlace,
         InProgram, InConnector, AtOpening, ToServer, AtServer, ToClient, AtClient, Serves,
         PeerReady, Run, networkVars, promiseVars, clientVars, serverVars, Idle
    <2>3. OwnPromise(c)'
      BY <2>1, NoneAssumption DEF IInv, TypeOK, OwnPromise, Carried, Pending, InOnePlace,
         InProgram, InConnector, AtOpening, ToServer, AtServer, ToClient, AtClient, Serves,
         PeerReady, Run, networkVars, promiseVars, clientVars, serverVars, Idle
    <2>4. ReadsWhole(c)'
      BY <2>1, NoneAssumption DEF IInv, TypeOK, ReadsWhole, PeerReady, Run, networkVars,
         promiseVars, clientVars, serverVars, Idle
    <2>5. Owned(c)'
      BY <2>1 DEF IInv, TypeOK, Owned, PeerReady, Run, networkVars, promiseVars, clientVars,
         serverVars
    <2>6. QED
      BY <2>2, <2>3, <2>4, <2>5 DEF Exchange
  <1>6. QED
    BY <1>1, <1>2, <1>3, <1>4, <1>5 DEF IInv, ExchangesAgree

\* A peer that closes loses nothing that was not lost already, but may lose its answer.
LEMMA PeerEndsInv ==
    ASSUME IInv, NEW c \in Client, PeerEnds(c)
    PROVE  IInv'
  <1>a. /\ flight' \in [Client -> [Way -> Seq(Part)]]
        /\ area' \in [Client -> [Way -> Seq(Part)]]
        /\ spoilt' \in [Client -> [Way -> BOOLEAN]]
        /\ \A d \in Client : d # c =>
              flight'[d] = flight[d] /\ area'[d] = area[d] /\ spoilt'[d] = spoilt[d]
        /\ \A x \in Way : /\ flight'[c][x] \in {flight[c][x], <<>>}
                          /\ area'[c][x] \in {area[c][x], <<>>}
                          /\ spoilt'[c][x] \in {spoilt[c][x], FALSE}
    BY CloseServerFacts DEF IInv, TypeOK, PeerEnds, Way
  <1>b. /\ link' \in [Client -> Link]
        /\ \A d \in Client : d # c => link'[d] = link[d]
        /\ link[c] = "none" => link'[c] = "none"
        /\ link[c] \notin {"none", "asked"} => link'[c] \notin {"none", "asked"}
        /\ link[c] \in ClientEnd => link'[c] \in ClientEnd
        /\ link'[c] \notin ServerEnd
    <2>1. link' = [link EXCEPT ![c] = IF @ = "up" THEN "serverClosed" ELSE "closed"]
      BY CloseServerFacts DEF IInv, PeerEnds
    <2>2. QED
      BY <2>1 DEF IInv, TypeOK, PeerEnds, Link, ClientEnd, ServerEnd
  <1>1. TypeOK'
    <2>1. \A d \in Client :
             /\ opened'[d] => link'[d] \in ClientEnd /\ connector'[d] = "spent"
             /\ peer'[d] = "gone" => link'[d] \notin ServerEnd
      BY <1>b DEF IInv, TypeOK, PeerEnds, clientVars, serverVars
    <2>2. QED
      BY <1>a, <1>b, <2>1 DEF IInv, TypeOK, PeerEnds, networkVars, promiseVars, clientVars,
         serverVars
  <1>2. SocketsOwned'
    BY <1>b, NoneAssumption DEF IInv, TypeOK, SocketsOwned, Serves, PeerEnds, Idle, clientVars,
       serverVars, ServerPc,
       ClientPc, ServerEnd
  <1>3. StopIsBarrier'
    BY NoneAssumption DEF IInv, TypeOK, SocketsOwned, Serves, StopIsBarrier, PeerEnds,
       networkVars, promiseVars, clientVars, serverVars, Idle, ServerPc
  <1>4. ASSUME NEW d \in Client, d # c PROVE Regular(d)' => Exchange(d)'
    <2>1. /\ View(d)' = View(d) /\ flight'[d] = flight[d]
          /\ area'[d] = area[d] /\ spoilt'[d] = spoilt[d]
      BY <1>4, <1>a DEF PeerEnds, networkVars, promiseVars, clientVars, serverVars, View
    <2>2. handler' = handler \/ (handler.client # d /\ handler'.client # d)
      BY <1>4, NoneAssumption DEF IInv, TypeOK, Handler, PeerEnds, networkVars, promiseVars,
         clientVars, serverVars, Idle
    <2>3. QED
      BY <2>1, <2>2, Untouched
  <1>5. ASSUME Regular(c)' PROVE Exchange(c)'
    <2>1. View(c)' = View(c) /\ handler' = handler
      BY DEF PeerEnds, networkVars, promiseVars, clientVars, serverVars, View
    <2>2. QED
      BY <1>a, <1>5, <2>1, Untouched
  <1>6. QED
    BY <1>1, <1>2, <1>3, <1>4, <1>5 DEF IInv, ExchangesAgree

\* The peer takes the request over from the stream, whole.
LEMMA PeerReadsInv ==
    ASSUME IInv, NEW c \in Client, PeerReads(c)
    PROVE  IInv'
  <1>a. /\ flight' \in [Client -> [Way -> Seq(Part)]]
        /\ area' \in [Client -> [Way -> Seq(Part)]]
        /\ spoilt' = spoilt
        /\ First(c, "toServer") \in Part
        /\ \A d \in Client : d # c => flight'[d] = flight[d] /\ area'[d] = area[d]
        /\ flight'[c]["toClient"] = flight[c]["toClient"]
        /\ area'[c]["toClient"] = area[c]["toClient"]
        /\ area[c]["toServer"] = <<>> /\ Len(flight[c]["toServer"]) \in {0, Parts} =>
              /\ flight[c]["toServer"] # <<>>
              /\ First(c, "toServer") = flight[c]["toServer"][1]
              /\ flight'[c]["toServer"] = <<>> /\ area'[c]["toServer"] = <<>>
    <2>1. "toServer" \in Way /\ "toClient" \in Way /\ "toClient" # "toServer"
      BY DEF Way
    <2>2. ReadWhole(c, "toServer")
      BY DEF PeerReads
    <2>3. QED
      BY <2>1, <2>2, ReadFacts DEF IInv
  <1>b. /\ handler' \in Handler /\ handler'.pc = "respond" /\ handler'.client = c
        /\ handler'.of = First(c, "toServer").of /\ handler'.whole = handler.whole
        /\ handler'.answer = handler.answer
        /\ handler.client = c
    BY <1>a DEF IInv, TypeOK, PeerReads, Handler, Part, ServerPc, ClientPc
  <1>1. TypeOK'
    <2>1. \A d \in Client :
             /\ opened'[d] => link'[d] \in ClientEnd /\ connector'[d] = "spent"
             /\ peer'[d] = "gone" => link'[d] \notin ServerEnd
      BY DEF IInv, TypeOK, SocketsOwned, Serves, PeerReads, networkVars, promiseVars,
         clientVars, serverVars, ClientEnd, ServerEnd, ClientPc, ServerPc
    <2>2. QED
      BY <1>a, <1>b, <2>1 DEF IInv, TypeOK, PeerReads, networkVars, promiseVars, clientVars,
         serverVars
  <1>2. SocketsOwned'
    BY NoneAssumption DEF IInv, TypeOK, SocketsOwned, Serves, PeerReads, networkVars,
       promiseVars, clientVars, serverVars, Idle, ServerPc, ClientPc, ClientEnd, ServerEnd
  <1>3. StopIsBarrier'
    BY NoneAssumption DEF IInv, TypeOK, SocketsOwned, Serves, StopIsBarrier, PeerReads,
       networkVars, promiseVars, clientVars, serverVars, Idle, ServerPc
  <1>4. ASSUME NEW d \in Client, d # c PROVE Regular(d)' => Exchange(d)'
    <2>1. /\ View(d)' = View(d) /\ flight'[d] = flight[d]
          /\ area'[d] = area[d] /\ spoilt'[d] = spoilt[d]
      BY <1>4, <1>a DEF PeerReads, networkVars, promiseVars, clientVars, serverVars, View
    <2>2. handler' = handler \/ (handler.client # d /\ handler'.client # d)
      BY <1>4, NoneAssumption DEF IInv, TypeOK, Handler, PeerReads, networkVars, promiseVars,
         clientVars, serverVars, Idle
    <2>3. QED
      BY <2>1, <2>2, Untouched
  <1>5. ASSUME Regular(c)' PROVE Exchange(c)'
    <2>1. Regular(c) /\ InOnePlace(c) /\ OwnPromise(c) /\ ReadsWhole(c) /\ Owned(c)
      BY <1>5 DEF IInv, TypeOK, ExchangesAgree, Exchange, Regular, PeerReads, networkVars,
         promiseVars, clientVars, serverVars
    <2>a. /\ ToServer(c)
          /\ flight'[c]["toServer"] = <<>> /\ area'[c]["toServer"] = <<>>
          /\ First(c, "toServer").of = promise[c].of
      <3>1. promise[c].of \in Requests /\ "keep" \in Disposition /\ "toServer" \in Way
        BY DEF IInv, TypeOK, Disposition, Way
      <3>2. \/ flight[c]["toServer"] = <<>>
            \/ \E d \in Disposition : flight[c]["toServer"] = Message(promise[c].of, d)
        BY <2>1, <3>1 DEF OwnPromise, ToServer
      <3>3. area[c]["toServer"] = <<>>
        BY <2>1, <3>1 DEF ReadsWhole
      <3>4. /\ Len(flight[c]["toServer"]) \in {0, Parts}
            /\ flight[c]["toServer"] # <<>> => flight[c]["toServer"][1].of = promise[c].of
        BY <3>1, <3>2, MessageFacts
      <3>5. QED
        BY <1>a, <3>3, <3>4 DEF ToServer
    <2>2. InOnePlace(c)'
      <3>1. /\ ~ InProgram(c) /\ ~ InConnector(c) /\ ~ AtOpening(c) /\ ~ ToClient(c)
            /\ ~ AtServer(c) /\ ~ AtClient(c)
        BY <2>1, <2>a, <1>b DEF InOnePlace, AtOpening, AtServer, Serves, PeerReads
      <3>2. /\ ~ InProgram(c)' /\ ~ InConnector(c)' /\ ~ AtOpening(c)' /\ ~ ToClient(c)'
            /\ ~ ToServer(c)' /\ ~ AtClient(c)'
        BY <1>a, <1>b, <2>a, <3>1 DEF InProgram, InConnector, AtOpening, AtServer, AtClient,
           ToServer, ToClient, Serves, PeerReads, networkVars, promiseVars, clientVars, serverVars
      <3>3. QED
        BY <3>2 DEF InOnePlace
    <2>3. OwnPromise(c)'
      <3>1. /\ ~ InProgram(c) /\ ~ InConnector(c) /\ ~ AtOpening(c) /\ ~ ToClient(c)
            /\ ~ AtServer(c) /\ ~ AtClient(c)
        BY <2>1, <2>a, <1>b DEF InOnePlace, AtOpening, AtServer, Serves, PeerReads
      <3>2. /\ ~ InProgram(c)' /\ ~ InConnector(c)' /\ ~ AtOpening(c)' /\ ~ ToClient(c)'
            /\ ~ ToServer(c)' /\ ~ AtClient(c)'
        BY <1>a, <1>b, <2>a, <3>1 DEF InProgram, InConnector, AtOpening, AtServer, AtClient,
           ToServer, ToClient, Serves, PeerReads, networkVars, promiseVars, clientVars, serverVars
      <3>3. /\ Carried(c) /\ user' = user /\ saved' = saved /\ promise' = promise
            /\ future' = future
        BY <2>a DEF Carried, PeerReads, networkVars, promiseVars, clientVars, serverVars
      <3>4. AtServer(c)' => handler'.of = promise'[c].of
        BY <1>b, <2>a, <3>3
      <3>5. QED
        BY <2>1, <3>2, <3>3, <3>4 DEF OwnPromise, Pending
    <2>4. ReadsWhole(c)'
      <3>1. \A x \in Way : x \in {"toServer", "toClient"}
        BY DEF Way
      <3>2. ~ AtClient(c)
        BY <2>1, <2>a DEF InOnePlace
      <3>3. QED
        BY <1>a, <1>b, <2>1, <2>a, <3>1, <3>2 DEF ReadsWhole, AtClient
    <2>5. Owned(c)'
      BY <2>1 DEF IInv, TypeOK, Owned, PeerReads, networkVars, promiseVars, clientVars,
         serverVars
    <2>6. QED
      BY <2>2, <2>3, <2>4, <2>5 DEF Exchange
  <1>6. QED
    BY <1>1, <1>2, <1>3, <1>4, <1>5 DEF IInv, ExchangesAgree

\* A client whose peer gave up is not regular.
LEMMA PeerGivesUpInv ==
    ASSUME IInv, NEW c \in Client, PeerGivesUp(c)
    PROVE  IInv'
  <1>a. /\ flight' \in [Client -> [Way -> Seq(Part)]]
        /\ area' \in [Client -> [Way -> Seq(Part)]]
        /\ spoilt' \in [Client -> [Way -> BOOLEAN]]
        /\ \A d \in Client : d # c =>
              flight'[d] = flight[d] /\ area'[d] = area[d] /\ spoilt'[d] = spoilt[d]
    <2>1. "toServer" \in Way
      BY DEF Way
    <2>2. QED
      BY <2>1, GiveUpFacts DEF IInv, PeerGivesUp
  <1>b. /\ past' \in [Client -> SUBSET Mishap] /\ "slow" \in past'[c]
        /\ \A d \in Client : d # c => past'[d] = past[d]
    BY BefallsFacts DEF IInv, PeerGivesUp, Mishap
  <1>1. TypeOK'
    <2>1. handler' \in Handler
      BY DEF IInv, TypeOK, PeerGivesUp, Handler, ServerPc, ClientPc, Disposition
    <2>2. \A d \in Client :
             /\ opened'[d] => link'[d] \in ClientEnd /\ connector'[d] = "spent"
             /\ peer'[d] = "gone" => link'[d] \notin ServerEnd
      BY DEF IInv, TypeOK, SocketsOwned, Serves, PeerGivesUp, networkVars, promiseVars,
         clientVars, serverVars, ClientEnd, ServerEnd, ClientPc, ServerPc
    <2>3. QED
      BY <1>a, <1>b, <2>1, <2>2 DEF IInv, TypeOK, PeerGivesUp, networkVars, promiseVars,
         clientVars, serverVars
  <1>2. SocketsOwned'
    BY NoneAssumption DEF IInv, TypeOK, SocketsOwned, Serves, PeerGivesUp, Befalls,
       networkVars, promiseVars, clientVars, serverVars, Idle, ServerPc, ClientPc, ClientEnd,
       ServerEnd
  <1>3. StopIsBarrier'
    BY NoneAssumption DEF IInv, TypeOK, SocketsOwned, Serves, StopIsBarrier, PeerGivesUp,
       Befalls, networkVars, promiseVars, clientVars, serverVars, Idle, ServerPc
  <1>4. ASSUME NEW d \in Client, d # c PROVE Regular(d)' => Exchange(d)'
    <2>1. /\ View(d)' = View(d) /\ flight'[d] = flight[d]
          /\ area'[d] = area[d] /\ spoilt'[d] = spoilt[d]
      BY <1>4, <1>a, <1>b DEF PeerGivesUp, networkVars, promiseVars, clientVars, serverVars,
         View
    <2>2. handler' = handler \/ (handler.client # d /\ handler'.client # d)
      BY <1>4, NoneAssumption DEF IInv, TypeOK, Handler, PeerGivesUp, Befalls, networkVars,
         promiseVars, clientVars, serverVars, Idle
    <2>3. QED
      BY <2>1, <2>2, Untouched
  <1>5. ASSUME Regular(c)' PROVE Exchange(c)'
    BY <1>b, <1>5 DEF Regular
  <1>6. QED
    BY <1>1, <1>2, <1>3, <1>4, <1>5 DEF IInv, ExchangesAgree

\* The stream takes the answer over from the peer, or it is lost.
LEMMA RespondInv ==
    ASSUME IInv, NEW c \in Client, Respond(c)
    PROVE  IInv'
  <1> DEFINE msg(d) == Message(handler.of, d)
  <1>a. /\ handler.pc = "respond" /\ handler.client = c /\ handler' = Idle
        /\ handler' \in Handler /\ handler.of \in Requests
    BY StepFacts DEF IInv, TypeOK, Respond, Handler
  <1>b. link[c] \in ServerEnd /\ peer[c] = "open"
    BY <1>a DEF IInv, SocketsOwned, Serves, ServerPc
  <1>c. PICK d \in Disposition :
          /\ flight' \in [Client -> [Way -> Seq(Part)]]
          /\ \A e \in Client : e # c =>
                flight'[e] = flight[e] /\ area'[e] = area[e] /\ spoilt'[e] = spoilt[e]
          /\ flight'[c]["toServer"] \in {flight[c]["toServer"], <<>>}
          /\ flight[c]["toClient"] = <<>> => flight'[c]["toClient"] \in {msg(d), <<>>}
          /\ area' \in [Client -> [Way -> Seq(Part)]]
          /\ spoilt' \in [Client -> [Way -> BOOLEAN]]
          /\ \A x \in Way : /\ area'[c][x] \in {area[c][x], <<>>}
                            /\ spoilt'[c][x] \in {spoilt[c][x], FALSE}
          /\ \/ link' = link
             \/ link' = [link EXCEPT ![c] = IF @ = "up" THEN "serverClosed" ELSE "closed"]
    <2>1. "toClient" \in Way /\ "toServer" \in Way /\ "toClient" # "toServer"
      BY DEF Way
    <2>2. PICK d \in Disposition :
            IF d # "http10"
            THEN Send(c, "toClient", msg(d)) /\ UNCHANGED <<link, area, spoilt>>
            ELSE /\ link' = [link EXCEPT ![c] = IF @ = "up" THEN "serverClosed" ELSE "closed"]
                 /\ flight' = [flight EXCEPT ![c] =
                       [w \in Way |-> IF w = "toClient"
                                      THEN @[w] \o (IF link[c] = "up" THEN msg(d) ELSE <<>>)
                                      ELSE <<>>]]
                 /\ area' = [area EXCEPT ![c]["toServer"] = <<>>]
                 /\ spoilt' = [spoilt EXCEPT ![c]["toServer"] = FALSE]
      BY DEF Respond, Disposition
    <2> DEFINE m == msg(d)
               f == flight[c]["toClient"]
    <2>3. m \in Seq(Part) /\ f \in Seq(Part)
      BY <1>a, <2>1, MessageFacts DEF IInv, TypeOK
    <2>4. CASE d # "http10"
      <3>1. Send(c, "toClient", m) /\ UNCHANGED <<link, area, spoilt>>
        BY <2>2, <2>4
      <3> HIDE DEF m
      <3>2. /\ flight' \in [Client -> [Way -> Seq(Part)]]
            /\ flight'[c]["toServer"] = flight[c]["toServer"]
            /\ \A e \in Client : e # c => flight'[e] = flight[e]
            /\ flight[c]["toClient"] = <<>> => flight'[c]["toClient"] \in {m, <<>>}
        BY <2>1, <2>3, <3>1, SendFacts DEF IInv
      <3>3. QED
        BY <3>1, <3>2 DEF IInv, TypeOK, m
    <2>5. CASE d = "http10"
      <3> DEFINE s == IF link[c] = "up" THEN m ELSE <<>>
                 g == f \o s
      <3>1. s \in Seq(Part) /\ s \in {m, <<>>} /\ <<>> \in Seq(Part)
        BY <2>3
      <3>2. flight' = [flight EXCEPT ![c] =
                         [w \in Way |-> IF w = "toClient" THEN g ELSE <<>>]]
        BY <2>2, <2>5 DEF IInv, TypeOK
      <3>3. /\ link' = [link EXCEPT ![c] = IF @ = "up" THEN "serverClosed" ELSE "closed"]
            /\ area' = [area EXCEPT ![c]["toServer"] = <<>>]
            /\ spoilt' = [spoilt EXCEPT ![c]["toServer"] = FALSE]
        BY <2>2, <2>5
      <3> HIDE DEF m, s, f
      <3>4. g \in Seq(Part) /\ (f = <<>> => g = s)
        BY <2>3, <3>1, ConcatProperties, ConcatEmptySeq
      <3> HIDE DEF g
      <3>5. /\ flight' \in [Client -> [Way -> Seq(Part)]]
            /\ flight'[c]["toServer"] = <<>>
            /\ flight'[c]["toClient"] = g
            /\ \A e \in Client : e # c => flight'[e] = flight[e]
        BY <2>1, <3>1, <3>2, <3>4 DEF IInv, TypeOK
      <3>6. flight[c]["toClient"] = <<>> => flight'[c]["toClient"] \in {m, <<>>}
        BY <3>1, <3>4, <3>5 DEF f
      <3>7. /\ area' \in [Client -> [Way -> Seq(Part)]]
            /\ spoilt' \in [Client -> [Way -> BOOLEAN]]
            /\ \A x \in Way : /\ area'[c][x] \in {area[c][x], <<>>}
                              /\ spoilt'[c][x] \in {spoilt[c][x], FALSE}
            /\ \A e \in Client : e # c => area'[e] = area[e] /\ spoilt'[e] = spoilt[e]
        BY <2>1, <3>1, <3>3 DEF IInv, TypeOK
      <3>8. QED
        BY <3>3, <3>5, <3>6, <3>7 DEF m
    <2>6. QED
      BY <2>4, <2>5
  <1> HIDE DEF msg
  <1>d. /\ link' \in [Client -> Link]
        /\ \A e \in Client : e # c => link'[e] = link[e]
        /\ link'[c] \notin {"none", "asked"}
        /\ link[c] \in ClientEnd => link'[c] \in ClientEnd
    BY <1>b, <1>c DEF IInv, TypeOK, Link, ServerEnd, ClientEnd
  <1>e. /\ peer' = peer /\ server' = server /\ connector' = connector /\ opened' = opened
        /\ connected' = connected /\ user' = user /\ saved' = saved /\ promise' = promise
        /\ future' = future /\ past' = past
    BY DEF Respond, promiseVars, clientVars, serverVars
  <1>1. TypeOK'
    <2>1. \A e \in Client :
             /\ opened'[e] => link'[e] \in ClientEnd /\ connector'[e] = "spent"
             /\ peer'[e] = "gone" => link'[e] \notin ServerEnd
      BY <1>b, <1>d, <1>e DEF IInv, TypeOK
    <2>2. QED
      BY <1>a, <1>c, <1>d, <1>e, <2>1 DEF IInv, TypeOK
  <1>2. SocketsOwned'
    BY <1>a, <1>b, <1>d, <1>e, NoneAssumption DEF IInv, SocketsOwned, Serves, Idle, ServerPc,
       ClientPc, ServerEnd
  <1>3. StopIsBarrier'
    BY NoneAssumption DEF IInv, TypeOK, SocketsOwned, Serves, StopIsBarrier, Respond, Step,
       Send, networkVars, promiseVars, clientVars, serverVars, Idle, ServerPc
  <1>4. ASSUME NEW e \in Client, e # c PROVE Regular(e)' => Exchange(e)'
    <2>1. /\ View(e)' = View(e) /\ flight'[e] = flight[e]
          /\ area'[e] = area[e] /\ spoilt'[e] = spoilt[e]
      BY <1>4, <1>c, <1>e DEF View
    <2>2. handler' = handler \/ (handler.client # e /\ handler'.client # e)
      BY <1>4, NoneAssumption DEF IInv, TypeOK, Handler, Respond, Step, Send, networkVars,
         promiseVars, clientVars, serverVars, Idle
    <2>3. QED
      BY <2>1, <2>2, Untouched
  <1>5. ASSUME Regular(c)' PROVE Exchange(c)'
    <2>1. Regular(c) /\ InOnePlace(c) /\ OwnPromise(c) /\ ReadsWhole(c) /\ Owned(c)
      BY <1>5 DEF IInv, TypeOK, ExchangesAgree, Exchange, Regular, Respond, Step, Send,
         networkVars, promiseVars, clientVars, serverVars
    <2>a. /\ AtServer(c) /\ Carried(c) /\ handler.of = promise[c].of
          /\ flight[c]["toClient"] = <<>> /\ flight'[c]["toServer"] = <<>>
          /\ ToClient(c)' => flight'[c]["toClient"] = msg(d)
      BY <1>a, <1>c, <2>1 DEF AtServer, Serves, Carried, OwnPromise, InOnePlace, ToClient,
         ToServer
    <2>b. /\ ~ InProgram(c)' /\ ~ InConnector(c)' /\ ~ AtOpening(c)' /\ ~ ToServer(c)'
          /\ ~ AtServer(c)' /\ ~ AtClient(c)'
      BY <1>a, <1>e, <2>1, <2>a, NoneAssumption DEF InOnePlace, InProgram, InConnector,
         AtOpening, ToServer, AtServer, AtClient, Serves, Idle
    <2>2. InOnePlace(c)'
      BY <2>b DEF InOnePlace
    <2>3. OwnPromise(c)'
      BY <1>c, <1>e, <2>1, <2>a, <2>b DEF OwnPromise, Pending, msg
    <2>4. ReadsWhole(c)'
      BY <1>a, <1>c, <2>1, NoneAssumption DEF ReadsWhole, Idle
    <2>5. Owned(c)'
      BY <2>1 DEF IInv, TypeOK, Owned, Respond, Step, Send, networkVars, promiseVars,
         clientVars, serverVars
    <2>6. QED
      BY <2>2, <2>3, <2>4, <2>5 DEF Exchange
  <1>6. QED
    BY <1>1, <1>2, <1>3, <1>4, <1>5 DEF IInv, ExchangesAgree

\* A peer that is destroyed closes its end.
LEMMA ClearPeerInv ==
    ASSUME IInv, NEW c \in Client, ClearPeer(c)
    PROVE  IInv'
  <1>a. /\ flight' \in [Client -> [Way -> Seq(Part)]]
        /\ area' \in [Client -> [Way -> Seq(Part)]]
        /\ spoilt' \in [Client -> [Way -> BOOLEAN]]
        /\ \A d \in Client : d # c =>
              flight'[d] = flight[d] /\ area'[d] = area[d] /\ spoilt'[d] = spoilt[d]
        /\ \A x \in Way : /\ flight'[c][x] \in {flight[c][x], <<>>}
                          /\ area'[c][x] \in {area[c][x], <<>>}
                          /\ spoilt'[c][x] \in {spoilt[c][x], FALSE}
    BY CloseServerFacts DEF IInv, TypeOK, ClearPeer, networkVars, Way
  <1>b. /\ link' \in [Client -> Link]
        /\ \A d \in Client : d # c => link'[d] = link[d]
        /\ link[c] = "none" => link'[c] = "none"
        /\ link[c] \notin {"none", "asked"} => link'[c] \notin {"none", "asked"}
        /\ link[c] \in ClientEnd => link'[c] \in ClientEnd
        /\ link'[c] \notin ServerEnd
    <2>1. CASE link[c] \in ServerEnd
      <3>1. link' = [link EXCEPT ![c] = IF @ = "up" THEN "serverClosed" ELSE "closed"]
        BY <2>1, CloseServerFacts DEF IInv, ClearPeer
      <3>2. QED
        BY <2>1, <3>1 DEF IInv, TypeOK, Link, ClientEnd, ServerEnd
    <2>2. CASE link[c] \notin ServerEnd
      BY <2>2 DEF IInv, TypeOK, ClearPeer, networkVars
    <2>3. QED
      BY <2>1, <2>2
  <1>1. TypeOK'
    <2>1. peer' \in [Client -> {"none", "open", "gone"}]
      BY DEF IInv, TypeOK, ClearPeer
    <2>2. \A d \in Client :
             /\ opened'[d] => link'[d] \in ClientEnd /\ connector'[d] = "spent"
             /\ peer'[d] = "gone" => link'[d] \notin ServerEnd
      BY <1>b DEF IInv, TypeOK, ClearPeer, clientVars
    <2>3. QED
      BY <1>a, <1>b, <2>1, <2>2 DEF IInv, TypeOK, ClearPeer, networkVars, promiseVars,
         clientVars, serverVars
  <1>2. SocketsOwned'
    BY <1>b, NoneAssumption DEF IInv, TypeOK, SocketsOwned, Serves, ClearPeer, Idle,
       clientVars, serverVars, ServerPc,
       ClientPc, ServerEnd
  <1>3. StopIsBarrier'
    BY NoneAssumption DEF IInv, TypeOK, SocketsOwned, Serves, StopIsBarrier, ClearPeer,
       networkVars, promiseVars, clientVars, serverVars, Idle, ServerPc
  <1>4. ASSUME NEW d \in Client, d # c PROVE Regular(d)' => Exchange(d)'
    <2>1. /\ View(d)' = View(d) /\ flight'[d] = flight[d]
          /\ area'[d] = area[d] /\ spoilt'[d] = spoilt[d]
      BY <1>4, <1>a DEF ClearPeer, networkVars, promiseVars, clientVars, serverVars, View
    <2>2. handler' = handler \/ (handler.client # d /\ handler'.client # d)
      BY <1>4, NoneAssumption DEF IInv, TypeOK, Handler, ClearPeer, networkVars, promiseVars,
         clientVars, serverVars, Idle
    <2>3. QED
      BY <2>1, <2>2, Untouched
  <1>5. ASSUME Regular(c)' PROVE Exchange(c)'
    <2>1. View(c)' = View(c) /\ handler' = handler
      BY DEF ClearPeer, networkVars, promiseVars, clientVars, serverVars, View
    <2>2. QED
      BY <1>a, <1>5, <2>1, Untouched
  <1>6. QED
    BY <1>1, <1>2, <1>3, <1>4, <1>5 DEF IInv, ExchangesAgree

\* stop() first makes the acceptor accept nothing new.
LEMMA StopBeginsInv ==
    ASSUME IInv, StopBegins
    PROVE  IInv'
  <1>1. TypeOK'
    BY NoneAssumption DEF IInv, TypeOK, StopBegins, networkVars, promiseVars, clientVars,
       serverVars, Connector, Link, User, Server, ServerPc, ClientPc, Handler, Mishap, Idle,
       Requests, Future, Way
  <1>2. SocketsOwned'
    BY NoneAssumption DEF IInv, TypeOK, SocketsOwned, Serves, StopBegins, networkVars,
       promiseVars, clientVars, serverVars, Idle, ServerPc, ClientPc, ClientEnd, ServerEnd
  <1>3. StopIsBarrier'
    BY NoneAssumption DEF IInv, TypeOK, SocketsOwned, Serves, StopIsBarrier, StopBegins,
       networkVars, promiseVars, clientVars, serverVars, Idle, ServerPc
  <1>4. ASSUME NEW d \in Client PROVE Regular(d)' => Exchange(d)'
    <2>1. View(d)' = View(d) /\ handler' = handler
      BY DEF IInv, TypeOK, StopBegins, networkVars, promiseVars, clientVars, serverVars, View
    <2>2. QED
      BY <2>1, Untouched DEF StopBegins, networkVars
  <1>5. QED
    BY <1>1, <1>2, <1>3, <1>4 DEF IInv, ExchangesAgree

\* The acceptor is closed when no handler runs: who was not accepted is disconnected.
LEMMA StopDetachesInv ==
    ASSUME IInv, StopDetaches
    PROVE  IInv'
  <1>a. /\ flight' \in [Client -> [Way -> Seq(Part)]]
        /\ \A d \in Client, x \in Way : flight'[d][x] \in {flight[d][x], <<>>}
    BY DEF IInv, TypeOK, StopDetaches
  <1>b. \A d \in Client :
           /\ link'[d] \in Link
           /\ link[d] = "none" => link'[d] = "none"
           /\ link[d] \notin {"none", "asked"} => link'[d] \notin {"none", "asked"}
           /\ link[d] \in ClientEnd => link'[d] \in ClientEnd
           /\ link'[d] \in ServerEnd => link[d] \in ServerEnd
    BY DEF IInv, TypeOK, StopDetaches, Link, ClientEnd, ServerEnd
  <1>1. TypeOK'
    <2>1. link' \in [Client -> Link]
      BY <1>b DEF StopDetaches
    <2>2. server' \in Server
      BY DEF IInv, TypeOK, StopDetaches, Server
    <2>3. \A d \in Client :
             /\ opened'[d] => link'[d] \in ClientEnd /\ connector'[d] = "spent"
             /\ peer'[d] = "gone" => link'[d] \notin ServerEnd
      BY <1>b DEF IInv, TypeOK, StopDetaches, clientVars
    <2>4. QED
      BY <1>a, <1>b, <2>1, <2>2, <2>3 DEF IInv, TypeOK, StopDetaches, networkVars, promiseVars,
         clientVars, serverVars
  <1>2. SocketsOwned'
    BY NoneAssumption DEF IInv, TypeOK, SocketsOwned, Serves, StopDetaches, networkVars,
       promiseVars, clientVars, serverVars, Idle, ServerPc, ClientPc, ClientEnd, ServerEnd
  <1>3. StopIsBarrier'
    BY NoneAssumption DEF IInv, TypeOK, SocketsOwned, Serves, StopIsBarrier, StopDetaches,
       networkVars, promiseVars, clientVars, serverVars, Idle, ServerPc
  <1>4. ASSUME NEW d \in Client PROVE Regular(d)' => Exchange(d)'
    <2>1. View(d)' = View(d) /\ handler' = handler
      BY DEF IInv, TypeOK, StopDetaches, networkVars, promiseVars, clientVars, serverVars, View
    <2>2. QED
      BY <1>a, <2>1, Untouched DEF StopDetaches
  <1>5. QED
    BY <1>1, <1>2, <1>3, <1>4 DEF IInv, ExchangesAgree

\* stop() returns when no peer is left.
LEMMA StopEndsInv ==
    ASSUME IInv, StopEnds
    PROVE  IInv'
  <1>1. TypeOK'
    BY NoneAssumption DEF IInv, TypeOK, StopEnds, networkVars, promiseVars, clientVars,
       serverVars, Connector, Link, User, Server, ServerPc, ClientPc, Handler, Mishap, Idle,
       Requests, Future, Way
  <1>2. SocketsOwned'
    BY NoneAssumption DEF IInv, TypeOK, SocketsOwned, Serves, StopEnds, networkVars,
       promiseVars, clientVars, serverVars, Idle, ServerPc, ClientPc, ClientEnd, ServerEnd
  <1>3. StopIsBarrier'
    BY NoneAssumption DEF IInv, TypeOK, SocketsOwned, Serves, StopIsBarrier, StopEnds,
       networkVars, promiseVars, clientVars, serverVars, Idle, ServerPc
  <1>4. ASSUME NEW d \in Client PROVE Regular(d)' => Exchange(d)'
    <2>1. View(d)' = View(d) /\ handler' = handler
      BY DEF IInv, TypeOK, StopEnds, networkVars, promiseVars, clientVars, serverVars, View
    <2>2. QED
      BY <2>1, Untouched DEF StopEnds, networkVars
  <1>5. QED
    BY <1>1, <1>2, <1>3, <1>4 DEF IInv, ExchangesAgree
\* No client has requested anything and nobody carries a request.
LEMMA InitInv == Init => IInv
  <1> SUFFICES ASSUME Init PROVE IInv
    OBVIOUS
  <1>1. TypeOK
    <2>1. <<>> \in Seq(Part) /\ <<>> \in Seq(Future) /\ 0 \in Requests
      BY DEF Requests
    <2>2. Idle \in Handler
      BY <2>1 DEF Idle, Handler, Disposition
    <2>3. QED
      BY <2>1, <2>2 DEF Init, TypeOK, Connector, Link, User, Server
  <1>2. SocketsOwned
    BY NoneAssumption DEF Init, SocketsOwned, Serves, Idle
  <1>3. StopIsBarrier
    BY DEF Init, StopIsBarrier
  <1>4. ASSUME NEW c \in Client PROVE Exchange(c)
    <2>1. ~ Carried(c)
      BY NoneAssumption DEF Init, Carried, InProgram, InConnector, AtOpening, ToServer,
         AtServer,
         ToClient, AtClient, Serves, Idle, Way
    <2>2. InOnePlace(c) /\ OwnPromise(c)
      BY <2>1 DEF InOnePlace, OwnPromise, Carried, Init
    <2>3. ReadsWhole(c) /\ Owned(c)
      BY NoneAssumption DEF Init, ReadsWhole, Owned, Idle
    <2>4. QED
      BY <2>2, <2>3 DEF Exchange
  <1>5. QED
    BY <1>1, <1>2, <1>3, <1>4 DEF IInv, ExchangesAgree

\* Every step of a program, of a handler, of a connection and of stop() keeps the invariant.
LEMMA NextInv == IInv /\ [Next]_vars => IInv'
  <1> SUFFICES ASSUME IInv, [Next]_vars PROVE IInv'
    OBVIOUS
  <1>1. ASSUME NEW c \in Client, ProgramNext(c) PROVE IInv'
    BY <1>1, SaveRequestInv, NewPromiseInv, TestConnectedInv, ConnectInv, ConnectAgainInv,
       SendRequestInv, DestroyClientInv DEF ProgramNext
  <1>2. ASSUME NEW c \in Client, ClientNext(c) PROVE IInv'
    BY <1>2, ConnectRefusedInv, ConnectReadyInv, OnConnectedInv, OpenInv, SendSavedInv,
       ClientReadyInv, ClientReadsInv, ClientGivesUpInv, DisposeInv, ClientClosesInv,
       OnDisconnectedInv, SetValueInv DEF ClientNext
  <1>3. ASSUME NEW c \in Client, PeerNext(c) PROVE IInv'
    BY <1>3, AcceptReadyInv, OnAcceptedInv, PeerReadyInv, PeerEndsInv, PeerReadsInv,
       PeerGivesUpInv, RespondInv DEF PeerNext
  <1>4. CASE Stopping
    BY <1>4, StopBeginsInv, StopDetachesInv, StopEndsInv, ClearPeerInv DEF Stopping
  <1>5. CASE UNCHANGED vars
    <2>1. TypeOK' /\ SocketsOwned' /\ StopIsBarrier'
      BY <1>5 DEF IInv, TypeOK, SocketsOwned, StopIsBarrier, Serves, vars, networkVars,
         promiseVars, clientVars, serverVars
    <2>2. ASSUME NEW c \in Client PROVE Regular(c)' => Exchange(c)'
      <3>1. /\ View(c)' = View(c) /\ handler' = handler
            /\ flight' = flight /\ area' = area /\ spoilt' = spoilt
        BY <1>5 DEF View, vars, networkVars, promiseVars, clientVars
      <3>2. QED
        BY <3>1, Untouched
    <2>3. QED
      BY <2>1, <2>2 DEF IInv, ExchangesAgree
  <1>6. QED
    BY <1>1, <1>2, <1>3, <1>4, <1>5, HandshakeInv DEF Next

-----------------------------------------------------------------------------
(* Theorems *)

\* IInv holds whatever clients request and handlers run, and whenever stop() is called.
THEOREM Invariance == Spec => []IInv
  BY InitInv, NextInv, PTL DEF Spec

\* Every variable keeps its type, a client's communicator is only open on a socket that
\* its connector gave it and nobody has closed, and a peer that is gone has closed its own.
THEOREM TypeCorrect == Spec => []TypeOK
  BY Invariance, PTL DEF IInv

\* client::impl: the futures of a client that awaits each response get the responses to
\* their own requests, whole, and set_value() never finds its promise set.
THEOREM OwnAnswers == Spec => []OwnAnswer
  <1>1. IInv => OwnAnswer
    BY DEF IInv, ExchangesAgree, Exchange, Regular, Owned, OwnAnswer
  <1>2. QED
    BY <1>1, Invariance, PTL

\* When server::stop() has returned, no peer is left and no handler of the server runs,
\* although handlers may run and clients may connect while it is at it.
THEOREM StopIsABarrier == Spec => []StopIsBarrier
  BY Invariance, PTL DEF IInv

\* The request of a regular client, or the response to it, is at one place at a time: in
\* request(), in the connector, in a handler, on its way, or with the peer.
THEOREM RequestInOnePlace == Spec => [](\A c \in Client : Regular(c) => InOnePlace(c))
  <1>1. IInv => \A c \in Client : Regular(c) => InOnePlace(c)
    BY DEF IInv, ExchangesAgree, Exchange
  <1>2. QED
    BY <1>1, Invariance, PTL

-----------------------------------------------------------------------------
(* No request is forgotten: what Answered rests on.  IInv says that a      *)
(* request is at one place at most; here it is at one place at least.      *)

\* A future that waits is the one of the client's promise, which is not set: requests
\* may overlap, and connections end.
PromiseOf(c) ==
    /\ user[c] = "promise" => saved[c] = Len(future[c]) + 1
    /\ \A r \in DOMAIN future[c] : Pending(c, r) => promise[c].of = r /\ ~ promise[c].set

PromisesAgree == \A c \in Client : PromiseOf(c)

\* A request waits for its response, and nothing has befallen its client.
Awaited(c) == past[c] = {} /\ \E r \in Request : Pending(c, r)

\* The connection has ended, and the client is about to notice, or has noticed.
Ending(c) == (opened[c] /\ link[c] = "serverClosed") \/ Serves(c, {"disconnected"})

\* What was sent belongs to a communicator that is open.
Exchanged(c) == opened[c] /\ (ToServer(c) \/ AtServer(c) \/ ToClient(c))

\* A handler of the client has read the response.
Answering(c) == AtClient(c) /\ handler.pc \in ClientPc

Kept(c) ==
    /\ Serves(c, {"sendSaved"}) => opened[c]
    /\ Awaited(c) => \/ InProgram(c) \/ InConnector(c) \/ AtOpening(c) \/ Answering(c)
                     \/ Exchanged(c) \/ Ending(c)

RequestsKept == \A c \in Client : Kept(c)

KeptInv == IInv /\ PromisesAgree /\ RequestsKept

\* A step that leaves a client's promise, its futures and its saved request alone.
LEMMA PromiseUntouched ==
    ASSUME NEW c \in Client, PromiseOf(c), user'[c] = "promise" => user[c] = "promise",
           saved'[c] = saved[c], future'[c] = future[c], promise'[c] = promise[c]
    PROVE  PromiseOf(c)'
  BY DEF PromiseOf, Pending

\* request() saves the request while its program has it alone.
LEMMA SaveRequestPromise ==
    ASSUME TypeOK, PromisesAgree, NEW c \in Client, SaveRequest(c)
    PROVE  PromisesAgree'
  <1>1. /\ promise' = promise /\ future' = future
        /\ saved'[c] = Len(future[c]) + 1
        /\ \A d \in Client : d # c => saved'[d] = saved[d] /\ user'[d] = user[d]
    BY DEF TypeOK, SaveRequest, Goto
  <1>2. SUFFICES ASSUME NEW d \in Client PROVE PromiseOf(d)'
    BY DEF PromisesAgree
  <1>3. CASE d = c
    BY <1>1, <1>3 DEF PromisesAgree, PromiseOf, Pending
  <1>4. CASE d # c
    BY <1>1, <1>4, PromiseUntouched DEF PromisesAgree
  <1>5. QED
    BY <1>3, <1>4

\* The promise that is replaced breaks the only future that may be waiting.
LEMMA NewPromisePromise ==
    ASSUME TypeOK, PromisesAgree, NEW c \in Client, NewPromise(c)
    PROVE  PromisesAgree'
  <1> DEFINE b == Break(c)
  <1>1. /\ b \in Seq(Future) /\ Len(b) = Len(future[c]) /\ "pending" \in Future
        /\ Len(future[c]) \in Nat /\ DOMAIN b = 1 .. Len(b)
    BY BreakFacts DEF TypeOK, Future
  <1>2. \A r \in DOMAIN b : b[r] # "pending"
    <2>1. SUFFICES ASSUME NEW r \in DOMAIN b, b[r] = "pending" PROVE FALSE
      OBVIOUS
    <2>2. r \in DOMAIN future[c] /\ future[c][r] = "pending"
          /\ ~ (r = promise[c].of /\ ~ promise[c].set)
      BY <2>1 DEF Break, b
    <2>3. Pending(c, r)
      BY <2>2 DEF Pending
    <2>4. QED
      BY <2>2, <2>3 DEF PromisesAgree, PromiseOf
  <1> HIDE DEF b
  <1>3. /\ Append(b, "pending") \in Seq(Future)
        /\ Len(Append(b, "pending")) = Len(b) + 1
        /\ DOMAIN Append(b, "pending") = 1 .. (Len(b) + 1)
        /\ \A r \in 1 .. Len(b) : Append(b, "pending")[r] = b[r]
    BY <1>1, AppendProperties
  <1>4. /\ future'[c] = Append(b, "pending") /\ user'[c] = "test"
        /\ promise'[c] = [of |-> saved[c], set |-> FALSE]
        /\ saved[c] = Len(future[c]) + 1 /\ saved' = saved
        /\ \A d \in Client : d # c => /\ promise'[d] = promise[d] /\ user'[d] = user[d]
                                      /\ future'[d] = future[d]
    BY DEF TypeOK, PromisesAgree, PromiseOf, NewPromise, Goto, b
  <1>5. \A r \in DOMAIN future'[c] : Pending(c, r)' => r = saved[c]
    BY <1>1, <1>2, <1>3, <1>4 DEF Pending
  <1>6. SUFFICES ASSUME NEW d \in Client PROVE PromiseOf(d)'
    BY DEF PromisesAgree
  <1>7. CASE d = c
    BY <1>4, <1>5, <1>7 DEF PromiseOf
  <1>8. CASE d # c
    BY <1>4, <1>8, PromiseUntouched DEF PromisesAgree
  <1>9. QED
    BY <1>7, <1>8

\* A client that is destroyed leaves no future waiting.
LEMMA DestroyClientPromise ==
    ASSUME TypeOK, PromisesAgree, NEW c \in Client, DestroyClient(c)
    PROVE  PromisesAgree' /\ \A r : ~ Pending(c, r)'
  <1>1. /\ future' = [future EXCEPT ![c] = Break(c)] /\ user'[c] = "gone"
        /\ promise' = promise /\ saved' = saved
        /\ \A d \in Client : d # c => user'[d] = user[d] /\ future'[d] = future[d]
        /\ future'[c] = Break(c)
    BY DEF TypeOK, DestroyClient, Goto
  <1>2. \A r : ~ Pending(c, r)'
    <2>1. SUFFICES ASSUME NEW r, Pending(c, r)' PROVE FALSE
      OBVIOUS
    <2>2. r \in DOMAIN Break(c) /\ Break(c)[r] = "pending"
      BY <1>1, <2>1 DEF Pending
    <2>3. r \in DOMAIN future[c] /\ future[c][r] = "pending"
          /\ ~ (r = promise[c].of /\ ~ promise[c].set)
      BY <2>2 DEF Break
    <2>4. QED
      BY <2>3 DEF PromisesAgree, PromiseOf, Pending
  <1>3. SUFFICES ASSUME NEW d \in Client PROVE PromiseOf(d)'
    BY <1>2 DEF PromisesAgree
  <1>4. CASE d = c
    BY <1>1, <1>2, <1>4 DEF PromiseOf
  <1>5. CASE d # c
    BY <1>1, <1>5, PromiseUntouched DEF PromisesAgree
  <1>6. QED
    BY <1>4, <1>5

\* The promise that is set completes the only future that may be waiting.
LEMMA SetValuePromise ==
    ASSUME TypeOK, PromisesAgree, NEW c \in Client, SetValue(c)
    PROVE  PromisesAgree' /\ \A r : Pending(c, r)' => past'[c] # {}
  <1>1. user' = user /\ saved' = saved
    BY DEF SetValue, clientVars
  <1>2. CASE promise[c].set
    <2>1. promise' = promise /\ future' = future /\ Befalls(c, "thrown")
      BY <1>2 DEF SetValue
    <2>2. past'[c] # {}
      BY <2>1, BefallsFacts DEF Mishap
    <2>3. QED
      BY <1>1, <2>1, <2>2, PromiseUntouched DEF PromisesAgree
  <1>3. CASE ~ promise[c].set
    <2>1. /\ promise' = [promise EXCEPT ![c].set = TRUE]
          /\ future' = [future EXCEPT ![c][promise[c].of] = Answer(c)]
      BY <1>3 DEF SetValue
    <2>2. /\ \A d \in Client : d # c => promise'[d] = promise[d] /\ future'[d] = future[d]
          /\ future'[c] = [future[c] EXCEPT ![promise[c].of] = Answer(c)]
      BY <2>1 DEF TypeOK
    <2>3. Answer(c) # "pending"
      BY DEF Answer
    <2>4. \A r : ~ Pending(c, r)'
      <3>1. SUFFICES ASSUME NEW r, Pending(c, r)' PROVE FALSE
        OBVIOUS
      <3>2. r \in DOMAIN future[c] /\ future'[c][r] = "pending"
        BY <2>2, <3>1 DEF Pending
      <3>3. r # promise[c].of /\ future[c][r] = "pending"
        BY <2>2, <2>3, <3>2
      <3>4. QED
        BY <3>2, <3>3 DEF PromisesAgree, PromiseOf, Pending
    <2>5. SUFFICES ASSUME NEW d \in Client PROVE PromiseOf(d)'
      BY <2>4 DEF PromisesAgree
    <2>6. CASE d = c
      <3>1. user[c] = "promise" => saved[c] = Len(future[c]) + 1
        BY DEF PromisesAgree, PromiseOf
      <3>2. Len(future'[c]) = Len(future[c])
        <4>1. future[c] \in Seq(Future) /\ Answer(c) \in Future
          BY DEF TypeOK, Answer, Future
        <4>2. QED
          BY <2>2, <4>1
      <3>3. QED
        BY <1>1, <2>4, <2>6, <3>1, <3>2 DEF PromiseOf
    <2>7. CASE d # c
      BY <1>1, <2>2, <2>7, PromiseUntouched DEF PromisesAgree
    <2>8. QED
      BY <2>6, <2>7
  <1>4. QED
    BY <1>2, <1>3

\* Nobody else touches them.
LEMMA PromisesKept ==
    ASSUME IInv, PromisesAgree, [Next]_vars
    PROVE  PromisesAgree'
  <1>0. TypeOK
    BY DEF IInv
  <1>1. ASSUME UNCHANGED promiseVars,
               \A d \in Client : user'[d] = "promise" => user[d] = "promise"
        PROVE  PromisesAgree'
    BY <1>1, PromiseUntouched DEF PromisesAgree, promiseVars
  <1>2. ASSUME NEW c \in Client, ProgramNext(c) PROVE PromisesAgree'
    <2>1. CASE TestConnected(c) \/ Connect(c) \/ ConnectAgain(c) \/ SendRequest(c)
      <3>1. UNCHANGED promiseVars
        BY <2>1 DEF TestConnected, Connect, ConnectAgain, SendRequest
      <3>2. \E l \in {"send", "connect", "idle", "gone"} : Goto(c, l)
        BY <2>1 DEF TestConnected, Connect, ConnectAgain, SendRequest
      <3>3. \A d \in Client : user'[d] = "promise" => user[d] = "promise"
        BY <1>0, <3>2 DEF Goto, TypeOK
      <3>4. QED
        BY <1>1, <3>1, <3>3
    <2>2. QED
      BY <1>0, <1>2, <2>1, SaveRequestPromise, NewPromisePromise, DestroyClientPromise
         DEF ProgramNext
  <1>3. ASSUME NEW c \in Client, Handshake(c) \/ ClientNext(c) \/ PeerNext(c)
        PROVE  PromisesAgree'
    <2>1. CASE SetValue(c)
      BY <1>0, <2>1, SetValuePromise
    <2>2. CASE ~ SetValue(c)
      <3>1. UNCHANGED promiseVars /\ user' = user
        <4>1. CASE Handshake(c)
          BY <4>1 DEF Handshake, clientVars
        <4>2. CASE ClientNext(c)
          BY <2>2, <4>2 DEF ClientNext, ConnectRefused, ConnectReady, OnConnected, Open,
             SendSaved, ClientReady, ClientReads, ClientGivesUp, Dispose, ClientCloses,
             OnDisconnected, clientVars
        <4>3. CASE PeerNext(c)
          BY <4>3 DEF PeerNext, AcceptReady, OnAccepted, PeerReady, PeerEnds, PeerReads,
             PeerGivesUp, Respond, clientVars
        <4>4. QED
          BY <1>3, <4>1, <4>2, <4>3
      <3>2. QED
        BY <1>1, <3>1
    <2>3. QED
      BY <2>1, <2>2
  <1>4. CASE Stopping \/ UNCHANGED vars
    <2>1. UNCHANGED promiseVars /\ user' = user
      BY <1>4 DEF Stopping, StopBegins, StopDetaches, StopEnds, ClearPeer, vars, clientVars
    <2>2. QED
      BY <1>1, <2>1
  <1>5. QED
    BY <1>2, <1>3, <1>4 DEF Next

\* A step for one client leaves the others' exchanges alone.
Touches(c) ==
    ProgramNext(c) \/ Handshake(c) \/ ClientNext(c) \/ PeerNext(c) \/ ClearPeer(c)

Frame(d) == <<View(d), opened[d], flight[d], link[d]>>

LEMMA OthersUntouched ==
    ASSUME TypeOK, NEW c \in Client, Touches(c), NEW d \in Client, d # c
    PROVE  Frame(d)' = Frame(d)
  <1>1. ASSUME NEW w \in Way, NEW msg, Send(c, w, msg) PROVE flight'[d] = flight[d]
    BY <1>1 DEF TypeOK, Send
  <1>2. ASSUME CloseClient(c) PROVE flight'[d] = flight[d] /\ link'[d] = link[d]
    <2>1. /\ link' = [link EXCEPT ![c] = IF @ = "up" THEN "clientClosed" ELSE "closed"]
          /\ flight'[d] = flight[d]
      BY <1>2, CloseClientFacts
    <2>2. QED
      BY <2>1 DEF TypeOK
  <1>3. ASSUME CloseServer(c) PROVE flight'[d] = flight[d] /\ link'[d] = link[d]
    <2>1. /\ link' = [link EXCEPT ![c] = IF @ = "up" THEN "serverClosed" ELSE "closed"]
          /\ flight'[d] = flight[d]
      BY <1>3, CloseServerFacts
    <2>2. QED
      BY <2>1 DEF TypeOK
  <1>4. ASSUME NEW w \in Way, ReadWhole(c, w) \/ GiveUp(c, w) PROVE flight'[d] = flight[d]
    BY <1>4 DEF TypeOK, ReadWhole, GiveUp, Arrives
  <1>5. ASSUME NEW m, Befalls(c, m) PROVE past'[d] = past[d]
    BY <1>5 DEF TypeOK, Befalls
  <1>6. "toServer" \in Way /\ "toClient" \in Way
    BY DEF Way
  <1>7. CASE ProgramNext(c)
    <2>1. CASE SaveRequest(c) \/ NewPromise(c) \/ TestConnected(c) \/ Connect(c) \/ ConnectAgain(c)
      BY <1>5, <2>1 DEF TypeOK, Frame, View, SaveRequest, NewPromise, TestConnected, Connect,
         ConnectAgain, Goto, networkVars, promiseVars
    <2>2. CASE SendRequest(c)
      <3>1. flight'[d] = flight[d] /\ past'[d] = past[d]
        BY <1>1, <1>5, <1>6, <2>2 DEF SendRequest
      <3>2. QED
        BY <2>2, <3>1 DEF TypeOK, Frame, View, SendRequest, Goto, promiseVars
    <2>3. CASE DestroyClient(c)
      <3>1. flight'[d] = flight[d] /\ link'[d] = link[d]
        BY <1>2, <2>3 DEF TypeOK, DestroyClient
      <3>2. QED
        BY <2>3, <3>1 DEF TypeOK, Frame, View, DestroyClient, Goto
    <2>4. QED
      BY <1>7, <2>1, <2>2, <2>3 DEF ProgramNext
  <1>8. CASE Handshake(c)
    BY <1>8 DEF TypeOK, Frame, View, Handshake, promiseVars, clientVars
  <1>9. CASE ClientNext(c)
    <2>1. CASE ConnectRefused(c) \/ ConnectReady(c) \/ OnConnected(c) \/ Open(c)
               \/ ClientReady(c) \/ Dispose(c) \/ OnDisconnected(c)
      BY <1>5, <2>1 DEF TypeOK, Frame, View, ConnectRefused, ConnectReady, OnConnected, Open,
         ClientReady, Dispose, OnDisconnected, networkVars, promiseVars, clientVars
    <2>2. CASE SendSaved(c)
      BY <1>1, <1>6, <2>2 DEF Frame, View, SendSaved, promiseVars, clientVars
    <2>3. CASE ClientReads(c) \/ ClientGivesUp(c)
      BY <1>4, <1>5, <1>6, <2>3 DEF Frame, View, ClientReads, ClientGivesUp, promiseVars,
         clientVars
    <2>4. CASE ClientCloses(c)
      BY <1>2, <2>4 DEF TypeOK, Frame, View, ClientCloses, promiseVars
    <2>5. CASE SetValue(c)
      BY <1>5, <2>5 DEF TypeOK, Frame, View, SetValue, networkVars, clientVars
    <2>6. QED
      BY <1>9, <2>1, <2>2, <2>3, <2>4, <2>5 DEF ClientNext
  <1>10. CASE PeerNext(c)
    <2>1. CASE AcceptReady(c) \/ OnAccepted(c) \/ PeerReady(c)
      BY <2>1 DEF Frame, View, AcceptReady, OnAccepted, PeerReady, networkVars, promiseVars,
         clientVars
    <2>2. CASE PeerEnds(c)
      BY <1>3, <2>2 DEF Frame, View, PeerEnds, promiseVars, clientVars
    <2>3. CASE PeerReads(c) \/ PeerGivesUp(c)
      BY <1>4, <1>5, <1>6, <2>3 DEF Frame, View, PeerReads, PeerGivesUp, promiseVars, clientVars
    <2>4. CASE Respond(c)
      <3>1. flight'[d] = flight[d] /\ link'[d] = link[d]
        <4>1. ASSUME NEW msg, Send(c, "toClient", msg), UNCHANGED link
              PROVE  flight'[d] = flight[d] /\ link'[d] = link[d]
          BY <1>1, <1>6, <4>1
        <4>2. ASSUME NEW l, NEW f, link' = [link EXCEPT ![c] = l],
                     flight' = [flight EXCEPT ![c] = f]
              PROVE  flight'[d] = flight[d] /\ link'[d] = link[d]
          BY <4>2 DEF TypeOK
        <4>3. QED
          BY <2>4, <4>1, <4>2 DEF Respond
      <3>2. QED
        BY <2>4, <3>1 DEF Frame, View, Respond, promiseVars, clientVars
    <2>5. QED
      BY <1>10, <2>1, <2>2, <2>3, <2>4 DEF PeerNext
  <1>11. CASE ClearPeer(c)
    BY <1>3, <1>11 DEF Frame, View, ClearPeer, networkVars, promiseVars, clientVars
  <1>12. QED
    BY <1>7, <1>8, <1>9, <1>10, <1>11 DEF Touches

\* The handlers that have read, or given up, go on for their client.
LEMMA ReaderFacts ==
    ASSUME TypeOK, NEW c \in Client
    PROVE  /\ ClientReads(c) \/ ClientGivesUp(c) =>
                 /\ handler.client = c
                 /\ handler'.client = c /\ handler'.pc = "dispose" /\ handler'.answer
           /\ PeerReads(c) \/ PeerGivesUp(c) =>
                 handler.client = c /\ handler'.client = c /\ handler'.pc = "respond"
  <1>1. handler \in Handler
    BY DEF TypeOK
  <1>2. ASSUME ClientReads(c)
        PROVE  /\ handler.client = c
               /\ handler'.client = c /\ handler'.pc = "dispose" /\ handler'.answer
    <2> DEFINE p == First(c, "toClient")
    <2>1. /\ handler.client = c
          /\ handler' = [handler EXCEPT !.pc = "dispose", !.of = p.of, !.disp = p.disp,
                                        !.answer = TRUE]
      BY <1>2 DEF ClientReads
    <2> HIDE DEF p
    <2>2. QED
      BY <1>1, <2>1 DEF Handler
  <1>3. ASSUME ClientGivesUp(c)
        PROVE  /\ handler.client = c
               /\ handler'.client = c /\ handler'.pc = "dispose" /\ handler'.answer
    BY <1>1, <1>3 DEF Handler, ClientGivesUp
  <1>4. ASSUME PeerReads(c)
        PROVE  handler.client = c /\ handler'.client = c /\ handler'.pc = "respond"
    <2> DEFINE p == First(c, "toServer")
    <2>1. handler.client = c /\ handler' = [handler EXCEPT !.pc = "respond", !.of = p.of]
      BY <1>4 DEF PeerReads
    <2> HIDE DEF p
    <2>2. QED
      BY <1>1, <2>1 DEF Handler
  <1>5. ASSUME PeerGivesUp(c)
        PROVE  handler.client = c /\ handler'.client = c /\ handler'.pc = "respond"
    BY <1>1, <1>5 DEF Handler, PeerGivesUp
  <1>6. QED
    BY <1>2, <1>3, <1>4, <1>5

\* The handler that runs is one for the client, before and after, or stays as it is.
LEMMA HandlerOfOne ==
    ASSUME TypeOK, NEW c \in Client, Touches(c), NEW d \in Client, d # c
    PROVE  handler' = handler \/ (handler.client # d /\ handler'.client # d)
  <1>1. Idle.client = None /\ None # d
    BY NoneAssumption DEF Idle
  <1>2. ASSUME NEW l, Run(c, l) PROVE handler.client # d /\ handler'.client # d
    BY <1>1, <1>2 DEF Run, Idle
  <1>3. ASSUME NEW l, NEW m, Step(c, l, m) PROVE handler.client # d /\ handler'.client # d
    <2>1. [handler EXCEPT !.pc = m].client = handler.client
      OBVIOUS
    <2>2. QED
      BY <1>1, <1>3, <2>1 DEF Step
  <1>4. CASE ProgramNext(c) \/ Handshake(c) \/ ClearPeer(c)
    BY <1>4 DEF ProgramNext, SaveRequest, NewPromise, TestConnected, Connect, ConnectAgain,
       SendRequest, DestroyClient, Handshake, ClearPeer
  <1>5. CASE ClientNext(c)
    <2>1. CASE ClientReads(c) \/ ClientGivesUp(c)
      BY <2>1, ReaderFacts
    <2>2. CASE ConnectReady(c) \/ ClientReady(c)
      BY <1>2, <2>2 DEF ConnectReady, ClientReady
    <2>3. CASE ConnectRefused(c)
      BY <2>3 DEF ConnectRefused
    <2>4. CASE OnConnected(c) \/ Open(c) \/ SendSaved(c) \/ Dispose(c) \/ ClientCloses(c)
               \/ OnDisconnected(c) \/ SetValue(c)
      BY <1>3, <2>4 DEF OnConnected, Open, SendSaved, Dispose, ClientCloses, OnDisconnected,
         SetValue
    <2>5. QED
      BY <1>5, <2>1, <2>2, <2>3, <2>4 DEF ClientNext
  <1>6. CASE PeerNext(c)
    <2>1. CASE PeerReads(c) \/ PeerGivesUp(c)
      BY <2>1, ReaderFacts
    <2>2. CASE AcceptReady(c) \/ PeerReady(c)
      BY <1>2, <2>2 DEF AcceptReady, PeerReady
    <2>3. CASE PeerEnds(c)
      BY <2>3 DEF PeerEnds
    <2>4. CASE OnAccepted(c) \/ Respond(c)
      BY <1>3, <2>4 DEF OnAccepted, Respond
    <2>5. QED
      BY <1>6, <2>1, <2>2, <2>3, <2>4 DEF PeerNext
  <1>7. QED
    BY <1>4, <1>5, <1>6 DEF Touches

\* A client whose communicator sees its connection as it was, or ended by the server.
Stays(d) ==
    /\ Serves(d, {"sendSaved"})' => Serves(d, {"sendSaved"})
    /\ AtOpening(d) => AtOpening(d)'
    /\ AtServer(d) => AtServer(d)'
    /\ Answering(d) => Answering(d)'
    /\ Serves(d, {"disconnected"}) => Serves(d, {"disconnected"})'

LEMMA HandlerStays ==
    ASSUME NEW d \in Client,
           \/ handler' = handler \/ (handler.client # d /\ handler'.client # d)
           \/ handler = Idle /\ handler'.pc # "sendSaved"
    PROVE  Stays(d)
  BY NoneAssumption DEF Stays, Serves, AtOpening, AtServer, AtClient, Answering, ClientPc, Idle

LEMMA KeptUntouched ==
    ASSUME NEW d \in Client, Kept(d), View(d)' = View(d), opened'[d] = opened[d], Stays(d),
           opened[d] => \/ flight'[d] = flight[d] /\ link'[d] = link[d]
                        \/ link'[d] = "serverClosed"
    PROVE  Kept(d)'
  <1>1. /\ user'[d] = user[d] /\ connector'[d] = connector[d]
        /\ future'[d] = future[d] /\ past'[d] = past[d]
    BY DEF View
  <1>2. Awaited(d)' = Awaited(d) /\ InProgram(d)' = InProgram(d)
        /\ InConnector(d)' = InConnector(d)
    BY <1>1 DEF Awaited, Pending, InProgram, InConnector
  <1>3. Exchanged(d) => Exchanged(d)' \/ Ending(d)'
    BY DEF Exchanged, Ending, ToServer, ToClient, Stays
  <1>4. Ending(d) => Ending(d)'
    BY DEF Ending, Stays
  <1>5. QED
    BY <1>2, <1>3, <1>4 DEF Kept, Stays

\* A message that is sent on a connection which is up is on its way.
LEMMA SentFacts ==
    ASSUME TypeOK, NEW c \in Client, NEW w \in Way, NEW r \in Requests, NEW d \in Disposition,
           link[c] = "up", Send(c, w, Message(r, d))
    PROVE  flight'[c][w] # <<>>
  <1> DEFINE f == flight[c][w]
             m == Message(r, d)
  <1>1. f \in Seq(Part) /\ m \in Seq(Part) /\ m # <<>>
    BY MessageFacts DEF TypeOK
  <1>2. flight'[c][w] = f \o m
    BY DEF TypeOK, Send
  <1> HIDE DEF f, m
  <1>3. Len(f \o m) = Len(f) + Len(m) /\ Len(f) \in Nat /\ Len(m) \in Nat \ {0}
    BY <1>1
  <1>4. Len(f \o m) # 0
    BY <1>3
  <1>5. QED
    BY <1>2, <1>4


\* What befalls a client excuses it.
LEMMA Excused ==
    ASSUME TypeOK, NEW c \in Client, NEW m \in Mishap, Befalls(c, m)
    PROVE  ~ Awaited(c)'
  BY BefallsFacts DEF Awaited

LEMMA KeptElsewhere ==
    ASSUME TypeOK, RequestsKept, NEW c \in Client, Touches(c), Kept(c)'
    PROVE  RequestsKept'
  <1>1. SUFFICES ASSUME NEW d \in Client, d # c PROVE Kept(d)'
    BY DEF RequestsKept
  <1>2. Frame(d)' = Frame(d)
    BY <1>1, OthersUntouched
  <1>3. /\ View(d)' = View(d) /\ opened'[d] = opened[d]
        /\ flight'[d] = flight[d] /\ link'[d] = link[d]
    BY <1>2 DEF Frame
  <1>4. Stays(d)
    BY <1>1, HandlerOfOne, HandlerStays
  <1>5. QED
    BY <1>3, <1>4, KeptUntouched DEF RequestsKept

\* What request() does with the request: it is in the program, in the connector, or sent.
LEMMA ProgramKeeps ==
    ASSUME IInv, PromisesAgree, NEW c \in Client, Kept(c), ProgramNext(c)
    PROVE  Kept(c)'
  <1>0. TypeOK
    BY DEF IInv
  <1>1. handler' = handler
    BY DEF ProgramNext, SaveRequest, NewPromise, TestConnected, Connect, ConnectAgain,
       SendRequest, DestroyClient
  <1>2. Serves(c, {"sendSaved"})' => opened'[c]
    <2>1. Serves(c, {"sendSaved"})' => Serves(c, {"sendSaved"})
      BY <1>1 DEF Serves
    <2>2. CASE DestroyClient(c)
      BY <1>1, <2>2, NoneAssumption DEF DestroyClient, Serves, Idle
    <2>3. CASE ~ DestroyClient(c)
      BY <2>1, <2>3 DEF Kept, ProgramNext, SaveRequest, NewPromise, TestConnected, Connect,
         ConnectAgain, SendRequest
    <2>4. QED
      BY <2>2, <2>3
  <1>3. CASE SaveRequest(c)
    <2>1. "overlapped" \in Mishap /\ future' = future
      BY <1>3 DEF Mishap, SaveRequest
    <2>2. ~ Awaited(c)'
      BY <1>0, <1>3, <2>1, Excused DEF SaveRequest, Awaited, Pending
    <2>3. QED
      BY <1>2, <2>2 DEF Kept
  <1>4. CASE NewPromise(c) \/ TestConnected(c)
    <2>1. InProgram(c)'
      BY <1>0, <1>4 DEF TypeOK, NewPromise, TestConnected, Goto, InProgram
    <2>2. QED
      BY <1>2, <2>1 DEF Kept
  <1>5. CASE Connect(c)
    <2>1. InConnector(c)'
      BY <1>0, <1>5 DEF TypeOK, Connect, InConnector
    <2>2. QED
      BY <1>2, <2>1 DEF Kept
  <1>6. CASE ConnectAgain(c)
    <2>1. ~ Awaited(c)'
      BY <1>0, <1>6, Excused DEF ConnectAgain, Mishap
    <2>2. QED
      BY <1>2, <2>1 DEF Kept
  <1>7. CASE SendRequest(c)
    <2>1. CASE ~ opened[c]
      <3>1. ~ Awaited(c)'
        BY <1>0, <1>7, <2>1, Excused DEF SendRequest, Mishap
      <3>2. QED
        BY <1>2, <3>1 DEF Kept
    <2>2. CASE opened[c]
      <3>1. Send(c, "toServer", Message(saved[c], "keep")) /\ opened' = opened /\ link' = link
        BY <1>7, <2>2 DEF SendRequest
      <3>2. link[c] \in {"up", "serverClosed"}
        BY <1>0, <2>2 DEF TypeOK, ClientEnd
      <3>3. link[c] = "up" => ToServer(c)'
        BY <1>0, <3>1, SentFacts DEF Disposition, TypeOK, ToServer, Way
      <3>4. Exchanged(c)' \/ Ending(c)'
        BY <2>2, <3>1, <3>2, <3>3 DEF Exchanged, Ending
      <3>5. QED
        BY <1>2, <3>4 DEF Kept
    <2>3. QED
      BY <2>1, <2>2
  <1>8. CASE DestroyClient(c)
    <2>1. ~ Awaited(c)'
      BY <1>0, <1>8, DestroyClientPromise DEF Awaited
    <2>2. QED
      BY <1>2, <2>1 DEF Kept
  <1>9. QED
    BY <1>3, <1>4, <1>5, <1>6, <1>7, <1>8 DEF ProgramNext

\* What the client's handlers do with it.
LEMMA ClientKeeps ==
    ASSUME IInv, PromisesAgree, NEW c \in Client, Kept(c), ClientNext(c)
    PROVE  Kept(c)'
  <1>0. TypeOK
    BY DEF IInv
  <1>1. CASE ConnectRefused(c)
    <2>1. ~ Awaited(c)' /\ handler'.client # c
      BY <1>0, <1>1, Excused, NoneAssumption DEF ConnectRefused, Mishap, Idle
    <2>2. QED
      BY <2>1 DEF Kept, Serves
  <1>2. CASE ConnectReady(c)
    <2>1. handler'.client = c /\ handler'.pc = "connected"
      BY <1>2 DEF ConnectReady, Run, Idle
    <2>2. QED
      BY <2>1 DEF Kept, AtOpening, Serves
  <1>3. CASE OnConnected(c) \/ Open(c)
    <2>1. /\ handler'.client = c /\ handler'.pc \in {"open", "sendSaved"}
          /\ handler'.pc = "sendSaved" => opened'[c]
      BY <1>0, <1>3 DEF TypeOK, Handler, OnConnected, Open, Step
    <2>2. QED
      BY <2>1 DEF Kept, AtOpening, Serves
  <1>4. CASE SendSaved(c)
    <2>1. /\ Send(c, "toServer", Message(saved[c], "keep")) /\ opened' = opened /\ link' = link
          /\ handler' = Idle /\ handler.client = c /\ handler.pc = "sendSaved"
      BY <1>4 DEF SendSaved, Step, clientVars
    <2>2. opened[c] /\ link[c] \in {"up", "serverClosed"}
      BY <1>0, <2>1 DEF Kept, Serves, TypeOK, ClientEnd
    <2>3. link[c] = "up" => ToServer(c)'
      BY <1>0, <2>1, SentFacts DEF Disposition, TypeOK, ToServer, Way
    <2>4. Exchanged(c)' \/ Ending(c)'
      BY <2>1, <2>2, <2>3 DEF Exchanged, Ending
    <2>5. QED
      BY <2>1, <2>2, <2>4 DEF Kept
  <1>5. CASE ClientReady(c)
    <2>1. handler = Idle /\ handler'.pc # "sendSaved"
      BY <1>5 DEF ClientReady, Run, Idle
    <2>2. /\ View(c)' = View(c) /\ opened' = opened /\ flight' = flight /\ link' = link
      BY <1>5 DEF ClientReady, View, networkVars, promiseVars, clientVars
    <2>3. QED
      BY <2>1, <2>2, HandlerStays, KeptUntouched
  <1>6. CASE ClientReads(c) \/ ClientGivesUp(c)
    BY <1>0, <1>6, ReaderFacts DEF Kept, Answering, AtClient, Serves, ClientPc
  <1>7. CASE Dispose(c)
    <2>1. Stays(c)
      BY <1>0, <1>7 DEF TypeOK, Handler, Dispose, Step, Stays, Serves, AtOpening, AtServer,
         Answering, AtClient, ClientPc
    <2>2. /\ View(c)' = View(c) /\ opened' = opened /\ flight' = flight /\ link' = link
      BY <1>7 DEF Dispose, View, networkVars, promiseVars, clientVars
    <2>3. QED
      BY <2>1, <2>2, KeptUntouched
  <1>8. CASE ClientCloses(c)
    <2>1. handler'.client = c /\ handler'.pc = "disconnected"
      BY <1>0, <1>8 DEF TypeOK, Handler, ClientCloses, Step
    <2>2. QED
      BY <2>1 DEF Kept, Ending, Serves
  <1>9. CASE OnDisconnected(c)
    <2>1. CASE handler.answer
      <3>1. handler'.client = c /\ handler'.pc = "setValue" /\ handler'.answer
        BY <1>0, <1>9, <2>1 DEF TypeOK, Handler, OnDisconnected, Step
      <3>2. QED
        BY <3>1 DEF Kept, Answering, AtClient, Serves, ClientPc
    <2>2. CASE ~ handler.answer
      <3>1. handler' = Idle /\ handler'.client # c
        BY <1>9, <2>2, NoneAssumption DEF OnDisconnected, Step, Idle
      <3>2. \A r : Pending(c, r)' = Pending(c, r)
        BY <1>9 DEF OnDisconnected, Pending, promiseVars
      <3>3. ~ Awaited(c)'
        BY <1>0, <1>9, <2>2, <3>2, Excused DEF OnDisconnected, Awaited, Mishap
      <3>4. QED
        BY <3>1, <3>3 DEF Kept, Serves
    <2>3. QED
      BY <2>1, <2>2
  <1>10. CASE SetValue(c)
    <2>1. handler'.client # c
      BY <1>10, NoneAssumption DEF SetValue, Step, Idle
    <2>2. ~ Awaited(c)'
      BY <1>0, <1>10, SetValuePromise DEF Awaited
    <2>3. QED
      BY <2>1, <2>2 DEF Kept, Serves
  <1>11. QED
    BY <1>1, <1>2, <1>3, <1>4, <1>5, <1>6, <1>7, <1>8, <1>9, <1>10 DEF ClientNext

\* What the kernel and the server do with it.
LEMMA ServerKeeps ==
    ASSUME IInv, PromisesAgree, NEW c \in Client, Kept(c),
           Handshake(c) \/ PeerNext(c) \/ ClearPeer(c)
    PROVE  Kept(c)'
  <1>0. TypeOK
    BY DEF IInv
  <1>1. opened' = opened /\ future' = future /\ user' = user /\ connector' = connector
    BY DEF Handshake, PeerNext, AcceptReady, OnAccepted, PeerReady, PeerEnds, PeerReads,
       PeerGivesUp, Respond, ClearPeer, clientVars, promiseVars
  <1>2. opened[c] => link[c] \in {"up", "serverClosed"}
    BY <1>0 DEF TypeOK, ClientEnd
  <1>3. ASSUME CloseServer(c), link[c] \in ServerEnd
        PROVE  opened[c] => link'[c] = "serverClosed"
    <2>1. link' = [link EXCEPT ![c] = IF @ = "up" THEN "serverClosed" ELSE "closed"]
      BY <1>0, <1>3, CloseServerFacts
    <2>2. QED
      BY <1>0, <1>2, <1>3, <2>1 DEF TypeOK, ServerEnd
  <1>4. CASE Handshake(c)
    <2>1. ~ opened[c] /\ View(c)' = View(c)
      BY <1>2, <1>4 DEF Handshake, View, promiseVars, clientVars
    <2>2. Stays(c)
      BY <1>4, HandlerStays DEF Handshake
    <2>3. QED
      BY <1>1, <2>1, <2>2, KeptUntouched
  <1>5. CASE AcceptReady(c) \/ PeerReady(c) \/ OnAccepted(c)
    <2>1. View(c)' = View(c) /\ flight' = flight /\ link' = link
      BY <1>5 DEF AcceptReady, PeerReady, OnAccepted, View, networkVars, promiseVars, clientVars
    <2>2. CASE AcceptReady(c) \/ PeerReady(c)
      <3>1. handler = Idle /\ handler'.pc # "sendSaved"
        BY <2>2 DEF AcceptReady, PeerReady, Run, Idle
      <3>2. QED
        BY <1>1, <2>1, <3>1, HandlerStays, KeptUntouched
    <2>3. CASE OnAccepted(c)
      <3>1. handler.pc = "accepted" /\ handler' = Idle
        BY <2>3 DEF OnAccepted, Step
      <3>2. Stays(c)
        BY <3>1 DEF Stays, Serves, AtOpening, AtServer, Answering, ClientPc, Idle
      <3>3. QED
        BY <1>1, <2>1, <3>2, KeptUntouched
    <2>4. QED
      BY <1>5, <2>2, <2>3
  <1>6. CASE PeerEnds(c) \/ ClearPeer(c)
    <2>1. View(c)' = View(c) /\ handler' = handler
      BY <1>6 DEF PeerEnds, ClearPeer, View, promiseVars, clientVars
    <2>2. opened[c] => \/ flight'[c] = flight[c] /\ link'[c] = link[c]
                       \/ link'[c] = "serverClosed"
      BY <1>3, <1>6 DEF PeerEnds, ClearPeer, networkVars
    <2>3. QED
      BY <1>1, <2>1, <2>2, HandlerStays, KeptUntouched
  <1>7. CASE PeerReads(c)
    <2>1. AtServer(c)' /\ handler'.pc = "respond" /\ handler.pc = "peerRead"
      BY <1>0, <1>7, ReaderFacts DEF AtServer, Serves, PeerReads
    <2>2. Awaited(c)' = Awaited(c) /\ link' = link
      BY <1>1, <1>7 DEF Awaited, Pending, PeerReads
    <2>3. InProgram(c)' = InProgram(c) /\ InConnector(c)' = InConnector(c)
      BY <1>1 DEF InProgram, InConnector
    <2>4. ~ AtOpening(c) /\ ~ Answering(c) /\ ~ Serves(c, {"disconnected"})
      BY <2>1 DEF AtOpening, Answering, Serves, ClientPc
    <2>5. Exchanged(c) \/ Ending(c) => Exchanged(c)'
      BY <1>1, <2>1, <2>4 DEF Exchanged, Ending
    <2>6. QED
      BY <2>1, <2>2, <2>3, <2>4, <2>5 DEF Kept, Serves
  <1>8. CASE PeerGivesUp(c)
    <2>1. handler'.pc = "respond" /\ ~ Awaited(c)'
      BY <1>0, <1>8, ReaderFacts, Excused DEF PeerGivesUp, Mishap
    <2>2. QED
      BY <2>1 DEF Kept, Serves
  <1>9. CASE Respond(c)
    <2>1. handler.client = c /\ handler.pc = "respond" /\ handler' = Idle /\ past' = past
      BY <1>9 DEF Respond, Step
    <2>2. opened[c] => link[c] = "up"
      BY <1>2, <2>1 DEF IInv, SocketsOwned, Serves, ServerPc, ServerEnd
    <2>3. opened[c] => ToClient(c)' \/ link'[c] = "serverClosed"
      <3>1. PICK x \in Disposition :
               \/ Send(c, "toClient", Message(handler.of, x))
               \/ link' = [link EXCEPT ![c] = IF @ = "up" THEN "serverClosed" ELSE "closed"]
        BY <1>9 DEF Respond, Disposition
      <3>2. handler.of \in Requests /\ "toClient" \in Way
        BY <1>0 DEF TypeOK, Handler, Way
      <3>3. QED
        BY <1>0, <2>2, <3>1, <3>2, SentFacts DEF TypeOK, ToClient
    <2>4. opened[c] => Exchanged(c)' \/ Ending(c)'
      BY <1>1, <2>3 DEF Exchanged, Ending
    <2>5. Awaited(c)' = Awaited(c)
      BY <1>1, <2>1 DEF Awaited, Pending
    <2>6. InProgram(c)' = InProgram(c) /\ InConnector(c)' = InConnector(c)
      BY <1>1 DEF InProgram, InConnector
    <2>7. ~ AtOpening(c) /\ ~ Answering(c) /\ ~ Serves(c, {"disconnected"})
      BY <2>1 DEF AtOpening, Answering, Serves, ClientPc
    <2>8. handler'.client # c
      BY <2>1, NoneAssumption DEF Idle
    <2>9. QED
      BY <2>4, <2>5, <2>6, <2>7, <2>8 DEF Kept, Serves, Exchanged, Ending
  <1>10. QED
    BY <1>4, <1>5, <1>6, <1>7, <1>8, <1>9 DEF PeerNext

\* stop() closes the connections that nobody has accepted, and leaves the rest.
LEMMA StopKeeps ==
    ASSUME IInv, RequestsKept, StopBegins \/ StopDetaches \/ StopEnds
    PROVE  RequestsKept'
  <1>0. TypeOK
    BY DEF IInv
  <1>1. SUFFICES ASSUME NEW d \in Client PROVE Kept(d)'
    BY DEF RequestsKept
  <1>2. View(d)' = View(d) /\ opened' = opened /\ handler' = handler
    BY DEF View, StopBegins, StopDetaches, StopEnds, promiseVars, clientVars
  <1>3. opened[d] => link[d] \in {"up", "serverClosed"}
    BY <1>0 DEF TypeOK, ClientEnd
  <1>4. opened[d] => \/ flight'[d] = flight[d] /\ link'[d] = link[d]
                     \/ link'[d] = "serverClosed"
    <2>1. CASE StopBegins \/ StopEnds
      BY <2>1 DEF StopBegins, StopEnds, networkVars
    <2>2. CASE StopDetaches
      <3>1. /\ link'[d] = CASE link[d] = "asked" -> "refused"
                            [] peer[d] = "none" /\ link[d] = "up" -> "serverClosed"
                            [] peer[d] = "none" /\ link[d] = "clientClosed" -> "closed"
                            [] OTHER -> link[d]
            /\ flight'[d] = IF peer[d] = "none" THEN [w \in Way |-> <<>>] ELSE flight[d]
        BY <2>2 DEF StopDetaches
      <3>2. CASE link[d] = "serverClosed"
        BY <3>1, <3>2
      <3>3. CASE link[d] = "up"
        BY <3>1, <3>3
      <3>4. QED
        BY <1>3, <3>2, <3>3
    <2>3. QED
      BY <2>1, <2>2
  <1>5. QED
    BY <1>2, <1>4, HandlerStays, KeptUntouched DEF RequestsKept

LEMMA KeptStep == KeptInv /\ [Next]_vars => KeptInv'
  <1>1. SUFFICES ASSUME KeptInv, [Next]_vars PROVE KeptInv'
    OBVIOUS
  <1>2. IInv' /\ PromisesAgree'
    BY <1>1, NextInv, PromisesKept DEF KeptInv
  <1>3. ASSUME NEW c \in Client, Touches(c) PROVE RequestsKept'
    <2>1. Kept(c)'
      BY <1>1, <1>3, ProgramKeeps, ClientKeeps, ServerKeeps DEF KeptInv, RequestsKept, Touches
    <2>2. QED
      BY <1>1, <1>3, <2>1, KeptElsewhere DEF KeptInv, IInv
  <1>4. ASSUME StopBegins \/ StopDetaches \/ StopEnds PROVE RequestsKept'
    BY <1>1, <1>4, StopKeeps DEF KeptInv
  <1>5. ASSUME UNCHANGED vars PROVE RequestsKept'
    BY <1>1, <1>5 DEF KeptInv, RequestsKept, Kept, Awaited, Pending, InProgram, InConnector,
       AtOpening, Answering, AtClient, Exchanged, Ending, ToServer, AtServer, ToClient, Serves,
       vars, networkVars, promiseVars, clientVars
  <1>6. RequestsKept'
    BY <1>1, <1>3, <1>4, <1>5 DEF Next, Stopping, Touches
  <1>7. QED
    BY <1>2, <1>6 DEF KeptInv

LEMMA KeptInit == Init => KeptInv
  <1>1. SUFFICES ASSUME Init PROVE KeptInv
    OBVIOUS
  <1>2. IInv
    BY <1>1, InitInv
  <1>3. \A c \in Client : future[c] = <<>> /\ user[c] = "idle" /\ handler.pc = "idle"
    BY <1>1 DEF Init, Idle
  <1>4. \A c \in Client : \A r : ~ Pending(c, r)
    BY <1>3 DEF Pending
  <1>5. PromisesAgree /\ RequestsKept
    BY <1>3, <1>4 DEF PromisesAgree, PromiseOf, RequestsKept, Kept, Awaited, Serves
  <1>6. QED
    BY <1>2, <1>5 DEF KeptInv

LEMMA KeptInvariance == Spec => []KeptInv
  BY KeptInit, KeptStep, PTL DEF Spec

\* client::impl::_response: a future that is waiting, however its client's requests
\* overlap and its connections end, is the one of the promise the client holds, which is
\* not set: no other future is left waiting that nobody could complete or break.
THEOREM WaitingHasPromise ==
    Spec => [](\A c \in Client : \A r \in Request :
                  Pending(c, r) => promise[c] = [of |-> r, set |-> FALSE])
  <1>1. KeptInv => \A c \in Client : \A r \in Request :
                      Pending(c, r) => promise[c] = [of |-> r, set |-> FALSE]
    <2>1. SUFFICES ASSUME KeptInv, NEW c \in Client, NEW r \in Request, Pending(c, r)
                   PROVE  promise[c] = [of |-> r, set |-> FALSE]
      OBVIOUS
    <2>2. promise[c].of = r /\ promise[c].set = FALSE
      BY <2>1 DEF KeptInv, IInv, TypeOK, PromisesAgree, PromiseOf, Pending
    <2>3. promise[c] \in [of : Requests, set : BOOLEAN]
      BY <2>1 DEF KeptInv, IInv, TypeOK
    <2>4. QED
      BY <2>2, <2>3
  <1>2. QED
    BY <1>1, KeptInvariance, PTL

\* The safety part of Answered: a request that waits, of a client to which nothing has
\* happened, is always somewhere (in request(), in the connector, with a handler, on its
\* way or with the peer, by RequestInOnePlace at one place only), or its connection has
\* ended and on_disconnected() is to come, whenever stop() is called.
THEOREM RequestNotForgotten ==
    Spec => [](\A c \in Client : Awaited(c) => Carried(c) \/ Ending(c))
  <1>1. KeptInv => \A c \in Client : Awaited(c) => Carried(c) \/ Ending(c)
    BY DEF KeptInv, RequestsKept, Kept, Carried, Exchanged, Answering
  <1>2. QED
    BY <1>1, KeptInvariance, PTL
=============================================================================
