--------------------------------- MODULE Udp ---------------------------------
(***************************************************************************)
(* io/src/udp.cpp: a communicator on a socket that many peers send to.     *)
(* The stream to read and the stream to write share one endpoint: a read   *)
(* sets it to the sender of the datagram, a flush sends to whatever it is  *)
(* then.                                                                   *)
(***************************************************************************)
EXTENDS Integers, SequencesExt

CONSTANTS
    Peers,          \* endpoints
    None,           \* no endpoint
    MaxSize,        \* bound: units of a datagram
    MaxPut,         \* units in the put area
    MaxDatagrams    \* bound: datagrams that peers send

VARIABLES
    queue,      \* datagrams in the kernel: [from, size]
    count,      \* datagrams so far
    area,       \* units in the get area
    from,       \* history: the sender of the units in the get area
    good,       \* the istream has not failed
    dest,       \* _destination_endpoint
    put,        \* put area: for each unit, whom the program wrote it for
    sent,       \* history: <<to, written for>> of the units sent
    stage,      \* "idle", "received": in a handler of received(), "blocked": that
                \* waits in recvfrom(), "closed"
    past        \* history: "held" units back while the endpoint changed, "named"
                \* another than the sender, read an "empty" datagram

vars == <<queue, count, area, from, good, dest, put, sent, stage, past>>

Init ==
    /\ queue = <<>> /\ count = 0
    /\ area = 0 /\ from = None /\ good = TRUE
    /\ dest = None /\ put = <<>> /\ sent = {}
    /\ stage = "idle" /\ past = {}

-----------------------------------------------------------------------------

PeerSends(p, n) ==
    /\ stage # "closed" /\ count < MaxDatagrams
    /\ count' = count + 1
    /\ queue' = Append(queue, [from |-> p, size |-> n])
    /\ UNCHANGED <<area, from, good, dest, put, sent, stage, past>>

\* on_ready_receive(): whatever has become of the stream.
Ready ==
    /\ stage = "idle" /\ queue # <<>>
    /\ stage' = "received"
    /\ UNCHANGED <<queue, count, area, from, good, dest, put, sent, past>>

(* Faulty variants of the definitions below, used to test the properties *)

\* Sends where the program read from last, without an endpoint of its own.
ReadNoAddress ==
    /\ stage = "received" /\ good /\ area = 0 /\ queue # <<>>
    /\ LET d == Head(queue) IN
       /\ queue' = Tail(queue) /\ area' = d.size /\ from' = d.from /\ good' = (d.size > 0)
       /\ past' = IF d.size = 0 THEN past \union {"empty"} ELSE past
    /\ UNCHANGED <<count, dest, put, sent, stage>>

\* The handler takes a unit.
Read ==
    /\ stage = "received" /\ good /\ area > 0
    /\ area' = area - 1
    /\ UNCHANGED <<queue, count, from, good, dest, put, sent, stage, past>>

\* The next datagram: an empty one is the end of the stream.
ReadNext ==
    /\ stage \in {"received", "blocked"} /\ good /\ area = 0 /\ queue # <<>>
    /\ LET d == Head(queue) IN
       /\ queue' = Tail(queue)
       /\ area' = d.size
       /\ from' = d.from
       /\ good' = (d.size > 0)
       /\ dest' = d.from
       /\ past' = past
                    \union (IF put # <<>> /\ dest # d.from THEN {"held"} ELSE {})
                    \union (IF d.size = 0 THEN {"empty"} ELSE {})
    /\ stage' = "received"
    /\ UNCHANGED <<count, put, sent>>

\* Nothing has arrived: the socket is a blocking one, and the handler waits.
ReadOn ==
    /\ stage = "received" /\ good /\ area = 0 /\ queue = <<>>
    /\ stage' = "blocked"
    /\ UNCHANGED <<queue, count, area, from, good, dest, put, sent, past>>

\* ostr() << ...: for the one whose datagram was read.
Reply ==
    /\ stage = "received" /\ from # None /\ Len(put) < MaxPut
    /\ put' = Append(put, from)
    /\ UNCHANGED <<queue, count, area, from, good, dest, sent, stage, past>>

\* ostr(endpoint) << ...
SendTo(p) ==
    /\ stage = "received" /\ Len(put) < MaxPut
    /\ dest' = p
    /\ put' = Append(put, p)
    /\ past' = past \union (IF put # <<>> /\ dest # p THEN {"held"} ELSE {})
                    \union (IF p # from THEN {"named"} ELSE {})
    /\ UNCHANGED <<queue, count, area, from, good, sent, stage>>

\* sendto(): one datagram of all that was put.
Flush ==
    /\ stage # "closed" /\ put # <<>>
    /\ sent' = sent \union {<<dest, put[i]>> : i \in DOMAIN put}
    /\ put' = <<>>
    /\ UNCHANGED <<queue, count, area, from, good, dest, stage, past>>

\* The event is put back: what was left in the get area waits for a datagram.
Return ==
    /\ stage = "received"
    /\ stage' = "idle"
    /\ UNCHANGED <<queue, count, area, from, good, dest, put, sent, past>>

\* close(), by the handler or another thread: nobody is told, and what was put is lost.
\* What the handler tries on the closed socket fails and is left out.
Close ==
    /\ stage # "closed"
    /\ stage' = "closed"
    /\ queue' = <<>>
    /\ UNCHANGED <<count, area, from, good, dest, put, sent, past>>

Next ==
    \/ \E p \in Peers, n \in 0..MaxSize : PeerSends(p, n)
    \/ Ready \/ Read \/ ReadNext \/ ReadOn \/ Reply \/ Flush \/ Return \/ Close
    \/ \E p \in Peers : SendTo(p)

Spec == Init /\ [][Next]_vars

-----------------------------------------------------------------------------
(* Properties *)

\* udp.h: replies go to the sender of the datagram that was read, and what is
\* written for an endpoint to that one, unless the handler read or wrote on before
\* it flushed, or went back to ostr() after it had named another endpoint; and the
\* stream to read fails for nothing but an empty datagram, however far a handler
\* reads.
RepliesToSender ==
    /\ past \intersect {"held", "named"} = {} => \A s \in sent : s[1] = s[2]
    /\ good \/ "empty" \in past
=============================================================================
