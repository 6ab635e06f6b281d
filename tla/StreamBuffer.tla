----------------------------- MODULE StreamBuffer ----------------------------
(***************************************************************************)
(* io/src/streambuf.cpp under a std::ostream on one side of a socket or a  *)
(* pipe and a std::istream on the other.  The put area is the start of the *)
(* array, up to the put pointer: sync() writes from the start and moves    *)
(* only the pointer.  Characters are numbered in the order they are put.   *)
(*                                                                         *)
(* A device is a stream (tcp.cpp, pipe.cpp), where a read takes what there *)
(* is, or keeps datagrams apart (udp.cpp), where a read takes one and      *)
(* loses what does not fit.                                                *)
(***************************************************************************)
EXTENDS Integers, SequencesExt

CONSTANTS
    Bufsize,        \* basic_streambuf::_bufsize
    Putbacksize,    \* basic_streambuf::_putbacksize
    MaxPut,         \* bound: characters put
    MaxClears,      \* bound: times a program clears the stream it writes to
    MaxPackets      \* bound: writes on their way

\* The constructors' arguments: 10 and 4, or 4096 and 16 for sockets.
ASSUME SizeAssumption ==
    /\ Bufsize \in Nat /\ Putbacksize \in Nat
    /\ Putbacksize < Bufsize

VARIABLES
    device,     \* "none", "stream", "datagram"
    array,      \* _buffer of the writer
    pptr,       \* pptr() - pbase() of the writer
    good,       \* the writer's stream has not failed
    clears,     \* times it was cleared
    count,      \* history: characters put
    net,        \* on their way: what each write gave to the device
    area,       \* from eback() to egptr() of the reader
    gptr,       \* gptr() - eback() of the reader
    ready,      \* the reader's stream has not met the end
    taken,      \* history: the characters the reader has taken
    past        \* history: "short" writes, datagrams that were "cut", a character put
                \* behind the array ("overrun")

writer == <<array, pptr, good, clears, count>>
reader == <<area, gptr, ready, taken>>
vars == <<device, writer, net, reader, past>>

Capacity == Bufsize + Putbacksize   \* of the array

\* A faulty variant, used to test the properties: no room for the character that
\* overflow() stores behind the put area.
EpptrLong == Bufsize

Epptr == Bufsize - 1                \* where the put area ends
Room == Bufsize - Putbacksize       \* for what is read at once

\* The writer's array after c was stored at the put pointer, and what is written.
Store(c) == [array EXCEPT ![pptr] = c]
PutArea(a, n) == [i \in 1..n |-> a[i - 1]]
Unread == SubSeq(area, gptr + 1, Len(area))

-----------------------------------------------------------------------------
(* Faulty variants of definitions below, used to test the properties *)

\* A sync() that empties the put area also when the device took nothing.
SyncForgets(a, p) ==
    /\ array' = a
    /\ \/ net' = Append(net, PutArea(a, p)) /\ pptr' = 0 /\ UNCHANGED <<good, past>>
       \/ pptr' = 0 /\ good' = FALSE /\ UNCHANGED <<net, past>>

-----------------------------------------------------------------------------
(* The writer *)

Init ==
    /\ device = "none"
    /\ array = [i \in 0..(Capacity - 1) |-> 0]
    /\ pptr = 0 /\ good = TRUE /\ clears = 0 /\ count = 0
    /\ net = <<>>
    /\ area = <<>> /\ gptr = 0 /\ ready = TRUE /\ taken = <<>>
    /\ past = {}

Open ==
    /\ device = "none"
    /\ device' \in {"stream", "datagram"}
    /\ UNCHANGED <<writer, net, reader, past>>

\* sync() of p characters in a: the device takes all of them, or some, or none;
\* write() tries again what was interrupted, waits a while for a device that is
\* full, and halves what is too large.
Sync(a, p) ==
    /\ array' = a
    /\ \/ net' = Append(net, PutArea(a, p)) /\ pptr' = 0 /\ UNCHANGED <<good, past>>
       \/ \E n \in 1..(p - 1) :
             /\ net' = Append(net, PutArea(a, n))
             /\ pptr' = p - n
             /\ past' = past \union {"short"}
             /\ UNCHANGED good
       \/ pptr' = p /\ good' = FALSE /\ UNCHANGED <<net, past>>

Put ==
    /\ device # "none" /\ good /\ count < MaxPut
    /\ pptr < Epptr
    /\ array' = Store(count + 1)
    /\ pptr' = pptr + 1
    /\ count' = count + 1
    /\ UNCHANGED <<device, good, clears, net, reader, past>>

\* The character is stored behind the put area, then all is written.
Overflow ==
    /\ device # "none" /\ good /\ count < MaxPut
    /\ pptr >= Epptr /\ pptr < Capacity
    /\ Len(net) < MaxPackets
    /\ Sync(Store(count + 1), pptr + 1)
    /\ count' = count + 1
    /\ UNCHANGED <<device, clears, reader>>

\* The put pointer has left the array: failed writes leave it where it is, and
\* overflow() stores before it writes.  What the store does is undefined; nothing is
\* claimed of what follows, which here is one more failure.
Overrun ==
    /\ device # "none" /\ good /\ count < MaxPut
    /\ pptr >= Capacity
    /\ count' = count + 1
    /\ good' = FALSE
    /\ past' = past \union {"overrun"}
    /\ UNCHANGED <<device, array, pptr, clears, net, reader>>

\* std::flush, also of nothing.
Flush ==
    /\ device # "none" /\ good
    /\ Len(net) < MaxPackets
    /\ Sync(array, pptr)
    /\ UNCHANGED <<device, clears, count, reader>>

\* A program may clear() a stream that has failed, and write on.
Clear ==
    /\ ~ good /\ clears < MaxClears
    /\ good' = TRUE
    /\ clears' = clears + 1
    /\ UNCHANGED <<device, array, pptr, count, net, reader, past>>

-----------------------------------------------------------------------------
(* The reader *)

Get ==
    /\ ready /\ gptr < Len(area)
    /\ taken' = Append(taken, area[gptr + 1])
    /\ gptr' = gptr + 1
    /\ UNCHANGED <<device, writer, net, area, ready, past>>

\* unget() of a character that was just taken, the end of a token.
Unget ==
    /\ ready /\ gptr > 0
    /\ taken' = SubSeq(taken, 1, Len(taken) - 1)
    /\ gptr' = gptr - 1
    /\ UNCHANGED <<device, writer, net, area, ready, past>>

\* What one read can take: all that has come, or the first datagram.
Readable ==
    CASE net = <<>> -> <<>>
      [] device = "stream" -> FlattenSeq(net)
      [] OTHER -> net[1]

\* underflow() that has read s.
Refill(s) ==
    /\ area' = s
    /\ gptr' = 0
    /\ UNCHANGED <<ready, taken>>

\* read(): any part of what is there, as far as there is room.
UnderflowStream ==
    /\ device = "stream" /\ ready /\ gptr = Len(area)
    /\ \E n \in 1..Room :
          /\ n <= Len(Readable)
          /\ Refill(SubSeq(Readable, 1, n))
          /\ net' = <<SubSeq(Readable, n + 1, Len(Readable))>>
    /\ UNCHANGED <<device, writer, past>>

\* recvfrom(): one datagram; what there is no room for is lost.
UnderflowDatagram ==
    /\ device = "datagram" /\ ready /\ gptr = Len(area)
    /\ Readable # <<>>
    /\ Refill([i \in 1..(IF Len(Readable) > Room THEN Room ELSE Len(Readable)) |-> Readable[i]])
    /\ past' = IF Len(Readable) > Room THEN past \union {"cut"} ELSE past
    /\ net' = Tail(net)
    /\ UNCHANGED <<device, writer>>

\* Nothing has come in time, or an empty datagram: the end of the stream, until
\* a program clears it.
Eof ==
    /\ device # "none" /\ ready /\ gptr = Len(area)
    /\ Readable = <<>>
    /\ net' = IF net = <<>> THEN <<>> ELSE Tail(net)
    /\ ready' = FALSE
    /\ UNCHANGED <<device, writer, area, gptr, taken, past>>

ClearReader ==
    /\ ~ ready
    /\ ready' = TRUE
    /\ UNCHANGED <<device, writer, net, area, gptr, taken, past>>

Next ==
    \/ Open \/ Put \/ Overflow \/ Overrun \/ Flush \/ Clear
    \/ Get \/ Unget \/ UnderflowStream \/ UnderflowDatagram \/ Eof \/ ClearReader

Spec == Init /\ [][Next]_vars

-----------------------------------------------------------------------------
(* Properties *)

\* Pointers stay within the areas of the two arrays.
TypeOK ==
    /\ device \in {"none", "stream", "datagram"}
    /\ array \in [0..(Capacity - 1) -> Nat]
    /\ pptr \in 0..Capacity
    /\ good \in BOOLEAN /\ clears \in Nat /\ count \in Nat
    /\ net \in Seq(Seq(Nat))
    /\ area \in Seq(Nat) /\ gptr \in 0..Len(area)
    /\ ready \in BOOLEAN
    /\ taken \in Seq(Nat)
    /\ past \subseteq {"short", "cut", "overrun"}

\* Each character that was put is, in its order and once, with the reader, in
\* its get area, on the way, or in the writer's put area, whatever failed and
\* was tried again: as long as each write is taken whole or not at all, no
\* datagram is longer than the reader's area, and the array was not left.
Conserved ==
    past = {} => taken \o Unread \o FlattenSeq(net) \o PutArea(array, pptr) = [i \in 1..count |-> i]

\* A writer stays within its array unless its program has cleared failures more
\* often than there is room for behind the put area.
StaysInArray == "overrun" \in past => clears > Putbacksize
=============================================================================
